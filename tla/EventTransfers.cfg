\* Two transfers, three events, two failures, two devices one after the other.
\* The system may stop: a cancellation that was refused is waited for in vain.
CONSTANTS
  Count = 2
  MaxEvents = 3
  Malformed = {2}
  MaxDevices = 2
  MaxFaults = 2
SPECIFICATION FairSpec
INVARIANTS TypeOK UnusedWhenDone Accounted DeliveredOnce
PROPERTIES EventDelivered AcceptedIsFreed
CHECK_DEADLOCK FALSE
