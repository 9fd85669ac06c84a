\* One transfer, one event, no failure: the cancellation that meets the callback.
CONSTANTS
  Count = 1
  MaxEvents = 1
  Malformed = {}
  MaxDevices = 1
  MaxFaults = 0
SPECIFICATION FairSpec
PROPERTY CancelReturns
CHECK_DEADLOCK FALSE
