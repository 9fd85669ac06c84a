\* The whole transfer machinery, with and without an interpreter lock in use.
CONSTANTS
  i1 = i1
  i2 = i2
  Images <- Pictures
  MaxCalls = 2
  MaxInits = 2
  MaxFaults = 1
SPECIFICATION FairSpec
INVARIANTS TypeOK OneTransaction LockDiscipline StopNotLost ObjectsOutliveThread NoOverwrite NoLockCycle
PROPERTIES NoSelfTimeout DeliverySpec IdleStopReturns PictureFetched
CHECK_DEADLOCK TRUE
