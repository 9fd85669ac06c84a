\* Stopping the thread while it has a picture to hand to the callback.
CONSTANTS
  i1 = i1
  i2 = i2
  Images <- OnePicture
  MaxCalls = 0
  MaxInits = 1
  MaxFaults = 0
SPECIFICATION FairSpec
PROPERTIES StopReturns
CHECK_DEADLOCK FALSE
