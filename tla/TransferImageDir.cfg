\* Deallocating the camera while the thread saves a picture.
CONSTANTS
  i1 = i1
  i2 = i2
  Images <- OnePicture
  MaxCalls = 0
  MaxInits = 1
  MaxFaults = 0
SPECIFICATION Spec
INVARIANTS ImageDirSet
