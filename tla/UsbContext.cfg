\* Three threads, four opens, two of them refused at any point.
CONSTANTS
  Users = {"a", "b", "c"}
  MaxOpens = 4
  MaxFaults = 2
SPECIFICATION FairSpec
INVARIANTS TypeOK ThreadMatchesDevices CountIsDevices
PROPERTY CloseReturns
