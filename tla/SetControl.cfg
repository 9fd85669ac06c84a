\* Two calls, with a turn of the dial, a late step and a failure anywhere.
CONSTANTS
  Kind = "number"
  Scale <- MCNumbers
  Targets <- MCTargets
  MaxCalls = 2
  MaxDials = 1
  MaxLates = 1
  MaxFaults = 1
SPECIFICATION FairSpec
INVARIANTS TypeOK GotValue NoSuchValue
PROPERTY Returns
