\* Four transactions, two failures and two stalls anywhere in them; ids do not
\* come round again within a session.
CONSTANTS
  IdSpace = 5
  MaxTransactions = 4
  MaxFaults = 2
  MaxStalls = 2
SPECIFICATION FairSpec
INVARIANTS TypeOK OwnAnswer CleanAfterSuccess InStep BufferOwned
PROPERTIES CommandsSpec Returns OutOfStepStays
