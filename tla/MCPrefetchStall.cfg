\* One entry in three blocks, two concurrent GETs, and a window of two blocks within a budget of three.
SPECIFICATION FairSpec
CONSTANTS
  NumBlocks = 3
  BlockStart <- Start3
  BlockEnd <- End3
  NumEntries = 1
  FirstBlock <- F1
  LastBlock <- L3
  WindowBytes = 2
  BudgetBytes = 3
  GetConcurrency = 2
  MaxInFlight = 1
  MaxAttempts <- Once1
PROPERTIES
  ReadersEnd
