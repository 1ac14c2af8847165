\* One entry at a time, one GET at a time; the budget has room for the retried block beyond the window.
SPECIFICATION FairSpec
CONSTANTS
  NumBlocks = 2
  BlockStart <- Start2
  BlockEnd <- End2
  NumEntries = 2
  FirstBlock <- Own2
  LastBlock <- Own2
  WindowBytes = 1
  BudgetBytes = 2
  GetConcurrency = 1
  MaxInFlight = 1
  MaxAttempts <- FirstTwice
PROPERTIES
  ReadersEnd
