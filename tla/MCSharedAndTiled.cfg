\* Two entries that share a block, then a retried entry in two blocks; room for the retried blocks beyond the window.
SPECIFICATION Spec
CONSTANTS
  NumBlocks = 3
  BlockStart <- Start3
  BlockEnd <- End3
  NumEntries = 3
  FirstBlock <- MixFirst
  LastBlock <- MixLast
  WindowBytes = 1
  BudgetBytes = 2
  GetConcurrency = 2
  MaxInFlight = 2
  MaxAttempts <- ThirdTwice
INVARIANTS
  MemoryAccounting ClaimAccounting OneFetcher NoLostWakeup BudgetReturned
PROPERTY
  PoolKept
