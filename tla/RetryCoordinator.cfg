SPECIFICATION FairSpec
CONSTANTS
  Writer = {w1, w2}
  MaxAttempts = 5
  BaseDelay = 1
  MaxDelay = 2
  SlowBase = 1
  SlowMax = 3
  FullJitter = TRUE
  Width = 3
  Deadline = 5
  Horizon = 6
INVARIANT WakesInTime
PROPERTIES GateKept ExpiresForCause WritersEnd
