SPECIFICATION Spec
CONSTANTS
  Owner = {o1, o2}
  KeyOrder <- FourKeys
  Places <- AllPlaces
  Plans <- FewPlans
  Filtered <- NoKeys
  MaxRetained = 1
  PageSize = 2
  ChunkSize = 1
  MaxAttempts = 2
  MaxRequests = 3
INVARIANT KeptContent
PROPERTIES CleanupComplete PreviousRetained RequestAdvances
