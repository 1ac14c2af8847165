SPECIFICATION Spec
CONSTANTS
  Absent = Absent
  Requests <- AllRequests
  CatalogKey <- CatalogV1
  CatalogV2Key <- CatalogV2
  MaxInteger = 30
  MaxWord = 104
  MiB = 4
  PermitUnit = 2
  MinBlock = 1
  DefaultBlock = 3
  DefaultGap = 1
  DefaultConcurrency = 2
  MaxConcurrency = 3
  MemoryStep = 2
  MaxAdaptiveGets = 2
  MaxGets = 3
  BaseOverhead = 2
  WorkerOverhead = 1
  FileOverhead = 1
  LargeThreshold = 8
  LargeSlack = 4
  MaxWindow = 12
  MaxPutAttempts = 2
  MaxRetryDelay = 2
  SigLen = 2
  EocdLen = 3
  MaxComment = 3
  LocatorLen = 2
  RecordLen = 3
  MinEntry = 1
  ScanChunk = 4
  ParserBuffer = 3
  EntryMetadata = 1
  DirectoryFactor = 2
  MaxPut = 8
  GetAttempts = 2
  MaxCopy = 6
  MaxRatio = 3
  MaxKey = 4
  MaxCatalog = 4
  CatalogFactor = 2
INVARIANTS EndRecordFound PlanDescribesPin LastSourceWins TrustIsWhole PlanningNeverWaits StoreContract
