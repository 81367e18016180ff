SPECIFICATION RecordsSpec

CONSTANTS
  Requests = {a1, a2, a3, a4}
  Nobody = Nobody
  TTL = 2
  MaxRun = 2
  StoreFaults = TRUE
  Replicas = {c1, c2}
  Commands = {c1, c2}
  FilesOf = {x, y}
  Channels = {c1, c2}
  EventKeep = 1
  PageSize = 2
  MaxIds = 4
  Texts = {x, y}
  Servers = {c1, c2}
  Owners = {x}
  Deployment = y
  Starters = {1, 2}
  SchemaVersion = 4
  Keep = 2
  MaxTime = 4
  MaxVersion = 2
  Callers = {c1, c2}
  Threads = {c1, c2}
  MaxItems = 3
  MaxExpired = 1
  Indexer = c1
  Sources = {1, 2, 3}
  Pieces = 2
  MaxCrashes = 3
  Size = 2
  MaxAttempts = 1
  MaxOps = 3
  MaxFailures = 1
  MaxDrops = 1
  AnchorEvery = 2
  MaxRows = 4
  MaxWrites = 3
  QueueMax = 2
  MaxBatch = 1
  Stuck = 1
  CacheTTL = 2
  ListMax = 1
  AlertMax = 1
  MaxTicks = 2
  MaxScans = 2
  Values = {0, 1, 2}
  Buckets = {0, 1}
  MaxValues = 3
  Dims = 2
  Weights = {0, 1, 2}
  MaxVectors = 3
  RrfK = 2
  MaxText = 5
  MaxCalls = 2
  MaxMessages = 6
  KeepRecent = 4
  GlobalWindow = 2
  HostWindow = 3
  GlobalMax = 1
  HostMax = 1
  MaxConcurrency = 1
  Boot = 9
  MaxAge = 3
  MaxLag = 1
  MaxClock = 5

INVARIANT OncePerKey
INVARIANT AnswersAgree
INVARIANT LedgersTell
INVARIANT ReadersTold
INVARIANT LimitsHold
INVARIANT PromptIsSound
PROPERTY OldDataReadable
PROPERTY KeyRecovers

CHECK_DEADLOCK FALSE
