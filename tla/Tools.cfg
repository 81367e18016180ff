SPECIFICATION ToolsSpec

CONSTANTS
  Callers = {c1, c2}
  Threads = {1, 2, 3}
  MaxStuck = 1
  MaxAttempts = 2
  Threshold = 1
  read = read
  fetch = fetch
  shell = shell
  drop = drop
  x = x
  nothing = nothing
  y = y
  Calls = {read, fetch, shell, drop}
  Gated = {shell}
  Asks = {drop}
  Denies = {}
  MaxIterations = 3
  Steps = 1
  Budget = 1
  MaxCost = 1
  Words = {x, fetch}
  Triggers <- TriggersOf
  Names <- NamesOf
  Goals <- GoalsOf
  RoundSize = 2
  MaxProcesses = 1
  MaxHeirs = 1
  NTasks = 3
  TaskNames = {x, y}
  MaxWorkers = 2
  Retries = 1
  Specs = {read, fetch, shell, drop}
  Pure = {read, fetch}
  Cards = {x, y}
  MemoryTools = {drop}
  Tools = {x, y}
  Dotted = {x}
  MaxCalls = 2
  Parts = 2
  Sources = {x, y}
  NTests = 3
  Lines = {1, 2, 3}
  CASES <- CasesOf
  MaxRuns = 2
  MaxEdits = 1
  Admins = {c1}
  Runs = {home}
  Endpoints = {here}
  Keys = {newKey}
  Given = oldKey
  Models = {"fake", "custom"}
  Deployment = deployment
  MaxRequests = 2
  MaxRestarts = 1
  Borrowers = {c1, c2}
  Leases = {x, y}
  TTL = 1
  MaxTime = 2
  Urls = {x, y, here}
  Blocked = {here}
  Addresses = {oldKey, newKey, drop}
  Public = {oldKey, newKey}
  MaxRedirects = 2
  MaxBytes = 3
  MaxChunk = 2
  Remote = {read, drop}
  Dangerous = {drop}
  MaxOps = 2
  Aliases = {read, fetch}
  Titles = {x, y}
  Needs = {shell}
  MaxLoads = 2
  Files = 1
  Texts = {x, y}
  Dashed = {x}
  Crossed = {}
  MaxLines = 3
  MaxHunks = 2
  MaxSize = 2

INVARIANT ThreadsBounded
INVARIANT NoDoubleEffect
INVARIANT NothingLost
INVARIANT AppliedAsPlanned
PROPERTY LoopGuards
PROPERTY EverythingEnds

CHECK_DEADLOCK FALSE
