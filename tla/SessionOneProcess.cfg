SPECIFICATION Spec

CONSTANTS
  r1 = r1
  Nobody = Nobody
  Tools <- TwoTools
  Replicas = {r1}
  Workers = {}
  Tool <- SameTool
  MaxCalls = 3
  MaxIter = 2
  MaxBatch = 2
  MaxAttempts = 3
  MaxTurns = 4
  MaxCrashes = 2
  Verdicts = {"ALLOW", "ASK", "DENY", "HINT"}
  Requests = {"chat", "approve", "reject"}
  CheckpointFaults = FALSE
  Eviction = FALSE

INVARIANT SingleExecution
INVARIANT HeldHasTicket
INVARIANT FailedIsCheckpointed
INVARIANT CacheCoherent
PROPERTY RefusedNotExecuted
PROPERTY RefinesLifecycle

CHECK_DEADLOCK FALSE
