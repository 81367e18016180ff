SPECIFICATION Spec

CONSTANTS
  r1 = r1
  r2 = r2
  Nobody = Nobody
  Tools <- TwoTools
  Replicas = {r1, r2}
  Workers = {}
  Tool <- OtherTool
  MaxCalls = 1
  MaxIter = 2
  MaxBatch = 1
  MaxAttempts = 3
  MaxTurns = 3
  MaxCrashes = 0
  Verdicts = {"ASK"}
  Requests = {"chat", "approve", "reject"}
  CheckpointFaults = FALSE
  Eviction = FALSE

INVARIANT SingleExecution

SYMMETRY SymmetricReplicas

CHECK_DEADLOCK FALSE
