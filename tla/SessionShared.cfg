SPECIFICATION Spec

CONSTANTS
  r1 = r1
  r2 = r2
  w1 = w1
  Nobody = Nobody
  Tools <- TwoTools
  Replicas = {r1, r2}
  Workers = {w1}
  Tool <- SameTool
  MaxCalls = 2
  MaxIter = 1
  MaxBatch = 1
  MaxAttempts = 2
  MaxTurns = 2
  MaxCrashes = 1
  Verdicts = {"ALLOW", "ASK"}
  Requests = {"chat", "approve", "reject"}
  CheckpointFaults = TRUE
  Eviction = FALSE

INVARIANT GrantedExecutions
PROPERTY WorkersLeaveSettled

SYMMETRY SymmetricReplicas

CHECK_DEADLOCK FALSE
