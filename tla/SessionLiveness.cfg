SPECIFICATION FairSpec

CONSTANTS
  r1 = r1
  w1 = w1
  Nobody = Nobody
  Tools <- TwoTools
  Replicas = {r1}
  Workers = {w1}
  Tool <- OtherTool
  MaxCalls = 1
  MaxIter = 2
  MaxBatch = 1
  MaxAttempts = 2
  MaxTurns = 2
  MaxCrashes = 1
  Verdicts = {"ALLOW", "ASK", "DENY", "HINT"}
  Requests = {"chat", "approve", "reject"}
  CheckpointFaults = FALSE
  Eviction = TRUE

PROPERTY DriveEnds
PROPERTY InterruptedIsResumed

CHECK_DEADLOCK FALSE
