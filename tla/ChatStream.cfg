SPECIFICATION FairSpec

CONSTANTS
  s1 = s1
  s2 = s2
  Nobody = Nobody
  Streams = {s1, s2}
  Limit = 2
  Keep = 2
  QueueCap = 1
  MaxFrames = 1
  MaxTurns = 1
  Heartbeat = TRUE
  Unsteady = {s1}
  Faulty = {s2}

INVARIANT SlotsCounted
INVARIANT DrivesAlone
INVARIANT TurnsInOrder
INVARIANT EndIsOnTheBus
PROPERTY LeaseReturned
PROPERTY ResponseEnds

CHECK_DEADLOCK FALSE
