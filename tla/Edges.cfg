SPECIFICATION EdgesSpec

CONSTANTS
  ada = ada
  bob = bob
  Users = {ada, bob, vic}
  Admins = {ada}
  Viewers = {vic}
  Runs = {here}
  Requests = {q1, q2, q3}
  AllowSelf = FALSE
  MaxTickets = 2
  MaxRestarts = 1
  q1 = q1
  q2 = q2
  q3 = q3
  here = here
  there = there
  None = None
  Loops = {l1, l2}
  Agents = {a1}
  Poses = {0, 1, 2}
  Lo = 1
  Hi = 2
  MaxStep = 1
  Clamp = FALSE
  MaxFaults = 1
  SeqSpace = 4
  MaxRetries = 1
  MaxLosses = 5
  MaxPolls = 10
  Bytes = {0, 1, 2, 3}
  Sof1 = 2
  Sof2 = 1
  MaxPayload = 2
  MaxChunk = 2
  MaxBytes = 6
  Servers = {s1, s2}
  Members = {ada, bob}
  ApiKeys = {k1, k2}
  SingleUser = ada
  MaxEdits = 2
  Rooms = {here, there}
  MaxStreams = 2
  MaxFrames = 3
  MaxRenders = 1
  MaxLoads = 4
  MaxVersion = 1
  Owner <- OwnedByAda
  MaxJobs = 1
  Models = {q1, q2, q3}
  Keyless = {q3}
  MaxTests = 3

INVARIANT StopBinds
PROPERTY EdgesProgress
PROPERTY PageTells
PROPERTY ReadingsTrue
PROPERTY AccessHolds

CHECK_DEADLOCK FALSE
