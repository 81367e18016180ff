\* The sweep against callers whose clock is another host's.
SPECIFICATION Spec
CONSTANTS
  Boot = 9
  Callers = {c1, c2}
  GlobalWindow = 2
  HostWindow = 3
  GlobalMax = 1
  HostMax = 1
  MaxConcurrency = 1
  MaxAge = 3
  MaxLag = 1
  MaxClock = 5
PROPERTY LiveWindowsKept
CHECK_DEADLOCK FALSE
