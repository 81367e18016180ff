SPECIFICATION Spec

CONSTANTS
  l1 = l1
  l2 = l2
  l3 = l3
  Nobody = Nobody
  Leases = {l1, l2, l3}
  TTL = 2
  Interval = 1
  Slow = {l1, l2, l3}
  MaxLag = 1
  Shared = TRUE
  RenewFaults = TRUE
  MaxClock = 3

INVARIANT NoOrphanedLock
INVARIANT OverlapOnlyOfWiped

CHECK_DEADLOCK FALSE
