SPECIFICATION Spec

CONSTANTS
  l1 = l1
  l2 = l2
  l3 = l3
  Nobody = Nobody
  Leases = {l1, l2, l3}
  Slow = {l2, l3}
  TTL = 4
  Interval = 1
  MaxLag = 1
  Shared = FALSE
  RenewFaults = FALSE
  MaxClock = 5

INVARIANT Exclusive
INVARIANT HolderKeepsLock
INVARIANT LossIsNoticed

CHECK_DEADLOCK FALSE
