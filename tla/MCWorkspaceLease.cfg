CONSTANTS
  p1 = p1
  p2 = p2
  r1 = r1
  r2 = r2
  r3 = r3
  Proc = {p1, p2}
  Run = {r1, r2, r3}
  HostOf <- MCHostOf
  Ttl = 2
  NoLease = NoLease
  Torn = Torn
  KillMayFail = TRUE
SPECIFICATION FairSpec
INVARIANTS TypeOK OneWriter HolderNeverDisplaced
PROPERTIES FencingAdvances LeaseEventuallyFree
CHECK_DEADLOCK FALSE
