CONSTANTS
  Proc = {p1, p2}
  MaxAttempts = 4
  NoLease = NoLease
SPECIFICATION Spec
INVARIANT NoTwoWriters
CHECK_DEADLOCK FALSE
