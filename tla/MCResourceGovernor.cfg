CONSTANTS
  p1 = p1
  p2 = p2
  w1 = w1
  w2 = w2
  r1 = r1
  n1 = n1
  n2 = n2
  Proc = {p1, p2}
  Req <- MCReq
  Request <- MCRequest
  Limit <- MCLimit
  NoReq = NoReq
  Ttl = 1
  Patience = 1
SPECIFICATION Spec
INVARIANTS TypeOK PoolLimits WriterExclusion  
INVARIANTS NoPhantomWaiter QueueHeadAdmissible
CHECK_DEADLOCK FALSE
