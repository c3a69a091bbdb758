CONSTANTS
  p1 = p1
  p2 = p2
  p3 = p3
  e1 = e1
  e2 = e2
  u1 = u1
  k1 = k1
  t1 = t1
  s1 = s1
  Call = {e1, e2}
  Proc = {p1, p2, p3}
  Mortal = {p1}
  KindOf <- MCKindOf
  ProcOf <- MCProcOf
  NSteps = 1
  Idempotent = {1}
  MaxAttempts = 1
  NoCall = NoCall
  NoProc = NoProc
  NoCopy = NoCopy
SPECIFICATION Spec
VIEW View
PROPERTY StaleWriterRefused
CHECK_DEADLOCK FALSE
