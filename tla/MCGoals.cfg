CONSTANTS
  p1 = p1
  p2 = p2
  s = s
  u = u
  r1 = r1
  r2 = r2
  k = k
  k1 = k1
  k2 = k2
  Call = {s, u, r1, r2, k}
  Proc = {p1, p2}
  Mortal = {p1}
  KindOf <- MCKindOf
  ProcOf <- MCProcOf
  Key = {k1, k2}
  KeyOf <- MCKeyOf
  MaxLater = 1
  NoCall = NoCall
  NoKey = NoKey
  MaxCalls = 4
  CrashedCalls = 3
  RacedCalls = 3
  SeizedCalls = 2
SPECIFICATION FairSpec
VIEW View
CONSTRAINT FewCalls
INVARIANTS TypeOK OneTurn LeaseReturned NotifiedOnce
PROPERTIES EndIsFinal RunningEnds
CHECK_DEADLOCK FALSE
