CONSTANTS
  p1 = p1
  p2 = p2
  c1 = c1
  c2 = c2
  c3 = c3
  Call = {c1, c2, c3}
  Proc = {p1, p2}
  ProcOf <- MCProcOf
  Mortal = {p1}
  Slow = {c1, c2}
  Rules <- MCRules
  NoCall = NoCall
SPECIFICATION LockSpec
INVARIANTS ExclusiveUnlessRobbed RobberyNeedsFault
PROPERTY WaitingEnds
CHECK_DEADLOCK FALSE
