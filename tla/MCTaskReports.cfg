CONSTANTS
  p1 = p1
  p2 = p2
  a1 = a1
  a2 = a2
  a3 = a3
  a4 = a4
  r1 = r1
  b1 = b1
  k1 = k1
  k2 = k2
  k3 = k3
  Call = {a1, a2, a3, a4, r1, b1}
  Proc = {p1, p2}
  ProcOf <- MCProcOf
  Mortal = {p1}
  Slow = {}
  Rules <- MCRules
  KindOf <- MCKindOf
  KeyOf <- MCKeyOf
  BodyOf <- MCBodyOf
  Progress = {a3, a4}
  NoCall = NoCall
  NoEvent = NoEvent
  NoFile = NoFile
SPECIFICATION Spec
VIEW View
CONSTRAINT AtMostThree
INVARIANTS TypeOK SequenceGapless NoLineWasted AnswerCurrent
PROPERTY ImplementsLog
CHECK_DEADLOCK FALSE
