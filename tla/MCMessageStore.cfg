SPECIFICATION Spec
VIEW View
CHECK_DEADLOCK FALSE
CONSTANTS
  m1 = m1
  m2 = m2
  p1 = p1
  p2 = p2
  direct = direct
  append = append
  poll = poll
  again = again
  NoOwner = NoOwner
  NoCall = NoCall
  NoMsg = NoMsg
  NoRec = NoRec
  NoLease = NoLease
  Msg <- Messages
  KeyOf <- SameKey
  Journalled = {m1}
  Call = {direct, append, poll, again}
  KindOf <- Kinds
  MsgOf <- Target
  After <- InTurn
  ProcOf <- Place
  OwnerOf <- Owners
  Proc = {p1, p2}
  Mortal = {p1}
  MaxAttempts = 2
INVARIANTS
  TypeOK
  SettledIsFinal
  AckImpliesApplied
  DeadLetterExhausted
  DedupeSeesOutbox
  BudgetKept
  ClaimExclusive
