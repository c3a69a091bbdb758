------------------------- MODULE MessageStoreProofs -------------------------
(***************************************************************************)
(* What the message store keeps although it holds no lock, for any number  *)
(* of messages, calls and processes and any max_attempts.                  *)
(*                                                                         *)
(* The journals only grow, and every copy of state.json is bounded by      *)
(* them: it names messages of the outbox only, with tokens up to its       *)
(* counter and no more attempts than claims were saved.  FileInv says so   *)
(* of the file and CallInv of the copy each call works on; a copy that is  *)
(* written back, however old, therefore cannot break FileInv.              *)
(*                                                                         *)
(* What it promises only while no old copy is written back follows after   *)
(* those theorems, from CalmInv: which call state.json names as the        *)
(* claimant of a message, and what the copies may still say of it.         *)
(***************************************************************************)
EXTENDS MessageStore, FiniteSetTheorems, TLAPS

Sound(s) == \A m \in Msg :
  s.messages[m] # NoRec => m \in outbox /\ s.messages[m].fence <= s.count

Counted(s, m) == s.messages[m] # NoRec => s.messages[m].attempt <= claims[m]

FileInv ==
  /\ Sound(state)
  /\ \A m \in Msg : Counted(state, m)
  /\ \A m \in acks : KeyOf[m] \in handled
  /\ \A k \in Key : inbox[k] = "applied" => k \in handled
  /\ \A m \in dead : claims[m] >= MaxAttempts

\* Between the lease file of a claim and its writeState.
Claiming(c) == op[c] = "claim" /\ at[c] = "save" /\ msg[c] # NoMsg

\* The message a call is about.
MsgInv(c) ==
  /\ msg[c] \in outbox \cup {NoMsg}
  /\ op[c] = "append" =>
       KindOf[c] = "append" /\ at[c] \in {"load", "recover", "decide", "save", "done"}
  /\ op[c] \in {"ack", "nack"} \/ Delivering(c) \/ at[c] \in {"bury", "unlease"} => msg[c] # NoMsg
  /\ at[c] = "bury" => claims[msg[c]] >= MaxAttempts
  /\ at[c] \in {"applied", "recheck"} \/ op[c] = "ack" => KeyOf[msg[c]] \in handled

\* The copy it works on.
MemInv(c) ==
  /\ Sound(mem[c])
  /\ \A m \in Msg : (Claiming(c) /\ m = msg[c]) \/ Counted(mem[c], m)
  /\ Claiming(c) /\ mem[c].messages[msg[c]] # NoRec =>
       mem[c].messages[msg[c]].attempt <= claims[msg[c]] + 1

\* What it knows of the time before it started.
SeenInv(c) ==
  /\ seen[c].outbox \subseteq outbox /\ seen[c].settled \subseteq acks \cup dead
  /\ op[c] = "claim" /\ at[c] \in {"decide", "bury", "unlease"} =>
       \A m \in seen[c].settled :
         mem[c].messages[m] # NoRec => mem[c].messages[m].status = "acked"
  /\ Claiming(c) \/ Delivering(c) => msg[c] \notin seen[c].settled
  /\ op[c] = "append" /\ at[c] = "decide" =>
       \A m \in seen[c].outbox \ dead : mem[c].messages[m] # NoRec
  /\ op[c] = "append" /\ at[c] = "save" =>
       \A m \in seen[c].outbox \ dead : KeyOf[m] # KeyOf[MsgOf[c]]

CallInv(c) == MsgInv(c) /\ MemInv(c) /\ SeenInv(c)

IInv == TypeOK /\ FileInv /\ \A c \in Call : CallInv(c)

-----------------------------------------------------------------------------
(* Records and copies.                                                     *)

\* What a record keeps when its claim is taken back.
LEMMA UnclaimedKeeps ==
  ASSUME NEW r \in Rec, NEW status \in {"pending", "retry_wait", "acked"}
  PROVE  /\ Unclaimed(r, status) \in Rec
         /\ Unclaimed(r, status).fence = 0
         /\ Unclaimed(r, status).attempt = r.attempt
         /\ Unclaimed(r, status).status = status
BY DEF Unclaimed, Rec

LEMMA NewIsRec == NewRec \in Rec /\ NewRec.fence = 0 /\ NewRec.attempt = 0
BY DEF NewRec, Rec

\* The counter that recover writes is the one it has read.
LEMMA MaxIsCount ==
  ASSUME NEW n \in Nat, NEW S \in SUBSET Nat, \A x \in S : x <= n
  PROVE  Max({n} \cup S) = n
<1> DEFINE T == {n} \cup S
           P(x) == x \in T /\ \A y \in T : x >= y
<1>1. P(n)
  OBVIOUS
<1>2. \A x : P(x) => x = n
  OBVIOUS
<1>3. Max(T) = CHOOSE x : P(x)
  BY DEF Max
<1> QED BY <1>1, <1>2, <1>3

\* One message of a copy is replaced.
Put(s, m, r) == [s EXCEPT !.messages[m] = r]

LEMMA PutKeeps ==
  ASSUME NEW s \in State, NEW m \in Msg, NEW r \in Rec \cup {NoRec}
  PROVE  LET t == Put(s, m, r)
         IN  /\ t \in State /\ t.count = s.count
             /\ t.messages[m] = r
             /\ \A n \in Msg \ {m} : t.messages[n] = s.messages[n]
BY DEF State, Put

\* What recover makes of a sound copy: it stays sound, no attempts are added, what
\* is settled is laid over it and what is in the outbox is there.
LEMMA ReplayFacts ==
  ASSUME TypeOK, NEW s \in State, Sound(s), NEW due \in SUBSET Msg
  PROVE  LET t == Replayed(s, due)
         IN  /\ t \in State /\ t.count = s.count /\ Sound(t)
             /\ \A m \in Msg : Counted(s, m) => Counted(t, m)
             /\ \A m \in acks \cup dead :
                  t.messages[m] # NoRec => t.messages[m].status = "acked"
             /\ \A m \in outbox \ dead : t.messages[m] # NoRec
<1> DEFINE Old(m) == IF s.messages[m] = NoRec THEN NewRec ELSE s.messages[m]
           New(m) == IF m \in dead \/ (m \notin outbox /\ s.messages[m] = NoRec) THEN NoRec
                     ELSE IF m \in acks THEN Unclaimed(Old(m), "acked")
                     ELSE IF Returns(Old(m), m, due) THEN Unclaimed(Old(m), "pending")
                     ELSE Old(m)
           messages == [m \in Msg |-> New(m)]
           fences == {messages[m].fence : m \in {n \in Msg : messages[n] # NoRec}}
           t == Replayed(s, due)
<1>1. t = [count |-> Max({s.count} \cup fences), messages |-> messages,
           acks |-> s.acks \cup acks]
  BY DEF Replayed
<1>2. ASSUME NEW m \in Msg
      PROVE  /\ Old(m) \in Rec
             /\ Old(m).fence <= s.count
             /\ s.messages[m] = NoRec => Old(m).attempt = 0
             /\ s.messages[m] # NoRec => Old(m).attempt = s.messages[m].attempt
  <2>1. s.messages[m] \in Rec \cup {NoRec} /\ s.count \in Nat
    BY DEF State
  <2>2. s.messages[m] # NoRec => s.messages[m].fence <= s.count
    BY DEF Sound
  <2> QED BY <2>1, <2>2, NewIsRec
<1>3. ASSUME NEW m \in Msg, New(m) # NoRec
      PROVE  /\ New(m) \in Rec /\ (m \in outbox \/ s.messages[m] # NoRec)
             /\ New(m).fence <= s.count
             /\ New(m).attempt = Old(m).attempt
             /\ m \in acks => New(m).status = "acked"
  <2>1. /\ ~(m \in dead \/ (m \notin outbox /\ s.messages[m] = NoRec))
        /\ s.count \in Nat
    BY <1>3 DEF State
  <2>2. CASE m \in acks
    <3>1. New(m) = Unclaimed(Old(m), "acked")
      BY <2>1, <2>2
    <3> HIDE DEF Old, New
    <3> QED BY <1>2, <2>1, <2>2, <3>1, UnclaimedKeeps
  <2>3. CASE m \notin acks /\ Returns(Old(m), m, due)
    <3>1. New(m) = Unclaimed(Old(m), "pending")
      BY <2>1, <2>3
    <3> HIDE DEF Old, New
    <3> QED BY <1>2, <2>1, <2>3, <3>1, UnclaimedKeeps
  <2>4. CASE m \notin acks /\ ~Returns(Old(m), m, due)
    <3>1. New(m) = Old(m)
      BY <2>1, <2>4
    <3> HIDE DEF Old, New
    <3> QED BY <1>2, <2>1, <2>4, <3>1
  <2> QED BY <2>2, <2>3, <2>4
<1>4. messages \in [Msg -> Rec \cup {NoRec}]
  BY <1>3
<1>5. Max({s.count} \cup fences) = s.count
  <2>1. \A x \in fences : x \in Nat /\ x <= s.count
    <3> SUFFICES ASSUME NEW m \in Msg, New(m) # NoRec
                 PROVE  New(m).fence \in Nat /\ New(m).fence <= s.count
      OBVIOUS
    <3> QED BY <1>3 DEF Rec
  <2>2. s.count \in Nat
    BY DEF State
  <2> QED BY <2>1, <2>2, MaxIsCount
<1>6. /\ t = [count |-> s.count, messages |-> messages, acks |-> s.acks \cup acks]
      /\ t.count = s.count /\ t.messages = messages
  <2> HIDE DEF messages, fences, t
  <2> QED BY <1>1, <1>5
<1>7. t \in State
  <2>1. acks \subseteq Msg
    BY DEF TypeOK
  <2> HIDE DEF messages, t
  <2> QED BY <1>4, <1>6, <2>1 DEF State
<1>8. Sound(t)
  BY <1>3, <1>6 DEF Sound
<1>9. ASSUME NEW m \in Msg, Counted(s, m)
      PROVE  Counted(t, m)
  <2>1. claims[m] \in Nat
    BY DEF TypeOK
  <2> QED BY <1>2, <1>3, <1>6, <1>9, <2>1 DEF Counted
<1>10. ASSUME NEW m \in acks \cup dead, t.messages[m] # NoRec
       PROVE  t.messages[m].status = "acked"
  <2>1. m \in Msg
    BY DEF TypeOK
  <2> QED BY <1>3, <1>6, <1>10, <2>1
<1>11. ASSUME NEW m \in outbox \ dead
       PROVE  t.messages[m] # NoRec
  <2>1. m \in Msg /\ NoRec \notin Rec
    BY MessageAssumption DEF TypeOK, MessageAssumption
  <2>2. New(m) \in {Old(m), Unclaimed(Old(m), "acked"), Unclaimed(Old(m), "pending")}
    BY <2>1
  <2>3. New(m) \in Rec
    <3> HIDE DEF New, Old
    <3> QED BY <1>2, <2>1, <2>2, UnclaimedKeeps
  <2> QED BY <1>6, <2>1, <2>3
<1> QED BY <1>6, <1>7, <1>8, <1>9, <1>10, <1>11

\* A claim: one attempt more, under the next token.
LEMMA ClaimFacts ==
  ASSUME NEW c \in Call, mem[c] \in State, NEW m \in Msg, mem[c].messages[m] \in Rec
  PROVE  LET t == ClaimOf(c, m)
         IN  /\ t \in State /\ t.count = mem[c].count + 1
             /\ t.messages[m] # NoRec /\ t.messages[m].fence = t.count
             /\ t.messages[m].attempt = mem[c].messages[m].attempt + 1
             /\ \A n \in Msg \ {m} : t.messages[n] = mem[c].messages[n]
<1> DEFINE s == mem[c]
           r == [status |-> "claimed", owner |-> OwnerOf[c], fence |-> s.count + 1,
                 claim |-> c, attempt |-> s.messages[m].attempt + 1]
           t == ClaimOf(c, m)
<1>1. /\ r \in Rec /\ r # NoRec
      /\ r.fence = s.count + 1 /\ r.attempt = s.messages[m].attempt + 1
  BY MessageAssumption DEF Rec, State, OwnerId, MessageAssumption
<1>2. t = [count |-> s.count + 1, acks |-> s.acks, messages |-> [s.messages EXCEPT ![m] = r]]
  BY DEF ClaimOf
<1> HIDE DEF r, t
<1>3. t \in State
  BY <1>1, <1>2 DEF State
<1>4. /\ t.count = s.count + 1 /\ t.messages[m] = r
      /\ \A n \in Msg \ {m} : t.messages[n] = s.messages[n]
  BY <1>2 DEF State
<1> QED BY <1>1, <1>3, <1>4 DEF t

\* An acknowledged message in the copy of an ack.
LEMMA AckFacts ==
  ASSUME NEW s \in State, NEW m \in Msg
  PROVE  LET r == s.messages[m]
             t == Acked(s, m)
         IN  /\ t \in State /\ t.count = s.count
             /\ t.messages[m] = IF r = NoRec THEN NoRec ELSE Unclaimed(r, "acked")
             /\ \A n \in Msg \ {m} : t.messages[n] = s.messages[n]
<1> DEFINE v == IF s.messages[m] = NoRec THEN NoRec ELSE Unclaimed(s.messages[m], "acked")
           t == Acked(s, m)
<1>1. v \in Rec \cup {NoRec}
  BY UnclaimedKeeps DEF State
<1>2. t = [count |-> s.count, acks |-> s.acks \cup {m},
           messages |-> [s.messages EXCEPT ![m] = v]]
  BY DEF Acked
<1> HIDE DEF v, t
<1>3. t \in State
  BY <1>1, <1>2 DEF State
<1>4. /\ t.count = s.count /\ t.messages[m] = v
      /\ \A n \in Msg \ {m} : t.messages[n] = s.messages[n]
  BY <1>2 DEF State
<1> QED BY <1>3, <1>4 DEF v, t

-----------------------------------------------------------------------------
(* The step.                                                               *)

\* What a step of another call leaves alone: journals and counts only grow.
Grows ==
  /\ outbox \subseteq outbox' /\ acks \subseteq acks' /\ dead \subseteq dead'
  /\ handled \subseteq handled'
  /\ \A m \in Msg : claims[m] <= claims'[m]

Untouched(d) ==
  /\ at'[d] = at[d] /\ op'[d] = op[d] /\ msg'[d] = msg[d]
  /\ mem'[d] = mem[d] /\ seen'[d] = seen[d]

LEMMA Frame ==
  ASSUME TypeOK, TypeOK', Grows, NEW d \in Call, CallInv(d), Untouched(d)
  PROVE  CallInv(d)'
<1> USE DEF CallInv, Grows, Untouched
<1>1. mem[d] \in State /\ seen[d] \in Snapshot /\ MsgOf[d] \in Msg \cup {NoMsg}
  BY MessageAssumption DEF TypeOK, MessageAssumption
<1>2. \A m \in Msg : claims[m] \in Nat /\ claims'[m] \in Nat
  BY DEF TypeOK
<1>3. msg[d] \in Msg \/ msg[d] = NoMsg
  BY DEF TypeOK
<1>4. Claiming(d)' = Claiming(d) /\ Delivering(d)' = Delivering(d)
  BY DEF Claiming, Delivering
<1>5. MsgInv(d)'
  <2>1. at[d] = "bury" => msg[d] \in Msg
    BY <1>3 DEF MsgInv
  <2>2. MaxAttempts \in Nat
    BY MessageAssumption DEF MessageAssumption
  <2> QED BY <1>2, <1>4, <2>1, <2>2 DEF MsgInv
<1>6. MemInv(d)'
  <2>1. \A m \in Msg : mem[d].messages[m] # NoRec => mem[d].messages[m].attempt \in Nat
    BY <1>1 DEF State, Rec
  <2>2. Sound(mem[d])'
    BY DEF MemInv, Sound
  <2>3. \A m \in Msg : Counted(mem[d], m) => Counted(mem[d], m)'
    BY <1>2, <2>1 DEF Counted
  <2>4. Claiming(d) => msg[d] \in Msg
    BY <1>3 DEF Claiming
  <2> QED BY <1>2, <1>4, <2>1, <2>2, <2>3, <2>4 DEF MemInv
<1>7. SeenInv(d)'
  BY <1>1, <1>4 DEF SeenInv, Snapshot
<1> QED BY <1>5, <1>6, <1>7

\* Every step keeps the types.
LEMMA TypeStep == IInv /\ [Next]_vars => TypeOK'
<1> SUFFICES ASSUME IInv, [Next]_vars PROVE TypeOK'
  OBVIOUS
<1> USE MessageAssumption DEF MessageAssumption
<1>t. TypeOK
  BY DEF IInv
<1>m. ASSUME NEW c \in Call
      PROVE  /\ msg[c] \in Msg \/ msg[c] = NoMsg
             /\ op[c] \in {"ack", "nack"} \/ Delivering(c) \/ at[c] \in {"bury", "unlease"}
                  => msg[c] \in outbox /\ msg[c] \in Msg
             /\ op[c] = "append" => MsgOf[c] \in Msg
             /\ Sound(mem[c])
  BY <1>t DEF IInv, CallInv, MsgInv, MemInv, TypeOK
<1>0. NoState \in State /\ Nothing \in Snapshot
  BY DEF NoState, Nothing, State, Snapshot
<1>k. \A m \in Msg : KeyOf[m] \in Key
  BY DEF Key
<1> USE DEF TypeOK, Goto, Switch, Rest, Counts, journals, files, local, history, At
<1>1. ASSUME NEW c \in Call, Load(c) PROVE TypeOK'
  BY <1>t, <1>1 DEF Load, Snapshot
<1>2. ASSUME NEW c \in Call, Recover(c) PROVE TypeOK'
  <2>1. PICK due \in SUBSET Waiting(mem[c]) :
          LET s == Replayed(mem[c], due)
          IN  mem' = [mem EXCEPT ![c] = s] /\ WriteState(c, s)
    BY <1>2 DEF Recover
  <2>2. Replayed(mem[c], due) \in State
    BY <1>t, <1>m, ReplayFacts DEF Waiting
  <2> QED BY <1>t, <1>2, <2>1, <2>2 DEF Recover, WriteState
<1>3. ASSUME NEW c \in Call, Append(c) PROVE TypeOK'
  <2>1. MsgOf[c] \in Msg
    BY <1>3, <1>m DEF Append
  <2>2. CASE Return(c) /\ UNCHANGED outbox
    BY <1>t, <1>0, <1>3, <2>2 DEF Append, Return
  <2>3. CASE /\ outbox' = outbox \cup {MsgOf[c]}
             /\ mem' = [mem EXCEPT ![c].messages[MsgOf[c]] = NewRec]
             /\ Goto(c, "save") /\ UNCHANGED <<seen, stale>>
    <3>1. Put(mem[c], MsgOf[c], NewRec) \in State
      BY <1>t, <2>1, NewIsRec, PutKeeps
    <3>2. mem' \in [Call -> State]
      BY <1>t, <2>3, <3>1 DEF Put
    <3> QED BY <1>t, <1>3, <2>1, <2>3, <3>2 DEF Append
  <2> QED BY <1>3, <2>2, <2>3 DEF Append
<1>4. ASSUME NEW c \in Call, Claim(c) PROVE TypeOK'
  <2>1. PICK m \in Candidates(c) :
          /\ mem' = [mem EXCEPT ![c] = ClaimOf(c, m)]
          /\ msg' = [msg EXCEPT ![c] = m]
          /\ token' = [token EXCEPT ![c] = mem[c].count + 1]
          /\ lease' = [lease EXCEPT ![m] = [owner |-> OwnerOf[c], fence |-> mem[c].count + 1,
                                            claim |-> c]]
    BY <1>4 DEF Claim
  <2>2. m \in Msg /\ mem[c].messages[m] \in Rec /\ mem[c].count \in Nat
    BY <1>t, <2>1 DEF Candidates, State
  <2>3. [owner |-> OwnerOf[c], fence |-> mem[c].count + 1, claim |-> c] \in Lease
    BY <2>2 DEF Lease, OwnerId
  <2> QED BY <1>t, <1>4, <2>1, <2>2, <2>3, ClaimFacts DEF Claim
<1>5. ASSUME NEW c \in Call, Condemn(c) PROVE TypeOK'
  BY <1>t, <1>5 DEF Condemn, Candidates
<1>6. ASSUME NEW c \in Call, NoClaim(c) PROVE TypeOK'
  <2>1. CASE KindOf[c] = "dispatchOne"
    BY <1>t, <1>0, <1>6, <2>1 DEF NoClaim, WriteState
  <2>2. CASE KindOf[c] # "dispatchOne"
    BY <1>t, <1>0, <1>6, <2>2 DEF NoClaim
  <2> QED BY <2>1, <2>2
<1>7. ASSUME NEW c \in Call, Bury(c) PROVE TypeOK'
  <2>1. msg[c] \in outbox /\ msg[c] \in Msg
    BY <1>m, <1>7 DEF Bury
  <2>2. Put(mem[c], msg[c], NoRec) \in State
    BY <1>t, <2>1, PutKeeps
  <2>3. mem' \in [Call -> State]
    BY <1>t, <1>7, <2>2 DEF Bury, Put
  <2> QED BY <1>t, <1>7, <2>1, <2>3 DEF Bury
<1>8. ASSUME NEW c \in Call, RemoveLease(c) PROVE TypeOK'
  BY <1>t, <1>m, <1>8 DEF RemoveLease
<1>9. ASSUME NEW c \in Call, Save(c) PROVE TypeOK'
  BY <1>t, <1>0, <1>9 DEF Save, WriteState
<1>10. ASSUME NEW c \in Call, Check(c) PROVE TypeOK'
  BY <1>t, <1>10 DEF Check
<1>11. ASSUME NEW c \in Call, Start(c) PROVE TypeOK'
  BY <1>t, <1>m, <1>k, <1>11 DEF Start, Delivering
<1>12. ASSUME NEW c \in Call, Handle(c) PROVE TypeOK'
  BY <1>t, <1>m, <1>k, <1>12 DEF Handle, Delivering
<1>13. ASSUME NEW c \in Call, HandlerThrows(c) PROVE TypeOK'
  BY <1>t, <1>13 DEF HandlerThrows
<1>14. ASSUME NEW c \in Call, Applied(c) PROVE TypeOK'
  BY <1>t, <1>m, <1>k, <1>14 DEF Applied, Delivering
<1>15. ASSUME NEW c \in Call, Recheck(c) PROVE TypeOK'
  BY <1>t, <1>15 DEF Recheck
<1>16. ASSUME NEW c \in Call, Ack(c) PROVE TypeOK'
  <2>1. msg[c] \in outbox /\ msg[c] \in Msg
    BY <1>m, <1>16 DEF Ack
  <2>2. Acked(mem[c], msg[c]) \in State
    BY <1>t, <2>1, AckFacts
  <2>3. CASE Return(c) /\ UNCHANGED <<acks, op>>
    BY <1>t, <1>0, <1>16, <2>3 DEF Ack, Return
  <2>4. CASE Switch(c, "nack") /\ UNCHANGED <<acks, mem, seen, stale>>
    BY <1>t, <1>16, <2>4 DEF Ack
  <2>5. CASE /\ acks' = acks \cup {msg[c]} /\ mem' = [mem EXCEPT ![c] = Acked(@, msg[c])]
             /\ Goto(c, "save") \/ Goto(c, "unlease")
             /\ UNCHANGED <<op, seen, stale>>
    BY <1>t, <1>16, <2>1, <2>2, <2>5 DEF Ack
  <2> QED BY <1>16, <2>3, <2>4, <2>5 DEF Ack
<1>17. ASSUME NEW c \in Call, Nack(c) PROVE TypeOK'
  <2>1. msg[c] \in Msg
    BY <1>m, <1>17 DEF Nack
  <2>2. mem[c].messages[msg[c]] \in Rec \cup {NoRec}
    BY <1>t, <2>1 DEF State
  <2>3. CASE Return(c) /\ UNCHANGED lease
    BY <1>t, <1>0, <1>17, <2>3 DEF Nack, Return
  <2>4. CASE /\ mem[c].messages[msg[c]] # NoRec
             /\ lease' = [lease EXCEPT ![msg[c]] = NoLease]
             /\ mem' = [mem EXCEPT ![c].messages[msg[c]] =
                          Unclaimed(mem[c].messages[msg[c]], "retry_wait")]
             /\ Goto(c, "bury") \/ Goto(c, "save")
             /\ UNCHANGED <<seen, stale>>
    <3>1. Unclaimed(mem[c].messages[msg[c]], "retry_wait") \in Rec
      BY <2>2, <2>4, UnclaimedKeeps
    <3>2. Put(mem[c], msg[c], Unclaimed(mem[c].messages[msg[c]], "retry_wait")) \in State
      BY <1>t, <2>1, <3>1, PutKeeps
    <3>3. mem' \in [Call -> State]
      BY <1>t, <2>4, <3>2 DEF Put
    <3> QED BY <1>t, <1>17, <2>1, <2>4, <3>3 DEF Nack
  <2> QED BY <1>17, <2>3, <2>4 DEF Nack
<1>18. ASSUME NEW c \in Call, Expire(c) PROVE TypeOK'
  BY <1>t, <1>18 DEF Expire
<1>19. ASSUME NEW p \in Proc, Crash(p) PROVE TypeOK'
  BY <1>t, <1>0, <1>19 DEF Crash
<1>20. CASE UNCHANGED vars
  BY <1>t, <1>20 DEF vars
<1> QED
  BY <1>1, <1>2, <1>3, <1>4, <1>5, <1>6, <1>7, <1>8, <1>9, <1>10, <1>11, <1>12, <1>13,
     <1>14, <1>15, <1>16, <1>17, <1>18, <1>19, <1>20 DEF Next, Operation, Delivery

\* A call that has returned or died knows nothing any more.
LEMMA DoneKeeps ==
  ASSUME TypeOK, TypeOK', Grows, NEW c \in Call, CallInv(c),
         op'[c] = op[c], msg'[c] = msg[c],
         at'[c] = "done", mem'[c] = NoState, seen'[c] = Nothing
  PROVE  CallInv(c)'
<1>1. ~Claiming(c)' /\ ~Delivering(c)'
  BY DEF Claiming, Delivering
<1>2. \A m \in Msg : NoState.messages[m] = NoRec
  BY DEF NoState
<1>3. MsgInv(c)'
  BY <1>1 DEF CallInv, MsgInv, Grows
<1>4. MemInv(c)'
  BY <1>1, <1>2 DEF MemInv, Sound, Counted
<1>5. SeenInv(c)'
  BY <1>1 DEF SeenInv, Nothing
<1> QED BY <1>3, <1>4, <1>5 DEF CallInv

\* The files keep their invariant, and journals and counts grow.
LEMMA FileStep == IInv /\ [Next]_vars => FileInv' /\ Grows
<1> SUFFICES ASSUME IInv, [Next]_vars PROVE FileInv' /\ Grows
  OBVIOUS
<1> USE MessageAssumption DEF MessageAssumption
<1>t. TypeOK /\ TypeOK' /\ FileInv
  BY TypeStep DEF IInv
<1>c. ASSUME NEW c \in Call PROVE MsgInv(c) /\ MemInv(c) /\ mem[c] \in State
  BY <1>t DEF IInv, CallInv, TypeOK
<1>n. \A m \in Msg : claims[m] \in Nat /\ claims'[m] \in Nat /\ KeyOf[m] \in Key
  BY <1>t DEF TypeOK, Key
<1>j. acks \subseteq Msg /\ dead \subseteq Msg /\ outbox \subseteq Msg
  BY <1>t DEF TypeOK
\* state.json is written by Recover, NoClaim and Save only.
<1>w. ASSUME state' = state \/ (Sound(state') /\ \A m \in Msg : Counted(state', m)),
             Grows, outbox' = outbox, claims' = claims
      PROVE  Sound(state)' /\ \A m \in Msg : Counted(state, m)'
  BY <1>t, <1>w DEF FileInv, Sound, Counted
<1>q. ASSUME UNCHANGED <<files, claims, handled>> PROVE FileInv' /\ Grows
  <2>1. Grows
    BY <1>n, <1>q DEF Grows, files, journals
  <2> QED BY <1>t, <1>q, <2>1 DEF FileInv, Sound, Counted, files, journals
<1> USE DEF Rest, Counts, journals, files, local, history
<1>1. ASSUME NEW c \in Call, Load(c) PROVE FileInv' /\ Grows
  BY <1>q, <1>1 DEF Load
<1>2. ASSUME NEW c \in Call, Recover(c) PROVE FileInv' /\ Grows
  <2>1. PICK due \in SUBSET Waiting(mem[c]) : state' = Replayed(mem[c], due)
    BY <1>2 DEF Recover, WriteState
  <2>2. /\ UNCHANGED <<journals, starts, claims, handled>> /\ ~Claiming(c)
    BY <1>2 DEF Recover, Claiming
  <2>3. Grows
    BY <1>n, <2>2 DEF Grows
  <2>4. Sound(state') /\ \A m \in Msg : Counted(state', m)
    BY <1>t, <1>c, <2>1, <2>2, ReplayFacts DEF Waiting, MemInv
  <2> QED BY <1>t, <1>w, <2>2, <2>3, <2>4 DEF FileInv
<1>3. ASSUME NEW c \in Call, Append(c) PROVE FileInv' /\ Grows
  <2>1. outbox \subseteq outbox' /\ UNCHANGED <<inbox, acks, dead, state, claims, handled>>
    BY <1>3 DEF Append
  <2>2. Grows
    BY <1>n, <2>1 DEF Grows
  <2> QED BY <1>t, <2>1, <2>2 DEF FileInv, Sound, Counted
<1>4. ASSUME NEW c \in Call, Claim(c) PROVE FileInv' /\ Grows
  <2>1. UNCHANGED <<journals, state, claims, handled>>
    BY <1>4 DEF Claim
  <2>2. Grows
    BY <1>n, <2>1 DEF Grows
  <2> QED BY <1>t, <1>w, <2>1, <2>2 DEF FileInv
<1>5. ASSUME NEW c \in Call, Condemn(c) PROVE FileInv' /\ Grows
  BY <1>q, <1>5 DEF Condemn
<1>6. ASSUME NEW c \in Call, NoClaim(c) PROVE FileInv' /\ Grows
  <2>1. UNCHANGED <<journals, claims, handled>> /\ (state' = state \/ state' = mem[c])
        /\ ~Claiming(c)
    BY <1>6 DEF NoClaim, WriteState, Claiming
  <2>2. Grows
    BY <1>n, <2>1 DEF Grows
  <2>3. Sound(mem[c]) /\ \A m \in Msg : Counted(mem[c], m)
    BY <1>c, <2>1 DEF MemInv
  <2> QED BY <1>t, <1>w, <2>1, <2>2, <2>3 DEF FileInv
<1>7. ASSUME NEW c \in Call, Bury(c) PROVE FileInv' /\ Grows
  <2>1. UNCHANGED <<outbox, inbox, acks, state, claims, handled>> /\ dead' = dead \cup {msg[c]}
    BY <1>7 DEF Bury
  <2>2. Grows
    BY <1>n, <2>1 DEF Grows
  <2>3. claims[msg[c]] >= MaxAttempts
    BY <1>7, <1>c DEF Bury, MsgInv
  <2> QED BY <1>t, <1>w, <2>1, <2>2, <2>3 DEF FileInv
<1>8. ASSUME NEW c \in Call, RemoveLease(c) PROVE FileInv' /\ Grows
  <2>1. UNCHANGED <<journals, state, claims, handled>>
    BY <1>8 DEF RemoveLease
  <2>2. Grows
    BY <1>n, <2>1 DEF Grows
  <2> QED BY <1>t, <1>w, <2>1, <2>2 DEF FileInv
<1>9. ASSUME NEW c \in Call, Save(c) PROVE FileInv' /\ Grows
  <2>1. UNCHANGED <<journals, handled>> /\ state' = mem[c] /\ at[c] = "save"
    BY <1>9 DEF Save, WriteState
  <2>2. /\ Claiming(c) => claims' = [claims EXCEPT ![msg[c]] = @ + 1]
        /\ ~Claiming(c) => claims' = claims
    BY <1>9 DEF Save, Claiming
  <2>3. Claiming(c) => msg[c] \in Msg
    BY <1>t DEF Claiming, TypeOK
  <2>4. \A m \in Msg : claims'[m] = IF Claiming(c) /\ m = msg[c] THEN claims[m] + 1 ELSE claims[m]
    BY <1>t, <2>2, <2>3 DEF TypeOK
  <2>5. Grows
    BY <1>n, <2>1, <2>4 DEF Grows
  <2>6. Sound(state)'
    BY <1>c, <2>1 DEF MemInv, Sound
  <2>7. ASSUME NEW m \in Msg, mem[c].messages[m] # NoRec
        PROVE  mem[c].messages[m].attempt <= claims'[m]
    <3>1. CASE Claiming(c) /\ m = msg[c]
      BY <1>c, <2>4, <2>7, <3>1 DEF MemInv
    <3>2. CASE ~(Claiming(c) /\ m = msg[c])
      BY <1>c, <2>4, <2>7, <3>2 DEF MemInv, Counted
    <3> QED BY <3>1, <3>2
  <2>8. \A m \in Msg : Counted(state, m)'
    BY <2>1, <2>7 DEF Counted
  <2>9. \A m \in dead' : claims'[m] >= MaxAttempts
    BY <1>t, <1>n, <1>j, <2>1, <2>5 DEF FileInv, Grows
  <2> QED BY <1>t, <2>1, <2>5, <2>6, <2>8, <2>9 DEF FileInv
<1>10. ASSUME NEW c \in Call, Check(c) PROVE FileInv' /\ Grows
  BY <1>q, <1>10 DEF Check
<1>11. ASSUME NEW c \in Call, Start(c) PROVE FileInv' /\ Grows
  <2>1. /\ UNCHANGED <<outbox, acks, dead, state, claims, handled>>
        /\ inbox' = [inbox EXCEPT ![KeyOf[msg[c]]] = "started"]
    BY <1>11 DEF Start
  <2>2. Grows
    BY <1>n, <2>1 DEF Grows
  <2>3. \A k \in Key : inbox'[k] = "applied" => k \in handled
    BY <1>t, <2>1 DEF FileInv, TypeOK
  <2> QED BY <1>t, <1>w, <2>1, <2>2, <2>3 DEF FileInv
<1>12. ASSUME NEW c \in Call, Handle(c) PROVE FileInv' /\ Grows
  <2>1. UNCHANGED <<journals, state, claims>> /\ handled \subseteq handled'
    BY <1>12 DEF Handle
  <2>2. Grows
    BY <1>n, <2>1 DEF Grows
  <2> QED BY <1>t, <1>w, <2>1, <2>2 DEF FileInv
<1>13. ASSUME NEW c \in Call, HandlerThrows(c) PROVE FileInv' /\ Grows
  BY <1>q, <1>13 DEF HandlerThrows
<1>14. ASSUME NEW c \in Call, Applied(c) PROVE FileInv' /\ Grows
  <2>1. /\ UNCHANGED <<outbox, acks, dead, state, claims, handled>>
        /\ inbox' = [inbox EXCEPT ![KeyOf[msg[c]]] = "applied"] /\ at[c] = "applied"
    BY <1>14 DEF Applied
  <2>2. Grows
    BY <1>n, <2>1 DEF Grows
  <2>3. KeyOf[msg[c]] \in handled
    BY <1>c, <2>1 DEF MsgInv
  <2>4. \A k \in Key : inbox'[k] = "applied" => k \in handled
    BY <1>t, <2>1, <2>3 DEF FileInv, TypeOK
  <2> QED BY <1>t, <1>w, <2>1, <2>2, <2>4 DEF FileInv
<1>15. ASSUME NEW c \in Call, Recheck(c) PROVE FileInv' /\ Grows
  BY <1>q, <1>15 DEF Recheck
<1>16. ASSUME NEW c \in Call, Ack(c) PROVE FileInv' /\ Grows
  <2>1. /\ UNCHANGED <<outbox, inbox, dead, state, claims, handled>> /\ op[c] = "ack"
        /\ acks' = acks \/ acks' = acks \cup {msg[c]}
    BY <1>16 DEF Ack
  <2>2. Grows
    BY <1>n, <2>1 DEF Grows
  <2>3. KeyOf[msg[c]] \in handled
    BY <1>c, <2>1 DEF MsgInv
  <2> QED BY <1>t, <1>w, <2>1, <2>2, <2>3 DEF FileInv
<1>17. ASSUME NEW c \in Call, Nack(c) PROVE FileInv' /\ Grows
  <2>1. UNCHANGED <<journals, state, claims, handled>>
    BY <1>17 DEF Nack
  <2>2. Grows
    BY <1>n, <2>1 DEF Grows
  <2> QED BY <1>t, <1>w, <2>1, <2>2 DEF FileInv
<1>18. ASSUME NEW c \in Call, Expire(c) PROVE FileInv' /\ Grows
  BY <1>q, <1>18 DEF Expire
<1>19. ASSUME NEW p \in Proc, Crash(p) PROVE FileInv' /\ Grows
  BY <1>q, <1>19 DEF Crash
<1>20. CASE UNCHANGED vars
  BY <1>q, <1>20 DEF vars
<1> QED
  BY <1>1, <1>2, <1>3, <1>4, <1>5, <1>6, <1>7, <1>8, <1>9, <1>10, <1>11, <1>12, <1>13,
     <1>14, <1>15, <1>16, <1>17, <1>18, <1>19, <1>20 DEF Next, Operation, Delivery
\* Only its own steps, and its death, change what a call knows.
LEMMA OthersUntouched ==
  ASSUME TypeOK, NEW c \in Call, Operation(c) \/ Delivery(c), NEW d \in Call, d # c
  PROVE  Untouched(d)
<1> USE DEF TypeOK, Untouched, Goto, Switch, Return, Rest, Counts, journals, files, local, history
<1>1. ASSUME Operation(c) PROVE Untouched(d)
  <2>1. CASE Load(c) \/ Recover(c)
    BY <2>1 DEF Load, Recover
  <2>2. CASE Append(c)
    BY <2>2 DEF Append
  <2>3. CASE Claim(c) \/ Condemn(c) \/ NoClaim(c)
    BY <2>3 DEF Claim, Condemn, NoClaim
  <2>4. CASE Bury(c) \/ RemoveLease(c) \/ Save(c)
    BY <2>4 DEF Bury, RemoveLease, Save
  <2> QED BY <1>1, <2>1, <2>2, <2>3, <2>4 DEF Operation
<1>2. ASSUME Delivery(c) PROVE Untouched(d)
  <2>1. CASE Check(c) \/ Recheck(c)
    BY <2>1 DEF Check, Recheck
  <2>2. CASE Start(c) \/ Handle(c) \/ HandlerThrows(c) \/ Applied(c)
    BY <2>2 DEF Start, Handle, HandlerThrows, Applied
  <2>3. CASE Ack(c)
    BY <2>3 DEF Ack
  <2>4. CASE Nack(c)
    BY <2>4 DEF Nack
  <2> QED BY <1>2, <2>1, <2>2, <2>3, <2>4 DEF Delivery
<1> QED BY <1>1, <1>2

\* A delivery that moves on, or gives up and calls nack.
LEMMA DeliveryKeeps ==
  ASSUME IInv, NEW c \in Call, Delivery(c), ~Ack(c), ~Nack(c), TypeOK', Grows
  PROVE  CallInv(c)'
<1> USE DEF Goto, Switch, Rest, Counts, journals, files, local, history
<1>t. TypeOK /\ FileInv /\ CallInv(c) /\ c \in Call
  BY DEF IInv
<1>m. \A m \in Msg : claims[m] \in Nat /\ claims'[m] \in Nat /\ KeyOf[m] \in Key
  BY <1>t DEF TypeOK, Key
<1>1. /\ Delivering(c) /\ msg[c] # NoMsg /\ msg[c] \in outbox /\ msg[c] \in Msg
      /\ op[c] # "append"
  <2>1. Delivering(c)
    BY DEF Delivery, Delivering, Check, Start, Handle, HandlerThrows, Applied, Recheck
  <2> QED BY <1>t, <2>1 DEF Delivering, CallInv, MsgInv, TypeOK
<1>2. /\ UNCHANGED <<outbox, acks, dead, state, lease, mem, msg, token, stale, clobbered, seen,
                     claims>>
      /\ op'[c] = op[c] \/ (op'[c] = "nack" /\ at'[c] = "load")
         \/ (op'[c] = "ack" /\ at'[c] = "load" /\ at[c] = "recheck")
      /\ at'[c] \in {"load", "start", "handle", "applied", "recheck"}
      /\ at'[c] = "load" => op'[c] \in {"ack", "nack"}
      /\ at'[c] \in {"applied", "recheck"} => KeyOf[msg[c]] \in handled'
  <2>1. CASE Check(c)
    BY <1>t, <1>1, <1>m, <2>1 DEF Check, TypeOK, FileInv
  <2>2. CASE Start(c)
    BY <1>t, <2>2 DEF Start, TypeOK
  <2>3. CASE Handle(c)
    BY <1>t, <2>3 DEF Handle, TypeOK
  <2>4. CASE HandlerThrows(c)
    BY <1>t, <2>4 DEF HandlerThrows, TypeOK
  <2>5. CASE Applied(c)
    BY <1>t, <2>5 DEF Applied, TypeOK, CallInv, MsgInv
  <2>6. CASE Recheck(c)
    BY <1>t, <2>6 DEF Recheck, TypeOK
  <2> QED BY <2>1, <2>2, <2>3, <2>4, <2>5, <2>6 DEF Delivery
<1>3. handled \subseteq handled' /\ ~Claiming(c) /\ ~Claiming(c)'
  BY <1>1, <1>2 DEF Grows, Claiming, Delivering
<1>4. MsgInv(c)'
  BY <1>t, <1>1, <1>2, <1>3 DEF CallInv, MsgInv
<1>5. MemInv(c)'
  BY <1>t, <1>2, <1>3 DEF CallInv, MemInv, Sound, Counted
<1>6. SeenInv(c)'
  <2>1. op'[c] # "append" /\ at'[c] \notin {"decide", "bury", "unlease"}
    BY <1>1, <1>2
  <2> QED BY <1>t, <1>1, <1>2, <1>3, <2>1 DEF CallInv, SeenInv
<1> QED BY <1>4, <1>5, <1>6 DEF CallInv
\* What a copy must satisfy when no claim is being saved.
LEMMA MemFromFacts ==
  ASSUME TypeOK', NEW c \in Call, ~Claiming(c)',
         \A m \in Msg : mem'[c].messages[m] # NoRec =>
           /\ m \in outbox' /\ mem'[c].messages[m].fence <= mem'[c].count
           /\ mem'[c].messages[m].attempt <= claims'[m]
  PROVE  MemInv(c)'
BY DEF MemInv, Sound, Counted

\* An append, a claim or a step of either.
LEMMA OperationKeeps ==
  ASSUME IInv, NEW c \in Call, Operation(c), TypeOK', FileInv', Grows
  PROVE  CallInv(c)'
<1> USE MessageAssumption DEF MessageAssumption
<1> USE DEF Goto, Switch, Rest, Counts, journals, files, local, history
<1>t. TypeOK /\ FileInv /\ MsgInv(c) /\ MemInv(c) /\ SeenInv(c) /\ CallInv(c)
  BY DEF IInv, CallInv
<1>m. \A m \in Msg : claims[m] \in Nat /\ claims'[m] \in Nat /\ KeyOf[m] \in Key
  BY <1>t DEF TypeOK, Key
<1>s. /\ mem[c] \in State /\ mem'[c] \in State /\ seen[c] \in Snapshot
      /\ acks \subseteq Msg /\ dead \subseteq Msg /\ outbox \subseteq Msg
  BY <1>t DEF TypeOK
<1>d. ASSUME Return(c), op' = op, msg' = msg PROVE CallInv(c)'
  <2>1. at'[c] = "done" /\ mem'[c] = NoState /\ seen'[c] = Nothing
    BY <1>d, <1>t DEF Return, TypeOK
  <2> QED BY <1>d, <1>t, <2>1, DoneKeeps
<1>1. ASSUME Load(c) PROVE CallInv(c)'
  <2>1. /\ at'[c] = "recover" /\ mem'[c] = state /\ UNCHANGED <<files, op, msg, claims, handled>>
        /\ seen'[c] = IF op[c] \in {"append", "claim"}
                      THEN [outbox |-> outbox, settled |-> acks \cup dead] ELSE seen[c]
    BY <1>1, <1>t DEF Load, TypeOK
  <2>2. ~Claiming(c)' /\ ~Delivering(c)'
    BY <2>1 DEF Claiming, Delivering
  <2>3. MsgInv(c)'
    BY <1>t, <2>1, <2>2 DEF MsgInv
  <2>4. MemInv(c)'
    BY <1>t, <2>1, <2>2 DEF FileInv, MemInv, Sound, Counted
  <2>5. SeenInv(c)'
    BY <1>t, <2>1, <2>2 DEF SeenInv
  <2> QED BY <2>3, <2>4, <2>5 DEF CallInv
<1>2. ASSUME Recover(c) PROVE CallInv(c)'
  <2>1. PICK due \in SUBSET Waiting(mem[c]) : mem' = [mem EXCEPT ![c] = Replayed(mem[c], due)]
    BY <1>2 DEF Recover
  <2>2. /\ at[c] = "recover" /\ at'[c] = "decide" /\ mem'[c] = Replayed(mem[c], due)
        /\ UNCHANGED <<journals, op, msg, seen, claims, handled>>
    BY <1>2, <1>t, <2>1 DEF Recover, TypeOK
  <2>3. ~Claiming(c) /\ ~Claiming(c)' /\ ~Delivering(c)'
    BY <2>2 DEF Claiming, Delivering
  <2>4. /\ Sound(mem'[c]) /\ \A m \in Msg : Counted(mem'[c], m)
        /\ \A m \in acks \cup dead :
             mem'[c].messages[m] # NoRec => mem'[c].messages[m].status = "acked"
        /\ \A m \in outbox \ dead : mem'[c].messages[m] # NoRec
    BY <1>t, <1>s, <2>2, <2>3, ReplayFacts DEF Waiting, MemInv
  <2>5. MsgInv(c)'
    BY <1>t, <2>2, <2>3 DEF MsgInv
  <2>6. MemInv(c)'
    BY <1>t, <2>2, <2>3, <2>4 DEF MemInv, Sound, Counted
  <2>7. SeenInv(c)'
    BY <1>t, <2>2, <2>3, <2>4 DEF SeenInv
  <2> QED BY <2>5, <2>6, <2>7 DEF CallInv
<1>3. ASSUME Append(c) PROVE CallInv(c)'
  <2> DEFINE m == MsgOf[c]
  <2>1. /\ op[c] = "append" /\ at[c] = "decide" /\ m \in Msg
        /\ UNCHANGED <<acks, dead, op, msg, claims, handled>>
    BY <1>3, <1>t DEF Append, MsgInv
  <2>2. CASE Return(c)
    BY <1>d, <2>1, <2>2
  <2>3. CASE /\ Existing(mem[c], m) = {} /\ outbox' = outbox \cup {m}
             /\ mem' = [mem EXCEPT ![c].messages[m] = NewRec]
             /\ Goto(c, "save") /\ UNCHANGED <<seen, stale>>
    <3>1. at'[c] = "save" /\ mem'[c] = Put(mem[c], m, NewRec)
      BY <1>t, <2>3 DEF TypeOK, Put
    <3>2. /\ mem'[c].count = mem[c].count /\ mem'[c].messages[m] = NewRec
          /\ \A n \in Msg \ {m} : mem'[c].messages[n] = mem[c].messages[n]
      BY <1>s, <2>1, <3>1, NewIsRec, PutKeeps
    <3>3. ~Claiming(c) /\ ~Claiming(c)' /\ ~Delivering(c)' /\ mem[c].count \in Nat
      BY <1>s, <2>1, <3>1 DEF Claiming, Delivering, State
    <3>4. MsgInv(c)'
      BY <1>t, <2>1, <2>3, <3>1, <3>3 DEF MsgInv
    <3>5. MemInv(c)'
      <4> SUFFICES ASSUME NEW n \in Msg, mem'[c].messages[n] # NoRec
                   PROVE  /\ n \in outbox' /\ mem'[c].messages[n].fence <= mem'[c].count
                          /\ mem'[c].messages[n].attempt <= claims'[n]
        BY <3>3, MemFromFacts
      <4>1. CASE n = m
        BY <1>m, <2>1, <2>3, <3>2, <3>3, <4>1, NewIsRec
      <4>2. CASE n # m
        BY <1>t, <2>1, <2>3, <3>2, <3>3, <4>2 DEF MemInv, Sound, Counted
      <4> QED BY <4>1, <4>2
    <3>6. SeenInv(c)'
      <4>1. \A n \in seen[c].outbox \ dead : KeyOf[n] # KeyOf[m]
        BY <1>t, <1>s, <2>1, <2>3 DEF SeenInv, Existing, Snapshot
      <4> QED BY <1>t, <2>1, <2>3, <3>1, <3>3, <4>1 DEF SeenInv
    <3> QED BY <3>4, <3>5, <3>6 DEF CallInv
  <2> QED BY <1>3, <2>2, <2>3 DEF Append
<1>4. ASSUME Claim(c) PROVE CallInv(c)'
  <2>1. PICK m \in Candidates(c) : /\ mem' = [mem EXCEPT ![c] = ClaimOf(c, m)]
                                   /\ msg' = [msg EXCEPT ![c] = m]
    BY <1>4 DEF Claim
  <2>2. /\ at[c] = "decide" /\ op[c] = "claim" /\ at'[c] = "save"
        /\ UNCHANGED <<journals, op, seen, claims, handled>>
        /\ mem'[c] = ClaimOf(c, m) /\ msg'[c] = m
    BY <1>4, <1>t, <2>1 DEF Claim, TypeOK
  <2>3. /\ m \in Msg /\ m # NoMsg /\ mem[c].messages[m] \in Rec /\ mem[c].messages[m] # NoRec
        /\ mem[c].count \in Nat /\ mem[c].messages[m].attempt \in Nat
        /\ mem[c].messages[m].status # "acked"
    BY <1>s, <2>1 DEF Candidates, State, Rec
  <2>4. /\ mem'[c].count = mem[c].count + 1
        /\ mem'[c].messages[m].fence = mem'[c].count
        /\ mem'[c].messages[m].attempt = mem[c].messages[m].attempt + 1
        /\ \A n \in Msg \ {m} : mem'[c].messages[n] = mem[c].messages[n]
    BY <1>s, <2>2, <2>3, ClaimFacts
  <2>5. ~Claiming(c) /\ Claiming(c)' /\ ~Delivering(c)' /\ m \in outbox
    BY <1>t, <2>2, <2>3 DEF Claiming, Delivering, MemInv, Sound
  <2>6. MsgInv(c)'
    BY <1>t, <2>2, <2>3, <2>5 DEF MsgInv
  <2>7. Sound(mem[c])'
    <3> SUFFICES ASSUME NEW n \in Msg, mem'[c].messages[n] # NoRec
                 PROVE  n \in outbox /\ mem'[c].messages[n].fence <= mem'[c].count
      BY <2>2 DEF Sound
    <3>1. CASE n = m
      BY <2>3, <2>4, <2>5, <3>1
    <3>2. CASE n # m
      <4>1. n \in outbox /\ mem[c].messages[n].fence <= mem[c].count
        BY <1>t, <2>4, <3>2 DEF MemInv, Sound
      <4>2. mem[c].messages[n].fence \in Nat
        BY <1>s, <2>4, <3>2 DEF State, Rec
      <4> QED BY <2>3, <2>4, <3>2, <4>1, <4>2
    <3> QED BY <3>1, <3>2
  <2>8. MemInv(c)'
    <3>1. \A n \in Msg : n = m \/ Counted(mem[c], n)'
      BY <1>t, <2>2, <2>4, <2>5 DEF MemInv, Counted
    <3>2. mem'[c].messages[m].attempt <= claims'[m] + 1
      BY <1>t, <1>m, <2>2, <2>3, <2>4, <2>5 DEF MemInv, Counted
    <3> QED BY <2>2, <2>5, <2>7, <3>1, <3>2 DEF MemInv
  <2>9. SeenInv(c)'
    <3>1. m \notin seen[c].settled
      BY <1>t, <2>2, <2>3 DEF SeenInv
    <3> QED BY <1>t, <2>2, <2>5, <3>1 DEF SeenInv
  <2> QED BY <2>6, <2>8, <2>9 DEF CallInv
<1>5. ASSUME Condemn(c) PROVE CallInv(c)'
  <2>1. PICK m \in Candidates(c) : Exhausted(mem[c].messages[m]) /\ msg' = [msg EXCEPT ![c] = m]
    BY <1>5 DEF Condemn
  <2>2. /\ at[c] = "decide" /\ op[c] = "claim" /\ at'[c] = "bury" /\ msg'[c] = m
        /\ UNCHANGED <<journals, op, mem, seen, claims, handled>>
    BY <1>5, <1>t, <2>1 DEF Condemn, TypeOK
  <2>3. /\ m \in Msg /\ m # NoMsg /\ mem[c].messages[m] # NoRec
        /\ mem[c].messages[m].attempt \in Nat
    BY <1>s, <2>1 DEF Candidates, State, Rec
  <2>4. ~Claiming(c) /\ ~Claiming(c)' /\ ~Delivering(c)'
    BY <2>2 DEF Claiming, Delivering
  <2>5. m \in outbox /\ claims[m] >= MaxAttempts
    BY <1>t, <1>m, <2>1, <2>3, <2>4 DEF MemInv, Sound, Counted, Exhausted
  <2>6. MsgInv(c)'
    BY <1>t, <2>2, <2>3, <2>4, <2>5 DEF MsgInv
  <2>7. MemInv(c)'
    BY <1>t, <2>2, <2>4 DEF MemInv, Sound, Counted
  <2>8. SeenInv(c)'
    BY <1>t, <2>2, <2>4 DEF SeenInv
  <2> QED BY <2>6, <2>7, <2>8 DEF CallInv
<1>6. ASSUME NoClaim(c) PROVE CallInv(c)'
  <2>1. /\ at'[c] = "done" /\ mem'[c] = NoState /\ seen'[c] = Nothing /\ op' = op /\ msg' = msg
    BY <1>6, <1>t DEF NoClaim, TypeOK
  <2> QED BY <1>t, <2>1, DoneKeeps
<1>7. ASSUME Bury(c) PROVE CallInv(c)'
  <2> DEFINE m == msg[c]
  <2>1. /\ at[c] = "bury" /\ at'[c] = "unlease" /\ dead' = dead \cup {m} /\ m \in Msg
        /\ UNCHANGED <<outbox, acks, op, msg, seen, claims, handled>>
        /\ mem'[c] = Put(mem[c], m, NoRec)
    BY <1>7, <1>t DEF Bury, TypeOK, MsgInv, Put
  <2>2. /\ mem'[c].count = mem[c].count /\ mem'[c].messages[m] = NoRec
        /\ \A n \in Msg \ {m} : mem'[c].messages[n] = mem[c].messages[n]
    BY <1>s, <2>1, PutKeeps
  <2>3. ~Claiming(c) /\ ~Claiming(c)' /\ ~Delivering(c)'
    BY <2>1 DEF Claiming, Delivering
  <2>4. MsgInv(c)'
    BY <1>t, <2>1, <2>3 DEF MsgInv
  <2>5. MemInv(c)'
    BY <1>t, <2>1, <2>2, <2>3 DEF MemInv, Sound, Counted
  <2>6. SeenInv(c)'
    <3>1. op[c] = "claim" => \A n \in seen[c].settled :
            mem'[c].messages[n] # NoRec => mem'[c].messages[n].status = "acked"
      BY <1>t, <1>s, <2>1, <2>2 DEF SeenInv, Snapshot
    <3> QED BY <1>t, <2>1, <2>3, <3>1 DEF SeenInv
  <2> QED BY <2>4, <2>5, <2>6 DEF CallInv
<1>8. ASSUME RemoveLease(c) PROVE CallInv(c)'
  <2>1. /\ at[c] = "unlease" /\ at'[c] \in {"decide", "save"}
        /\ UNCHANGED <<journals, op, mem, seen, claims, handled>> /\ op[c] # "append"
        /\ msg'[c] = IF op[c] = "claim" THEN NoMsg ELSE msg[c]
    BY <1>8, <1>t DEF RemoveLease, TypeOK, MsgInv
  <2>2. ~Claiming(c) /\ ~Claiming(c)' /\ ~Delivering(c)'
    BY <2>1 DEF Claiming, Delivering
  <2>3. MsgInv(c)'
    BY <1>t, <2>1, <2>2 DEF MsgInv
  <2>4. MemInv(c)'
    BY <1>t, <2>1, <2>2 DEF MemInv, Sound, Counted
  <2>5. SeenInv(c)'
    BY <1>t, <2>1, <2>2 DEF SeenInv
  <2> QED BY <2>3, <2>4, <2>5 DEF CallInv
<1>9. ASSUME Save(c) PROVE CallInv(c)'
  <2>1. /\ at[c] = "save" /\ mem'[c] = NoState
        /\ UNCHANGED <<journals, op, msg, handled>>
    BY <1>9, <1>t DEF Save, TypeOK
  <2>2. CASE Claiming(c)
    <3>1. at'[c] = "check" /\ seen' = seen /\ msg[c] # NoMsg /\ op[c] = "claim"
      BY <1>9, <1>t, <2>2 DEF Save, TypeOK, Claiming
    <3>2. ~Claiming(c)' /\ \A m \in Msg : NoState.messages[m] = NoRec
      BY <3>1 DEF Claiming, NoState
    <3>3. MsgInv(c)'
      BY <1>t, <2>1, <3>1 DEF MsgInv
    <3>4. MemInv(c)'
      BY <2>1, <3>2, <1>t, MemFromFacts
    <3>5. SeenInv(c)'
      BY <1>t, <2>1, <2>2, <3>1, <3>2 DEF SeenInv
    <3> QED BY <3>3, <3>4, <3>5 DEF CallInv
  <2>3. CASE ~Claiming(c)
    <3>1. at'[c] = "done" /\ seen'[c] = Nothing
      BY <1>9, <1>t, <2>3 DEF Save, TypeOK, Claiming
    <3> QED BY <1>t, <2>1, <3>1, DoneKeeps
  <2> QED BY <2>2, <2>3
<1> QED
  BY <1>1, <1>2, <1>3, <1>4, <1>5, <1>6, <1>7, <1>8, <1>9 DEF Operation
\* An ack or a nack.
LEMMA AckNackKeeps ==
  ASSUME IInv, NEW c \in Call, Ack(c) \/ Nack(c), TypeOK', FileInv', Grows
  PROVE  CallInv(c)'
<1> USE MessageAssumption DEF MessageAssumption
<1> USE DEF Goto, Switch, Rest, Counts, journals, files, local, history
<1> DEFINE m == msg[c]
           r == mem[c].messages[m]
<1>t. TypeOK /\ FileInv /\ MsgInv(c) /\ MemInv(c) /\ SeenInv(c) /\ CallInv(c)
  BY DEF IInv, CallInv
<1>1. /\ at[c] = "decide" /\ op[c] \in {"ack", "nack"} /\ m \in Msg /\ m # NoMsg
      /\ mem[c] \in State /\ r \in Rec \cup {NoRec} /\ ~Claiming(c)
  <2>1. at[c] = "decide" /\ op[c] \in {"ack", "nack"}
    BY DEF Ack, Nack
  <2>2. m \in Msg /\ m # NoMsg
    BY <1>t, <2>1 DEF MsgInv, TypeOK
  <2> QED BY <1>t, <2>1, <2>2 DEF TypeOK, State, Claiming
<1>2. CASE Return(c) /\ op' = op /\ msg' = msg
  <2>1. at'[c] = "done" /\ mem'[c] = NoState /\ seen'[c] = Nothing
    BY <1>2, <1>t DEF Return, TypeOK
  <2> QED BY <1>t, <1>2, <2>1, DoneKeeps
<1>3. CASE Switch(c, "nack") /\ UNCHANGED <<outbox, acks, dead, mem, msg, seen, claims, handled>>
  <2>1. op'[c] = "nack" /\ at'[c] = "load"
    BY <1>3, <1>t DEF TypeOK
  <2>2. ~Claiming(c)' /\ ~Delivering(c)'
    BY <2>1 DEF Claiming, Delivering
  <2>3. MsgInv(c)'
    BY <1>t, <1>1, <1>3, <2>1, <2>2 DEF MsgInv
  <2>4. MemInv(c)'
    BY <1>t, <1>1, <1>3, <2>2 DEF MemInv, Sound, Counted
  <2>5. SeenInv(c)'
    BY <1>t, <1>3, <2>1, <2>2 DEF SeenInv
  <2> QED BY <2>3, <2>4, <2>5 DEF CallInv
\* The record of the message loses its claim.
<1>4. ASSUME NEW status \in {"retry_wait", "acked"},
             mem'[c].count = mem[c].count,
             mem'[c].messages[m] = IF r = NoRec THEN NoRec ELSE Unclaimed(r, status),
             \A n \in Msg \ {m} : mem'[c].messages[n] = mem[c].messages[n],
             at'[c] \in {"bury", "unlease", "save"},
             at'[c] = "bury" => claims[m] >= MaxAttempts,
             UNCHANGED <<outbox, dead, op, msg, seen, claims, handled>>
      PROVE  CallInv(c)'
  <2>1. ~Claiming(c)' /\ ~Delivering(c)'
    BY <1>1, <1>4 DEF Claiming, Delivering
  <2>2. MsgInv(c)'
    BY <1>t, <1>1, <1>4, <2>1 DEF MsgInv
  <2>3. MemInv(c)'
    <3> SUFFICES ASSUME NEW n \in Msg, mem'[c].messages[n] # NoRec
                 PROVE  /\ n \in outbox' /\ mem'[c].messages[n].fence <= mem'[c].count
                        /\ mem'[c].messages[n].attempt <= claims'[n]
      BY <1>t, <2>1, MemFromFacts DEF TypeOK
    <3>1. CASE n = m
      <4>1. r # NoRec /\ r \in Rec
        BY <1>1, <1>4, <3>1
      <4>2. mem'[c].messages[m].fence = 0 /\ mem'[c].messages[m].attempt = r.attempt
        BY <1>4, <4>1, UnclaimedKeeps
      <4>3. m \in outbox /\ r.attempt <= claims[m] /\ mem[c].count \in Nat
        BY <1>t, <1>1, <4>1 DEF MemInv, Sound, Counted, State
      <4> QED BY <1>4, <3>1, <4>2, <4>3
    <3>2. CASE n # m
      BY <1>t, <1>1, <1>4, <3>2 DEF MemInv, Sound, Counted
    <3> QED BY <3>1, <3>2
  <2>4. SeenInv(c)'
    BY <1>t, <1>1, <1>4, <2>1 DEF SeenInv, Grows
  <2> QED BY <2>2, <2>3, <2>4 DEF CallInv
<1>5. CASE Ack(c)
  <2>1. CASE /\ mem' = [mem EXCEPT ![c] = Acked(@, m)]
             /\ Goto(c, IF r = NoRec THEN "save" ELSE "unlease") /\ UNCHANGED <<op, seen, stale>>
    <3>1. mem'[c] = Acked(mem[c], m) /\ at'[c] \in {"unlease", "save"}
      BY <1>t, <2>1 DEF TypeOK
    <3>2. UNCHANGED <<outbox, dead, op, msg, seen, claims, handled>>
      BY <1>5, <2>1 DEF Ack
    <3> QED BY <1>1, <1>4, <3>1, <3>2, AckFacts
  <2>2. CASE Return(c) /\ UNCHANGED <<acks, op>>
    BY <1>2, <1>5, <2>2 DEF Ack
  <2>3. CASE Switch(c, "nack") /\ UNCHANGED <<acks, mem, seen, stale>>
    BY <1>3, <1>5, <2>3 DEF Ack
  <2> QED BY <1>5, <2>1, <2>2, <2>3 DEF Ack
<1>6. CASE Nack(c)
  <2>1. CASE /\ r # NoRec /\ mem' = [mem EXCEPT ![c].messages[m] = Unclaimed(r, "retry_wait")]
             /\ Goto(c, IF Exhausted(r) THEN "bury" ELSE "save") /\ UNCHANGED <<seen, stale>>
    <3>1. mem'[c] = Put(mem[c], m, Unclaimed(r, "retry_wait"))
      BY <1>t, <2>1 DEF TypeOK, Put
    <3>2. r \in Rec /\ Unclaimed(r, "retry_wait") \in Rec
      BY <1>1, <2>1, UnclaimedKeeps
    <3>3. /\ mem'[c].count = mem[c].count /\ mem'[c].messages[m] = Unclaimed(r, "retry_wait")
          /\ \A n \in Msg \ {m} : mem'[c].messages[n] = mem[c].messages[n]
      <4> DEFINE v == Unclaimed(r, "retry_wait")
      <4>1. /\ mem'[c] = Put(mem[c], m, v) /\ mem[c] \in State
            /\ m \in Msg /\ v \in Rec \cup {NoRec}
        BY <1>1, <3>1, <3>2
      <4> HIDE DEF v, r, m
      <4>2. mem'[c].messages[m] = v
        BY <4>1, PutKeeps
      <4>3. /\ mem'[c].count = mem[c].count
            /\ \A n \in Msg \ {m} : mem'[c].messages[n] = mem[c].messages[n]
        BY <4>1, PutKeeps
      <4> QED BY <4>2, <4>3 DEF v
    <3>4. UNCHANGED <<outbox, dead, op, msg, seen, claims, handled>>
      BY <1>6, <2>1 DEF Nack
    <3>5. at'[c] \in {"bury", "save"} /\ (at'[c] = "bury" => Exhausted(r))
      BY <1>t, <2>1 DEF TypeOK
    <3>6. r.attempt <= claims[m] /\ r.attempt \in Nat /\ claims[m] \in Nat
      BY <1>t, <1>1, <2>1, <3>2 DEF MemInv, Counted, Rec, TypeOK
    <3>7. at'[c] = "bury" => claims[m] >= MaxAttempts
      BY <3>5, <3>6 DEF Exhausted
    <3> QED BY <1>4, <2>1, <3>3, <3>4, <3>5, <3>7
  <2>2. CASE Return(c)
    BY <1>2, <1>6, <2>2 DEF Nack
  <2> QED BY <1>6, <2>1, <2>2 DEF Nack
<1> QED BY <1>5, <1>6

-----------------------------------------------------------------------------
(* The theorems.                                                           *)

LEMMA InitInv == Init => IInv
<1> SUFFICES ASSUME Init PROVE IInv
  OBVIOUS
<1> USE MessageAssumption DEF MessageAssumption, Init, NoState, Nothing
<1>1. TypeOK
  BY DEF TypeOK, State, Snapshot, At
<1>2. FileInv
  BY <1>1 DEF FileInv, Sound, Counted
<1>3. ASSUME NEW c \in Call PROVE CallInv(c)
  <2>1. MsgInv(c)
    BY DEF MsgInv, Delivering, Kind
  <2>2. MemInv(c)
    BY DEF MemInv, Sound, Counted, Claiming
  <2>3. SeenInv(c)
    BY DEF SeenInv, Claiming, Delivering
  <2> QED BY <2>1, <2>2, <2>3 DEF CallInv
<1> QED BY <1>1, <1>2, <1>3 DEF IInv

LEMMA NextInv == IInv /\ [Next]_vars => IInv'
<1> SUFFICES ASSUME IInv, [Next]_vars PROVE IInv'
  OBVIOUS
<1>1. TypeOK /\ TypeOK' /\ FileInv' /\ Grows
  BY TypeStep, FileStep DEF IInv
<1>2. ASSUME NEW d \in Call PROVE CallInv(d)'
  <2>1. CallInv(d)
    BY DEF IInv
  <2>2. ASSUME Untouched(d) PROVE CallInv(d)'
    BY <1>1, <2>1, <2>2, Frame
  <2>3. ASSUME NEW c \in Call, Operation(c) \/ Delivery(c) PROVE CallInv(d)'
    <3>1. CASE c # d
      BY <1>1, <2>2, <2>3, <3>1, OthersUntouched
    <3>2. CASE c = d
      BY <1>1, <2>3, <3>2, OperationKeeps, DeliveryKeeps, AckNackKeeps
    <3> QED BY <3>1, <3>2
  <2>4. ASSUME NEW c \in Call, Expire(c) PROVE CallInv(d)'
    BY <2>2, <2>4 DEF Expire, Untouched, local, history
  <2>5. ASSUME NEW p \in Proc, Crash(p) PROVE CallInv(d)'
    <3>1. op' = op /\ msg' = msg
      BY <2>5 DEF Crash
    <3>2. CASE ProcOf[d] = p
      <4>1. at'[d] = "done" /\ mem'[d] = NoState /\ seen'[d] = Nothing
        BY <2>5, <3>2 DEF Crash
      <4> QED BY <1>1, <2>1, <3>1, <4>1, DoneKeeps
    <3>3. CASE ProcOf[d] # p
      BY <2>2, <2>5, <3>3 DEF Crash, Untouched
    <3> QED BY <3>2, <3>3
  <2>6. CASE UNCHANGED vars
    BY <2>2, <2>6 DEF vars, local, history, Untouched
  <2> QED BY <2>3, <2>4, <2>5, <2>6 DEF Next
<1> QED BY <1>1, <1>2 DEF IInv

\* The invariant holds in every state of every run.
LEMMA Invariant == Spec => []IInv
BY InitInv, NextInv, PTL DEF Spec

\* The files of the store and the calls on it keep their types, whatever copies of
\* state.json overtake one another (writeState).
THEOREM TypeCorrect == Spec => []TypeOK
<1>1. IInv => TypeOK
  BY DEF IInv
<1> QED BY <1>1, Invariant, PTL

\* ack appends a line to the acks only for a dedupe key whose handler has returned,
\* for any number of messages of one key and any crashes between the inbox lines.
THEOREM AckFollowsHandler == Spec => []AckImpliesApplied
<1>1. IInv => AckImpliesApplied
  BY DEF IInv, FileInv, AckImpliesApplied
<1> QED BY <1>1, Invariant, PTL

\* deadLetter appends only messages that had max_attempts claims, each of them saved,
\* however many processes write back old copies.
THEOREM DeadLettersExhausted == Spec => []DeadLetterExhausted
<1>1. IInv => DeadLetterExhausted
  BY DEF IInv, FileInv, DeadLetterExhausted
<1> QED BY <1>1, Invariant, PTL

\* What recover lays over the copy it reads is enough for a later call never to deliver
\* a message that was in the acks or the dead letters when the call began.
THEOREM SettledStaysSettled == Spec => []SettledIsFinal
<1>1. IInv => SettledIsFinal
  BY DEF IInv, CallInv, SeenInv, SettledIsFinal
<1> QED BY <1>1, Invariant, PTL

\* append adds no second line for the key of a message it could have read in the outbox.
THEOREM AppendDedupes == Spec => []DedupeSeesOutbox
<1>1. IInv => DedupeSeesOutbox
  BY DEF IInv, CallInv, SeenInv, DedupeSeesOutbox
<1> QED BY <1>1, Invariant, PTL

-----------------------------------------------------------------------------
(* While no old copy has been written back.                                *)
(*                                                                         *)
(* A call owns its message from the saved claim to the decision of its ack *)
(* or nack, and is entitled to it until the claim expires.  While nothing  *)
(* is clobbered, state.json names the entitled call as the claimant, no    *)
(* copy that could still be written back says otherwise (CalmPair), and a  *)
(* copy that nothing has overtaken differs from state.json only where its  *)
(* call has changed it (Differs).                                          *)

Owns(c) ==
  Delivering(c) \/ (op[c] \in {"ack", "nack"} /\ at[c] \in {"load", "recover", "decide"})
Entitled(c) == Owns(c) /\ c \notin expired
Unsaved(c)  == op[c] \in {"append", "claim"} /\ ~Delivering(c) /\ at[c] # "done"
Settling(c) == op[c] \in {"ack", "nack"} /\ at[c] \in {"bury", "unlease", "save"}
Copy(c)     == Working(c) /\ ~Claiming(c)
Fresh(c)    == Working(c) /\ c \notin stale

Has(s, m)   == s.messages[m] # NoRec
ClaimIn(s, m, c) == Has(s, m) /\ s.messages[m].status = "claimed" /\ s.messages[m].claim = c
Names(s, c) == \E m \in Msg : Has(s, m) /\ s.messages[m].claim = c

\* No claim of another call in this copy carries its token.
OnlyToken(s, c) ==
  \A m \in Msg : Has(s, m) /\ s.messages[m].status = "claimed" /\ s.messages[m].fence = token[c]
                   => s.messages[m].claim = c

\* Claims are counted in state.json, and there are no more than allowed.
AttemptsKept == \A m \in Msg :
  /\ claims[m] <= MaxAttempts
  /\ \/ m \in dead
     \/ Has(state, m) /\ claims[m] <= state.messages[m].attempt
     \/ ~Has(state, m) /\ claims[m] = 0

\* A call that may have changed its copy.
Parted(c) == at[c] \in {"bury", "unlease", "save"} \/ (op[c] = "claim" /\ at[c] = "decide")

\* Where a fresh copy is not that of state.json.
Differs(c, m) ==
  \/ Parted(c) /\ ~Has(mem[c], m) /\ m \in dead
  \/ Claiming(c) /\ m = msg[c]
  \/ /\ Settling(c) /\ m = msg[c] /\ ClaimIn(state, m, c)
     /\ Has(mem[c], m) /\ mem[c].messages[m].attempt = state.messages[m].attempt
  \/ op[c] = "append" /\ at[c] = "save" /\ m = MsgOf[c] /\ ~Has(state, m)

FreshCopy(c) ==
  /\ mem[c].count = state.count + (IF Claiming(c) THEN 1 ELSE 0)
  /\ \A m \in Msg : mem[c].messages[m] = state.messages[m] \/ Differs(c, m)
  /\ op[c] = "claim" /\ at[c] # "recover" =>
       \A m \in Msg : Has(mem[c], m) => mem[c].messages[m].attempt >= claims[m]
  /\ Claiming(c) =>
       LET m == msg[c]
       IN  /\ mem[c].messages[m].attempt >= claims[m] + 1
           /\ Has(state, m) /\ ~Live(state.messages[m]) /\ state.messages[m].status # "acked"

\* A claim that is about to be saved.
OwnClaim(c) ==
  LET r == mem[c].messages[msg[c]]
  IN  /\ ClaimIn(mem[c], msg[c], c) /\ r.fence = token[c] /\ r.fence = mem[c].count
      /\ r.attempt <= MaxAttempts

\* What state.json says of a message to which a call is entitled, and what a copy
\* may say that can still be written back.
OwnFile(c) ==
  /\ msg[c] \notin dead
  /\ \/ ClaimIn(state, msg[c], c)
     \/ Has(state, msg[c]) /\ state.messages[msg[c]].status = "acked" /\ msg[c] \in acks
Behind(s, c) ==
  \/ ~Has(s, msg[c]) \/ s.messages[msg[c]].attempt < MaxAttempts
  \/ ClaimIn(s, msg[c], c) \/ s.messages[msg[c]].status = "acked"

Knows(c) ==
  /\ Unsaved(c) => ~Names(state, c)
  /\ Claiming(c) => OwnClaim(c)
  /\ op[c] \in {"ack", "nack"} /\ at[c] = "decide" => msg[c] \in dead \/ Has(mem[c], msg[c])

CalmCall(c) ==
  /\ Fresh(c) => FreshCopy(c)
  /\ Copy(c) => mem[c].count <= state.count
  /\ Owns(c) => token[c] <= state.count /\ OnlyToken(state, c)
  /\ Entitled(c) => OwnFile(c)

NotNamed(c, d) == Unsaved(c) /\ Names(mem[d], c) => c = d /\ Claiming(c)
CalmPair(c, d) ==
  /\ Owns(c) /\ Copy(d) => OnlyToken(mem[d], c)
  /\ Entitled(c) /\ Copy(d) => Behind(mem[d], c)
  /\ Entitled(c) /\ at[d] = "bury" => msg[d] # msg[c]
  /\ Entitled(c) /\ Entitled(d) /\ msg[c] = msg[d] => c = d

ClaimInv == \A c \in Call : Knows(c) /\ \A d \in Call : NotNamed(c, d)
Calm == /\ AttemptsKept
        /\ \A c \in Call : CalmCall(c) /\ \A d \in Call : CalmPair(c, d)
CalmInv == ClaimInv /\ (clobbered \/ Calm)

-----------------------------------------------------------------------------
\* Steps that leave state.json alone.

Local(c) ==
  /\ UNCHANGED <<state, claims, clobbered, expired>> /\ acks \subseteq acks'
  /\ dead' = dead \/ (at[c] = "bury" /\ dead' = dead \cup {msg[c]})
  /\ \A d \in Call \ {c} :
       /\ Untouched(d) /\ token'[d] = token[d] /\ (d \in stale' <=> d \in stale)

\* What a call sees of itself.
SameCall(d) == Untouched(d) /\ token'[d] = token[d]

LEMMA SamePlace ==
  ASSUME NEW d \in Call, SameCall(d), expired' = expired
  PROVE  /\ Owns(d)' <=> Owns(d)
         /\ Entitled(d)' <=> Entitled(d)
         /\ Unsaved(d)' <=> Unsaved(d)
         /\ Claiming(d)' <=> Claiming(d)
         /\ Copy(d)' <=> Copy(d)
         /\ Settling(d)' <=> Settling(d)
         /\ Working(d)' <=> Working(d)
BY DEF SameCall, Untouched, Owns, Entitled, Unsaved, Claiming, Copy, Settling, Working, Delivering

\* The claims that copies name.
LEMMA LocalClaims ==
  ASSUME ClaimInv, NEW c \in Call, Local(c), Knows(c)', Unsaved(c)' => Unsaved(c),
         \A d \in Call : Unsaved(d)' /\ Names(mem'[c], d) => d = c /\ Claiming(c)'
  PROVE  ClaimInv'
<1>1. ASSUME NEW d \in Call, d # c PROVE Knows(d)'
  <2>1. SameCall(d) /\ expired' = expired /\ state' = state /\ dead \subseteq dead'
    BY <1>1 DEF Local, SameCall
  <2>2. Knows(d)
    BY DEF ClaimInv
  <2>3. Names(state, d)' <=> Names(state, d)
    BY <2>1 DEF Names, Has
  <2>4. OwnClaim(d) => OwnClaim(d)'
    BY <2>1 DEF OwnClaim, ClaimIn, Has, SameCall, Untouched
  <2> QED BY <2>1, <2>2, <2>3, <2>4, SamePlace DEF Knows, SameCall, Untouched, Has
<1>2. ASSUME NEW d \in Call, NEW e \in Call PROVE NotNamed(d, e)'
  <2>1. CASE e = c
    <3>1. Names(mem[c], d)' <=> Names(mem'[c], d)
      BY DEF Names, Has
    <3> QED BY <2>1, <3>1 DEF NotNamed
  <2>2. CASE e # c
    <3>1. SameCall(e) /\ expired' = expired
      BY <2>2 DEF Local, SameCall
    <3>2. Names(mem[e], d)' <=> Names(mem[e], d)
      BY <3>1 DEF Names, Has, SameCall, Untouched
    <3>3. NotNamed(d, e)
      BY DEF ClaimInv
    <3>4. CASE d = c
      BY <2>2, <3>2, <3>3, <3>4 DEF NotNamed
    <3>5. CASE d # c
      <4>1. SameCall(d)
        BY <3>5 DEF Local, SameCall
      <4> QED BY <3>1, <3>2, <3>3, <4>1, SamePlace DEF NotNamed
    <3> QED BY <3>4, <3>5
  <2> QED BY <2>1, <2>2
<1>3. \A d \in Call : Knows(d)'
  BY <1>1
<1> QED BY <1>2, <1>3 DEF ClaimInv

LEMMA LocalCalm ==
  ASSUME Calm, NEW c \in Call, Local(c), CalmCall(c)',
         Owns(c)' => Owns(c) /\ msg'[c] = msg[c] /\ token'[c] = token[c],
         Copy(c)' => \A d \in Call : /\ Owns(d)' => OnlyToken(mem[c], d)'
                                     /\ Entitled(d)' => Behind(mem[c], d)',
         at'[c] = "bury" => \A d \in Call : Entitled(d)' => msg'[c] # msg'[d]
  PROVE  Calm'
<1>1. AttemptsKept'
  BY DEF Calm, AttemptsKept, Local, Has
<1>2. ASSUME NEW d \in Call, d # c PROVE CalmCall(d)'
  <2>1. SameCall(d) /\ expired' = expired /\ state' = state /\ dead \subseteq dead'
        /\ (d \in stale' <=> d \in stale) /\ claims' = claims
    BY <1>2 DEF Local, SameCall
  <2>2. CalmCall(d)
    BY DEF Calm
  <2>3. Fresh(d)' <=> Fresh(d)
    BY <2>1, SamePlace DEF Fresh
  <2>4. \A m \in Msg : Differs(d, m) => Differs(d, m)'
    BY <2>1, SamePlace DEF Differs, Parted, SameCall, Untouched, Has, ClaimIn
  <2>5. FreshCopy(d) => FreshCopy(d)'
    BY <2>1, <2>4, SamePlace DEF FreshCopy, SameCall, Untouched, Has, Live
  <2>6. OnlyToken(state, d) => OnlyToken(state, d)'
    BY <2>1 DEF OnlyToken, Has, SameCall
  <2>7. Entitled(d) => OwnFile(d)'
    <3> SUFFICES ASSUME Entitled(d) PROVE OwnFile(d)'
      OBVIOUS
    <3>1. OwnFile(d) /\ CalmPair(d, c)
      BY <2>2 DEF CalmCall, Calm
    <3>2. msg[d] \notin dead'
      BY <3>1 DEF OwnFile, CalmPair, Local
    <3>3. msg'[d] = msg[d] /\ state' = state /\ acks \subseteq acks'
      BY <2>1 DEF Local, SameCall, Untouched
    <3> QED BY <3>1, <3>2, <3>3 DEF OwnFile, ClaimIn, Has
  <2> QED
    BY <2>1, <2>2, <2>3, <2>5, <2>6, <2>7, SamePlace DEF CalmCall, SameCall, Untouched
<1>3. ASSUME NEW d \in Call, NEW e \in Call PROVE CalmPair(d, e)'
  <2>o. expired' = expired /\ \A x \in Call \ {c} : SameCall(x)
    BY DEF Local, SameCall
  <2>1. Owns(d)' => Owns(d) /\ msg'[d] = msg[d] /\ token'[d] = token[d]
    BY <2>o, SamePlace DEF SameCall, Untouched
  <2>2. Entitled(d)' => Entitled(d)
    BY <2>o, <2>1 DEF Entitled
  <2>3. Entitled(e)' => Entitled(e) /\ msg'[e] = msg[e]
    BY <2>o, SamePlace DEF Entitled, SameCall, Untouched
  <2>4. CalmPair(d, e)
    BY DEF Calm
  <2>5. CASE e = c
    BY <2>1, <2>2, <2>3, <2>4, <2>5 DEF CalmPair, Entitled
  <2>6. CASE e # c
    <3>1. SameCall(e) /\ (Copy(e)' <=> Copy(e)) /\ at'[e] = at[e] /\ msg'[e] = msg[e]
          /\ mem'[e] = mem[e]
      BY <2>o, <2>6, SamePlace DEF SameCall, Untouched
    <3>2. Owns(d)' /\ OnlyToken(mem[e], d) => OnlyToken(mem[e], d)'
      BY <2>1, <3>1 DEF OnlyToken, Has
    <3>3. Entitled(d)' /\ Behind(mem[e], d) => Behind(mem[e], d)'
      BY <2>1, <3>1 DEF Behind, ClaimIn, Has, Entitled
    <3> QED BY <2>1, <2>2, <2>3, <2>4, <3>1, <3>2, <3>3 DEF CalmPair, Entitled
  <2> QED BY <2>5, <2>6
<1>4. \A d \in Call : CalmCall(d)'
  BY <1>2
<1> QED BY <1>1, <1>3, <1>4 DEF Calm

\* A record that a call changes in its copy is no claim any more, and not one of a
\* message to which another call is entitled, unless it is new.
Faded(c, m) ==
  LET r == mem'[c].messages[m]
  IN  \/ ~Has(mem'[c], m) \/ r = mem[c].messages[m]
      \/ /\ r.claim = NoCall /\ r.status # "claimed"
         /\ \/ r.attempt < MaxAttempts
            \/ clobbered \/ \A d \in Call : Entitled(d) /\ msg[d] = m => d = c

LEMMA FadedNames ==
  ASSUME NEW c \in Call, \A m \in Msg : Faded(c, m), NEW d \in Call, Names(mem'[c], d)
  PROVE  Names(mem[c], d)
BY MessageAssumption DEF Names, Has, Faded, MessageAssumption

LEMMA FadedCalm ==
  ASSUME Calm, ~clobbered, IInv, NEW c \in Call, Local(c), CalmCall(c)',
         ~Owns(c)', ~Copy(c)' \/ (Copy(c) /\ \A m \in Msg : Faded(c, m)),
         at'[c] = "bury" => \A d \in Call : d # c /\ Entitled(d) => msg'[c] # msg[d]
  PROVE  Calm'
<1>1. \A d \in Call \ {c} : SameCall(d) /\ expired' = expired
  BY DEF Local, SameCall
<1>2. ASSUME Copy(c)', NEW d \in Call
      PROVE  /\ Owns(d)' => OnlyToken(mem[c], d)'
             /\ Entitled(d)' => Behind(mem[c], d)'
  <2>1. CASE d = c
    BY <2>1 DEF Entitled
  <2>2. CASE d # c
    <3>1. /\ Owns(d)' => Owns(d) /\ OnlyToken(mem[c], d)
          /\ Entitled(d)' => Entitled(d) /\ Behind(mem[c], d)
          /\ token'[d] = token[d] /\ msg'[d] = msg[d]
          /\ \A m \in Msg : Faded(c, m)
      BY <1>1, <1>2, <2>2, SamePlace DEF Calm, CalmPair, SameCall, Untouched
    <3>2. OnlyToken(mem[c], d) => OnlyToken(mem[c], d)'
      BY <3>1 DEF OnlyToken, Faded, Has
    <3>3. Entitled(d) => msg[d] \in Msg
      BY DEF IInv, TypeOK, CallInv, MsgInv, Entitled, Owns
    <3>4. Entitled(d) /\ Behind(mem[c], d) => Behind(mem[c], d)'
      BY <2>2, <3>1, <3>3 DEF Behind, Faded, Has, ClaimIn
    <3> QED BY <3>1, <3>2, <3>4
  <2> QED BY <2>1, <2>2
<1>3. ASSUME at'[c] = "bury", NEW d \in Call, Entitled(d)'
      PROVE  msg'[c] # msg'[d]
  BY <1>1, <1>3, SamePlace DEF SameCall, Untouched, Entitled
<1> QED BY <1>2, <1>3, LocalCalm

\* A call that has returned.
LEMMA GoneKeeps ==
  ASSUME IInv, CalmInv, NEW c \in Call, Local(c), at'[c] = "done", mem'[c] = NoState
  PROVE  CalmInv'
<1>1. /\ ~Owns(c)' /\ ~Unsaved(c)' /\ ~Claiming(c)' /\ ~Copy(c)' /\ ~Fresh(c)' /\ ~Entitled(c)'
      /\ \A d \in Call : ~Names(mem'[c], d)
  BY DEF Owns, Unsaved, Claiming, Copy, Fresh, Entitled, Working, Delivering, Names, Has, NoState
<1>2. Knows(c)' /\ CalmCall(c)'
  BY <1>1 DEF Knows, CalmCall
<1>3. ClaimInv'
  BY <1>1, <1>2, LocalClaims DEF CalmInv
<1>4. ~clobbered => Calm'
  BY <1>1, <1>2, FadedCalm DEF CalmInv
<1> QED BY <1>3, <1>4 DEF CalmInv, Local

\* A delivery that goes on to its next place, or to ack or nack.
LEMMA OwnerMoves ==
  ASSUME IInv, CalmInv, NEW c \in Call, Local(c), Owns(c),
         at'[c] \in {"load", "start", "handle", "applied", "recheck"},
         at'[c] = "load" => op'[c] \in {"ack", "nack"},
         mem'[c] = mem[c], msg'[c] = msg[c], token'[c] = token[c]
  PROVE  CalmInv'
<1>1. /\ Owns(c)' /\ ~Unsaved(c)' /\ ~Claiming(c)' /\ ~Copy(c)' /\ ~Fresh(c)'
      /\ ~Claiming(c) /\ at[c] # "bury" /\ at'[c] # "bury" /\ at'[c] # "decide"
  BY DEF Owns, Unsaved, Claiming, Copy, Fresh, Working, Delivering
<1>2. Knows(c)'
  BY <1>1 DEF Knows
<1>3. \A d \in Call : Unsaved(d)' => ~Names(mem'[c], d)
  <2> TAKE d \in Call
  <2>1. d # c /\ Unsaved(d)' => Unsaved(d) /\ ~Names(mem[c], d)
    <3>1. d # c => SameCall(d) /\ expired' = expired
      BY DEF Local, SameCall
    <3> QED BY <1>1, <3>1, SamePlace DEF CalmInv, ClaimInv, NotNamed
  <2> QED BY <1>1, <2>1
<1>4. ClaimInv'
  BY <1>1, <1>2, <1>3, LocalClaims DEF CalmInv
<1>5. ASSUME ~clobbered PROVE Calm'
  <2>1. Calm /\ CalmCall(c)
    BY <1>5 DEF CalmInv, Calm
  <2>2. Entitled(c)' => Entitled(c)
    BY DEF Entitled, Local
  <2>3. CalmCall(c)'
    BY <1>1, <2>1, <2>2 DEF CalmCall, Local, OnlyToken, OwnFile, ClaimIn, Has
  <2> QED BY <1>1, <2>1, <2>3, LocalCalm
<1> QED BY <1>4, <1>5 DEF CalmInv, Local

\* A call that changes its copy, or only goes on with it.
LEMMA CopyMoves ==
  ASSUME IInv, CalmInv, NEW c \in Call, Local(c), Copy(c),
         at'[c] \in {"decide", "bury", "unlease", "save"}, ~Owns(c)', ~Claiming(c)',
         at'[c] = "decide" => op'[c] = "claim", op'[c] = op[c],
         \A m \in Msg : Faded(c, m), mem'[c].count = mem[c].count,
         stale' = stale, ~clobbered /\ Calm /\ Fresh(c) => FreshCopy(c)',
         at'[c] = "bury" =>
           clobbered \/ \A d \in Call : d # c /\ Entitled(d) => msg'[c] # msg[d]
  PROVE  CalmInv'
<1>1. /\ ~Entitled(c)' /\ ~Claiming(c) /\ Working(c)
      /\ Unsaved(c)' => Unsaved(c)
  BY DEF Entitled, Copy, Unsaved, Working, Delivering
<1>2. Knows(c)'
  <2>1. Unsaved(c)' => ~Names(state, c)'
    BY <1>1 DEF CalmInv, ClaimInv, Knows, Names, Has, Local
  <2> QED BY <2>1 DEF Knows
<1>3. \A d \in Call : Unsaved(d)' => ~Names(mem'[c], d)
  <2> TAKE d \in Call
  <2>1. Unsaved(d)' => Unsaved(d)
    <3>1. d # c => SameCall(d) /\ expired' = expired
      BY DEF Local, SameCall
    <3> QED BY <1>1, <3>1, SamePlace
  <2>2. NotNamed(d, c)
    BY DEF CalmInv, ClaimInv
  <2> QED BY <1>1, <2>1, <2>2, FadedNames DEF NotNamed
<1>4. ClaimInv'
  BY <1>1, <1>2, <1>3, LocalClaims DEF CalmInv
<1>5. ASSUME ~clobbered PROVE Calm'
  <2>1. Calm /\ CalmCall(c)
    BY <1>5 DEF CalmInv, Calm
  <2>2. Fresh(c)' => Fresh(c)
    BY <1>1 DEF Fresh
  <2>3. mem'[c].count <= state'.count
    BY <2>1 DEF CalmCall, Local
  <2>4. CalmCall(c)'
    BY <1>1, <1>5, <2>1, <2>2, <2>3 DEF CalmCall
  <2> QED BY <1>5, <2>1, <2>4, FadedCalm
<1> QED BY <1>4, <1>5 DEF CalmInv, Local

\* The steps that leave state.json alone.
Writes(c) == Recover(c) \/ Save(c) \/ (NoClaim(c) /\ KindOf[c] = "dispatchOne")

LEMMA StepIsLocal ==
  ASSUME IInv, NEW c \in Call, Operation(c) \/ Delivery(c), ~Writes(c)
  PROVE  Local(c)
<1>t. TypeOK
  BY DEF IInv
<1>1. \A d \in Call \ {c} : Untouched(d)
  BY <1>t, OthersUntouched
<1> USE <1>t, <1>1 DEF Local, Rest, Counts, journals, files, local, history, Goto, Switch, Return
<1>2. CASE Load(c)
  BY <1>2 DEF Load, TypeOK
<1>3. CASE Append(c)
  BY <1>3 DEF Append, TypeOK
<1>4. CASE Claim(c)
  BY <1>4 DEF Claim, TypeOK
<1>5. CASE Condemn(c)
  BY <1>5 DEF Condemn, TypeOK
<1>6. CASE NoClaim(c)
  BY <1>6 DEF NoClaim, Writes, TypeOK
<1>7. CASE Bury(c)
  BY <1>7 DEF Bury, TypeOK
<1>8. CASE RemoveLease(c)
  BY <1>8 DEF RemoveLease, TypeOK
<1>9. CASE Check(c) \/ Recheck(c) \/ HandlerThrows(c)
  BY <1>9 DEF Check, Recheck, HandlerThrows
<1>10. CASE Start(c) \/ Handle(c) \/ Applied(c)
  BY <1>10 DEF Start, Handle, Applied
<1>11. CASE Ack(c)
  BY <1>11 DEF Ack, TypeOK
<1>12. CASE Nack(c)
  BY <1>12 DEF Nack, TypeOK
<1> QED BY <1>2, <1>3, <1>4, <1>5, <1>6, <1>7, <1>8, <1>9, <1>10, <1>11, <1>12
           DEF Operation, Delivery, Writes

\* A claim is current only to the call that has made it.
LEMMA CurrentIsOwn ==
  ASSUME Calm, NEW c \in Call, Owns(c), at[c] = "decide", NEW m \in Msg,
         Has(mem[c], m), IsCurrent(mem[c].messages[m], c)
  PROVE  ClaimIn(mem[c], m, c) /\ Entitled(c)
<1>1. OnlyToken(mem[c], c)
  BY DEF Calm, CalmPair, Copy, Working, Claiming
<1> QED BY <1>1 DEF OnlyToken, IsCurrent, IsClaimOf, ClaimIn, Entitled

LEMMA LoadCalm ==
  ASSUME IInv, CalmInv, NEW c \in Call, Load(c), Local(c)
  PROVE  CalmInv'
<1>1. /\ at'[c] = "recover" /\ mem'[c] = state /\ stale' = stale \ {c}
      /\ op'[c] = op[c] /\ msg'[c] = msg[c] /\ token'[c] = token[c] /\ at[c] = "load"
      /\ Unsaved(c)' <=> Unsaved(c)
      /\ Owns(c)' <=> Owns(c)
  BY DEF Load, Goto, IInv, TypeOK, Unsaved, Owns, Delivering
<1>2. ~Claiming(c)' /\ ~Settling(c)'
  BY <1>1 DEF Claiming, Settling
<1>3. \A d \in Call : Unsaved(d)' => Unsaved(d) /\ ~Names(state, d)
  <2> TAKE d \in Call
  <2>1. d # c => SameCall(d) /\ expired' = expired
    BY DEF Local, SameCall
  <2> QED BY <1>1, <2>1, SamePlace DEF CalmInv, ClaimInv, Knows
<1>4. Knows(c)'
  BY <1>1, <1>2, <1>3 DEF Knows, Names, Has, Local
<1>5. ClaimInv'
  BY <1>1, <1>3, <1>4, LocalClaims DEF CalmInv
<1>6. ASSUME ~clobbered PROVE Calm'
  <2>1. Calm /\ CalmCall(c)
    BY <1>6 DEF CalmInv, Calm
  <2>2. Entitled(c)' <=> Entitled(c)
    BY <1>1 DEF Entitled, Local
  <2>3. FreshCopy(c)'
    BY <1>1, <1>2 DEF FreshCopy, Local, IInv, TypeOK, State
  <2>4. CalmCall(c)'
    <3>1. state.count <= state.count
      BY DEF IInv, TypeOK, State
    <3> QED BY <1>1, <2>1, <2>2, <2>3, <3>1
            DEF CalmCall, Local, OnlyToken, OwnFile, ClaimIn, Has
  <2>5. ASSUME NEW d \in Call
        PROVE  /\ Owns(d)' => OnlyToken(mem[c], d)'
               /\ Entitled(d)' => Behind(mem[c], d)'
    <3>1. /\ Owns(d)' => Owns(d) /\ msg'[d] = msg[d] /\ token'[d] = token[d]
          /\ Entitled(d)' => Entitled(d)
      <4>1. d # c => SameCall(d) /\ expired' = expired
        BY DEF Local, SameCall
      <4> QED BY <1>1, <2>2, <4>1, SamePlace DEF SameCall, Untouched
    <3>2. CalmCall(d)
      BY <2>1 DEF Calm
    <3> QED BY <1>1, <3>1, <3>2 DEF CalmCall, OnlyToken, Behind, OwnFile, ClaimIn, Has, Entitled
  <2> QED BY <1>1, <2>1, <2>4, <2>5, LocalCalm
<1> QED BY <1>5, <1>6 DEF CalmInv, Local

LEMMA AppendCalm ==
  ASSUME IInv, CalmInv, NEW c \in Call, Append(c), Local(c)
  PROVE  CalmInv'
<1> DEFINE m == MsgOf[c]
<1>t. TypeOK /\ mem[c] \in State
  BY DEF IInv, TypeOK
<1>1. at[c] = "decide" /\ op[c] = "append" /\ op' = op /\ m \in Msg
  <2>1. at[c] = "decide" /\ op[c] = "append" /\ op' = op
    BY DEF Append
  <2> QED BY <2>1, MessageAssumption DEF MessageAssumption, IInv, CallInv, MsgInv
<1>2. CASE Return(c)
  <2>1. at'[c] = "done" /\ mem'[c] = NoState
    BY <1>2, <1>t DEF Return, Goto, TypeOK
  <2> QED BY <2>1, GoneKeeps
<1>3. CASE /\ Existing(mem[c], m) = {}
           /\ mem' = [mem EXCEPT ![c].messages[m] = NewRec]
           /\ Goto(c, "save") /\ UNCHANGED <<seen, stale>>
  <2>1. at'[c] = "save" /\ mem'[c] = Put(mem[c], m, NewRec)
    BY <1>t, <1>3 DEF TypeOK, Put, Goto
  <2>2. /\ mem'[c].count = mem[c].count /\ mem'[c].messages[m] = NewRec
        /\ \A n \in Msg \ {m} : mem'[c].messages[n] = mem[c].messages[n]
    BY <1>t, <1>1, <2>1, NewIsRec, PutKeeps
  <2>3. /\ Copy(c) /\ ~Owns(c)' /\ ~Claiming(c) /\ ~Claiming(c)' /\ ~Parted(c) /\ ~Settling(c)
        /\ ~Has(mem[c], m)
    BY <1>1, <1>3, <2>1
       DEF Copy, Working, Owns, Delivering, Claiming, Parted, Settling, Existing, Has
  <2>4. \A n \in Msg : Faded(c, n)
    BY <2>2, MessageAssumption DEF Faded, NewRec, MessageAssumption
  <2>5. ASSUME Calm, Fresh(c) PROVE FreshCopy(c)'
    <3>1. FreshCopy(c) /\ state' = state /\ claims' = claims
      BY <2>5 DEF Calm, CalmCall, Local
    <3>2. \A n \in Msg : mem[c].messages[n] = state.messages[n]
      BY <1>1, <2>3, <3>1 DEF FreshCopy, Differs
    <3>3. ~Has(state, m)
      BY <1>1, <2>3, <3>2 DEF Has
    <3>4. Differs(c, m)'
      BY <1>1, <2>1, <3>1, <3>3 DEF Differs, Has
    <3> QED BY <1>1, <2>1, <2>2, <2>3, <3>1, <3>2, <3>4 DEF FreshCopy
  <2> QED BY <1>1, <1>3, <2>1, <2>2, <2>3, <2>4, <2>5, CopyMoves
<1> QED BY <1>2, <1>3 DEF Append

LEMMA CondemnCalm ==
  ASSUME IInv, CalmInv, NEW c \in Call, Condemn(c), Local(c)
  PROVE  CalmInv'
<1>1. PICK m \in Candidates(c) : Exhausted(mem[c].messages[m]) /\ msg' = [msg EXCEPT ![c] = m]
  BY DEF Condemn
<1>2. /\ at[c] = "decide" /\ op[c] = "claim" /\ at'[c] = "bury" /\ msg'[c] = m
      /\ op' = op /\ mem' = mem /\ stale' = stale
  BY <1>1 DEF Condemn, Goto, IInv, TypeOK, history
<1>3. /\ Copy(c) /\ ~Owns(c)' /\ ~Claiming(c) /\ ~Claiming(c)' /\ Parted(c) /\ Parted(c)'
      /\ ~Settling(c)
  BY <1>2 DEF Copy, Working, Owns, Delivering, Claiming, Parted, Settling
<1>4. \A n \in Msg : Faded(c, n)
  BY <1>2 DEF Faded
<1>5. ASSUME Calm, Fresh(c) PROVE FreshCopy(c)'
  <2>1. FreshCopy(c) /\ state' = state /\ claims' = claims /\ dead \subseteq dead'
    BY <1>5 DEF Calm, CalmCall, Local
  <2>2. \A n \in Msg : Differs(c, n) => Differs(c, n)'
    BY <1>2, <1>3, <2>1 DEF Differs, Has
  <2> QED BY <1>2, <1>3, <2>1, <2>2 DEF FreshCopy, Has
<1>6. ASSUME ~clobbered, NEW d \in Call, Entitled(d), msg[d] = m PROVE FALSE
  <2>1. Behind(mem[c], d)
    BY <1>3, <1>6 DEF CalmInv, Calm, CalmPair
  <2>2. m \in Msg /\ Has(mem[c], m) /\ mem[c].messages[m].attempt \in Nat /\ MaxAttempts \in Nat
    BY <1>1, MessageAssumption
       DEF Candidates, Has, IInv, TypeOK, State, Rec, MessageAssumption
  <2>3. ~(mem[c].messages[m].attempt < MaxAttempts)
    BY <1>1, <2>2 DEF Exhausted
  <2>4. ~ClaimIn(mem[c], m, d) /\ mem[c].messages[m].status # "acked"
    BY <1>1, <1>6 DEF Candidates, Live, ClaimIn, Entitled
  <2> QED BY <1>6, <2>1, <2>2, <2>3, <2>4 DEF Behind
<1> QED BY <1>2, <1>3, <1>4, <1>5, <1>6, CopyMoves

LEMMA ClaimCalm ==
  ASSUME IInv, CalmInv, NEW c \in Call, Claim(c), Local(c)
  PROVE  CalmInv'
<1>1. PICK m \in Candidates(c) :
        /\ ~Exhausted(mem[c].messages[m])
        /\ mem' = [mem EXCEPT ![c] = ClaimOf(c, m)] /\ msg' = [msg EXCEPT ![c] = m]
        /\ token' = [token EXCEPT ![c] = mem[c].count + 1]
  BY DEF Claim
<1>2. /\ at[c] = "decide" /\ op[c] = "claim" /\ at'[c] = "save" /\ op' = op /\ msg'[c] = m
      /\ mem'[c] = ClaimOf(c, m) /\ token'[c] = mem[c].count + 1 /\ stale' = stale
  BY <1>1 DEF Claim, Goto, IInv, TypeOK
<1>3. /\ m \in Msg /\ m # NoMsg /\ Has(mem[c], m) /\ mem[c] \in State
      /\ mem[c].messages[m] \in Rec /\ mem[c].count \in Nat
      /\ mem[c].messages[m].attempt \in Nat /\ MaxAttempts \in Nat
  BY <1>1, MessageAssumption
     DEF Candidates, Has, IInv, TypeOK, State, Rec, MessageAssumption
<1>4. /\ mem'[c].count = mem[c].count + 1
      /\ mem'[c].messages[m] =
           [status |-> "claimed", owner |-> OwnerOf[c], fence |-> mem[c].count + 1,
            claim |-> c, attempt |-> mem[c].messages[m].attempt + 1]
      /\ Has(mem'[c], m)
      /\ \A n \in Msg \ {m} : mem'[c].messages[n] = mem[c].messages[n]
  <2>1. /\ mem'[c].messages = [mem[c].messages EXCEPT ![m] =
             [status |-> "claimed", owner |-> OwnerOf[c], fence |-> mem[c].count + 1,
              claim |-> c, attempt |-> mem[c].messages[m].attempt + 1]]
        /\ mem'[c].count = mem[c].count + 1
    BY <1>2 DEF ClaimOf
  <2>2. mem[c].messages \in [Msg -> Rec \cup {NoRec}]
    BY <1>3 DEF State
  <2> QED BY <1>2, <1>3, <2>1, <2>2, ClaimFacts DEF Has
<1>5. /\ Unsaved(c) /\ Unsaved(c)' /\ Claiming(c)' /\ ~Owns(c)' /\ ~Copy(c)' /\ ~Claiming(c)
      /\ ~Entitled(c)' /\ Copy(c) /\ Parted(c) /\ Parted(c)' /\ Working(c) /\ ~Settling(c)
  BY <1>2, <1>3
     DEF Unsaved, Claiming, Owns, Copy, Working, Delivering, Entitled, Parted, Settling
<1>6. Knows(c)'
  <2>1. ~Names(state, c)'
    BY <1>5 DEF CalmInv, ClaimInv, Knows, Names, Has, Local
  <2>2. mem[c].messages[m].attempt + 1 <= MaxAttempts
    BY <1>1, <1>3 DEF Exhausted
  <2>3. OwnClaim(c)'
    BY <1>2, <1>4, <2>2 DEF OwnClaim, ClaimIn, Has
  <2> QED BY <1>2, <2>1, <2>3 DEF Knows
<1>7. ASSUME NEW d \in Call, Unsaved(d)', Names(mem'[c], d) PROVE d = c
  <2> SUFFICES ASSUME d # c PROVE FALSE
    OBVIOUS
  <2>1. Unsaved(d)
    <3>1. SameCall(d) /\ expired' = expired
      BY DEF Local, SameCall
    <3> QED BY <1>7, <3>1, SamePlace
  <2>2. ~Names(mem[c], d)
    BY <1>5, <2>1 DEF CalmInv, ClaimInv, NotNamed
  <2>3. PICK n \in Msg : Has(mem'[c], n) /\ mem'[c].messages[n].claim = d
    BY <1>7 DEF Names
  <2>4. n # m
    BY <1>4, <2>3
  <2> QED BY <1>4, <2>2, <2>3, <2>4 DEF Names, Has
<1>8. ClaimInv'
  BY <1>5, <1>6, <1>7, LocalClaims DEF CalmInv
<1>9. ASSUME ~clobbered PROVE Calm'
  <2>1. Calm /\ CalmCall(c)
    BY <1>9 DEF CalmInv, Calm
  <2>2. ASSUME Fresh(c)' PROVE FreshCopy(c)'
    <3>1. FreshCopy(c) /\ state' = state /\ claims' = claims /\ dead \subseteq dead'
          /\ expired' = expired
      BY <1>2, <1>5, <2>1, <2>2 DEF CalmCall, Fresh, Local
    <3>2. mem[c].messages[m] = state.messages[m]
      BY <1>3, <1>5, <1>2, <3>1 DEF FreshCopy, Differs
    <3>3. claims[m] \in Nat /\ claims[m] <= mem[c].messages[m].attempt
      BY <1>2, <1>3, <3>1 DEF FreshCopy, IInv, TypeOK
    <3>4. /\ Has(state, m) /\ ~Live(state.messages[m]) /\ state.messages[m].status # "acked"
      BY <1>1, <1>3, <3>2 DEF Candidates, Has, Live
    <3>5. \A n \in Msg \ {m} : Differs(c, n) => Differs(c, n)'
      BY <1>2, <1>4, <1>5, <3>1 DEF Differs, Has
    <3>6. Differs(c, m)'
      BY <1>2, <1>5 DEF Differs
    <3>7. mem'[c].count = state.count + 1
      <4>1. state.count \in Nat /\ mem[c].count = state.count + 0
        BY <1>5, <3>1 DEF FreshCopy, IInv, TypeOK, State
      <4> QED BY <1>4, <4>1
    <3>8. \A n \in Msg : mem'[c].messages[n] = state.messages[n] \/ Differs(c, n)'
      BY <1>4, <3>1, <3>5, <3>6 DEF FreshCopy
    <3>9. \A n \in Msg : Has(mem'[c], n) => mem'[c].messages[n].attempt >= claims[n]
      BY <1>2, <1>3, <1>4, <3>1, <3>3 DEF FreshCopy, Has
    <3>10. mem'[c].messages[m].attempt >= claims[m] + 1
      BY <1>3, <1>4, <3>3
    <3> QED BY <1>2, <1>5, <3>1, <3>4, <3>7, <3>8, <3>9, <3>10 DEF FreshCopy, Has, Live
  <2>3. CalmCall(c)'
    BY <1>5, <2>2 DEF CalmCall
  <2> QED BY <1>2, <1>5, <1>9, <2>1, <2>3, FadedCalm
<1> QED BY <1>8, <1>9 DEF CalmInv, Local

LEMMA BuryCalm ==
  ASSUME IInv, CalmInv, NEW c \in Call, Bury(c), Local(c)
  PROVE  CalmInv'
<1> DEFINE m == msg[c]
<1>1. /\ at[c] = "bury" /\ at'[c] = "unlease" /\ dead' = dead \cup {m} /\ m \in Msg
      /\ op' = op /\ msg' = msg /\ stale' = stale
      /\ mem'[c] = Put(mem[c], m, NoRec) /\ mem[c] \in State
  BY DEF Bury, Goto, IInv, TypeOK, CallInv, MsgInv, Put, history
<1>2. /\ mem'[c].count = mem[c].count /\ mem'[c].messages[m] = NoRec
      /\ \A n \in Msg \ {m} : mem'[c].messages[n] = mem[c].messages[n]
  BY <1>1, PutKeeps
<1>3. /\ Copy(c) /\ ~Owns(c)' /\ ~Claiming(c) /\ ~Claiming(c)' /\ Parted(c) /\ Parted(c)'
      /\ Settling(c)' <=> Settling(c)
  BY <1>1 DEF Copy, Working, Owns, Delivering, Claiming, Parted, Settling
<1>4. \A n \in Msg : Faded(c, n)
  BY <1>2 DEF Faded, Has
<1>5. ASSUME Calm, Fresh(c) PROVE FreshCopy(c)'
  <2>1. FreshCopy(c) /\ state' = state /\ claims' = claims /\ dead \subseteq dead'
    BY <1>1, <1>5 DEF Calm, CalmCall, Local
  <2>3. \A n \in Msg \ {m} : Differs(c, n) => Differs(c, n)'
    BY <1>1, <1>2, <1>3, <2>1 DEF Differs, Has, ClaimIn
  <2>4. \A n \in Msg : mem'[c].messages[n] = state.messages[n] \/ Differs(c, n)'
    <3> TAKE n \in Msg
    <3>1. mem[c].messages[n] = state.messages[n] \/ Differs(c, n)
      BY <2>1 DEF FreshCopy
    <3>2. CASE n = m
      BY <1>1, <1>2, <1>3, <3>2 DEF Differs, Has
    <3>3. CASE n # m
      BY <1>2, <2>1, <2>3, <3>1, <3>3
    <3> QED BY <3>2, <3>3
  <2>5. op[c] = "claim" =>
          \A n \in Msg : Has(mem'[c], n) => mem'[c].messages[n].attempt >= claims[n]
    BY <1>1, <1>2, <2>1 DEF FreshCopy, Has
  <2> QED BY <1>1, <1>2, <1>3, <2>1, <2>4, <2>5 DEF FreshCopy, Has
<1> QED BY <1>1, <1>2, <1>3, <1>4, <1>5, CopyMoves

LEMMA RemoveLeaseCalm ==
  ASSUME IInv, CalmInv, NEW c \in Call, RemoveLease(c), Local(c)
  PROVE  CalmInv'
<1>1. /\ at[c] = "unlease" /\ at'[c] \in {"decide", "save"}
      /\ at'[c] = "decide" => op[c] = "claim"
      /\ op' = op /\ mem' = mem /\ stale' = stale /\ op[c] # "append"
      /\ op[c] = "claim" => msg'[c] = NoMsg
      /\ op[c] # "claim" => msg'[c] = msg[c]
  BY DEF RemoveLease, Goto, IInv, TypeOK, CallInv, MsgInv, history
<1>2. /\ Copy(c) /\ ~Owns(c)' /\ ~Claiming(c) /\ ~Claiming(c)' /\ Parted(c) /\ Parted(c)'
      /\ Settling(c) => Settling(c)' /\ op[c] # "claim"
  BY <1>1 DEF Copy, Working, Owns, Delivering, Claiming, Parted, Settling
<1>3. \A n \in Msg : Faded(c, n)
  BY <1>1 DEF Faded
<1>4. ASSUME Calm, Fresh(c) PROVE FreshCopy(c)'
  <2>1. FreshCopy(c) /\ state' = state /\ claims' = claims /\ dead \subseteq dead'
    BY <1>4 DEF Calm, CalmCall, Local
  <2>2. \A n \in Msg : Differs(c, n) => Differs(c, n)'
    BY <1>1, <1>2, <2>1 DEF Differs, Has, ClaimIn
  <2> QED BY <1>1, <1>2, <2>1, <2>2 DEF FreshCopy, Has
<1> QED BY <1>1, <1>2, <1>3, <1>4, CopyMoves

LEMMA DeliveryCalm ==
  ASSUME IInv, CalmInv, NEW c \in Call, Delivery(c), ~Ack(c), ~Nack(c), Local(c)
  PROVE  CalmInv'
<1> USE DEF Goto, Switch, Rest, Counts, journals, files, local, history
<1>t. TypeOK
  BY DEF IInv
<1>1. /\ Owns(c) /\ mem' = mem /\ msg' = msg /\ token' = token
      /\ at'[c] \in {"load", "start", "handle", "applied", "recheck"}
      /\ at'[c] = "load" => op'[c] \in {"ack", "nack"}
  <2>1. CASE Check(c)
    BY <1>t, <2>1 DEF Check, TypeOK, Owns, Delivering
  <2>2. CASE Start(c)
    BY <1>t, <2>2 DEF Start, TypeOK, Owns, Delivering
  <2>3. CASE Handle(c)
    BY <1>t, <2>3 DEF Handle, TypeOK, Owns, Delivering
  <2>4. CASE HandlerThrows(c)
    BY <1>t, <2>4 DEF HandlerThrows, TypeOK, Owns, Delivering
  <2>5. CASE Applied(c)
    BY <1>t, <2>5 DEF Applied, TypeOK, Owns, Delivering
  <2>6. CASE Recheck(c)
    BY <1>t, <2>6 DEF Recheck, TypeOK, Owns, Delivering
  <2> QED BY <2>1, <2>2, <2>3, <2>4, <2>5, <2>6 DEF Delivery
<1> QED BY <1>1, OwnerMoves

\* An ack or a nack takes the claim from its copy.
LEMMA SettleCalm ==
  ASSUME IInv, CalmInv, NEW c \in Call, Local(c), Owns(c), at[c] = "decide",
         NEW status \in {"retry_wait", "acked"}, NEW m \in Msg, m = msg[c],
         mem'[c].count = mem[c].count,
         mem'[c].messages[m] = IF Has(mem[c], m) THEN Unclaimed(mem[c].messages[m], status)
                                                 ELSE NoRec,
         \A n \in Msg \ {m} : mem'[c].messages[n] = mem[c].messages[n],
         Has(mem[c], m) => IsCurrent(mem[c].messages[m], c),
         at'[c] \in {"bury", "unlease", "save"}, at'[c] = "bury" => Has(mem[c], m),
         msg' = msg, op' = op, stale' = stale
  PROVE  CalmInv'
<1>1. /\ Copy(c) /\ ~Owns(c)' /\ ~Claiming(c) /\ ~Claiming(c)' /\ ~Parted(c) /\ Parted(c)'
      /\ op[c] \in {"ack", "nack"} /\ ~Settling(c) /\ Settling(c)'
  BY DEF Copy, Working, Owns, Delivering, Claiming, Parted, Settling
<1>r. Has(mem[c], m) =>
        LET r == mem'[c].messages[m]
        IN  /\ r.claim = NoCall /\ r.status # "claimed" /\ Has(mem'[c], m)
            /\ r.attempt = mem[c].messages[m].attempt
  <2>1. Has(mem[c], m) => mem[c].messages[m] \in Rec
    BY DEF Has, IInv, TypeOK, State
  <2>2. ASSUME Has(mem[c], m)
        PROVE  LET r == mem[c].messages[m]
                   q == Unclaimed(r, status)
               IN  /\ q.claim = NoCall /\ q.status # "claimed" /\ q # NoRec
                   /\ q.attempt = r.attempt
    <3>1. mem[c].messages[m] \in Rec
      BY <2>1, <2>2
    <3>2. ASSUME NEW r \in Rec
          PROVE  LET q == Unclaimed(r, status)
                 IN  q \in Rec /\ q.claim = NoCall /\ q.status = status /\ q.attempt = r.attempt
      <4>1. Unclaimed(r, status).claim = NoCall
        BY DEF Unclaimed, Rec
      <4> QED BY <4>1, UnclaimedKeeps
    <3> DEFINE q == Unclaimed(mem[c].messages[m], status)
    <3>3. /\ q \in Rec /\ q.claim = NoCall /\ q.status = status
          /\ q.attempt = mem[c].messages[m].attempt
      BY <3>1, <3>2
    <3>4. NoRec \notin Rec
      BY MessageAssumption DEF MessageAssumption
    <3> HIDE DEF q
    <3>5. q # NoRec /\ q.status # "claimed"
      BY <3>3, <3>4
    <3> QED BY <3>3, <3>5 DEF q
  <2> QED BY <2>2 DEF Has
\* Nobody else is entitled to the message.
<1>2. ASSUME ~clobbered, Has(mem[c], m)
      PROVE  /\ ClaimIn(mem[c], m, c) /\ Entitled(c)
             /\ \A d \in Call : Entitled(d) /\ msg[d] = m => d = c
  <2>1. ClaimIn(mem[c], m, c) /\ Entitled(c)
    BY <1>2, CurrentIsOwn DEF CalmInv
  <2> QED BY <1>2, <2>1 DEF CalmInv, Calm, CalmPair
<1>3. \A n \in Msg : Faded(c, n)
  <2> TAKE n \in Msg
  <2>1. CASE n # m
    BY <2>1 DEF Faded
  <2>2. CASE n = m
    BY <1>r, <1>2, <2>2 DEF Faded, Has
  <2> QED BY <2>1, <2>2
<1>4. ASSUME ~clobbered, Calm, Fresh(c) PROVE FreshCopy(c)'
  <2>1. FreshCopy(c) /\ state' = state /\ claims' = claims /\ dead \subseteq dead'
    BY <1>4 DEF Calm, CalmCall, Local
  <2>2. \A n \in Msg : mem[c].messages[n] = state.messages[n]
    BY <1>1, <2>1 DEF FreshCopy, Differs
  <2>3. mem'[c].messages[m] = state.messages[m] \/ Differs(c, m)'
    <3>1. CASE ~Has(mem[c], m)
      BY <2>2, <3>1 DEF Has
    <3>2. CASE Has(mem[c], m)
      <4>1. ClaimIn(state, m, c)'
        BY <1>2, <1>4, <2>1, <2>2, <3>2 DEF ClaimIn, Has
      <4>2. Has(mem'[c], m) /\ mem'[c].messages[m].attempt = state.messages[m].attempt
        BY <1>r, <2>2, <3>2
      <4> QED BY <1>1, <2>1, <4>1, <4>2 DEF Differs, Has
    <3> QED BY <3>1, <3>2
  <2>4. mem'[c].count = state.count + (IF Claiming(c)' THEN 1 ELSE 0)
    BY <1>1, <2>1 DEF FreshCopy
  <2> QED BY <1>1, <2>1, <2>2, <2>3, <2>4 DEF FreshCopy
<1>5. ASSUME at'[c] = "bury", ~clobbered, NEW d \in Call, d # c, Entitled(d)
      PROVE  msg'[c] # msg[d]
  BY <1>2, <1>5
<1> QED BY <1>1, <1>3, <1>4, <1>5, CopyMoves

LEMMA AckCalm ==
  ASSUME IInv, CalmInv, NEW c \in Call, Ack(c), Local(c)
  PROVE  CalmInv'
<1> DEFINE m == msg[c]
           r == mem[c].messages[m]
<1>t. TypeOK
  BY DEF IInv
<1>1. /\ at[c] = "decide" /\ op[c] = "ack" /\ m \in Msg /\ mem[c] \in State /\ Owns(c)
      /\ msg' = msg /\ token' = token
  BY DEF Ack, IInv, TypeOK, CallInv, MsgInv, Owns
<1>2. CASE Return(c)
  <2>1. at'[c] = "done" /\ mem'[c] = NoState
    BY <1>2, <1>t DEF Return, Goto, TypeOK
  <2> QED BY <2>1, GoneKeeps
<1>3. CASE Switch(c, "nack") /\ UNCHANGED <<acks, mem, seen, stale>>
  <2>1. at'[c] = "load" /\ op'[c] = "nack" /\ mem' = mem
    BY <1>3, <1>t DEF Switch, Goto, TypeOK
  <2> QED BY <1>1, <2>1, OwnerMoves
<1>4. CASE /\ r # NoRec => IsCurrent(r, c)
           /\ mem' = [mem EXCEPT ![c] = Acked(@, m)]
           /\ Goto(c, IF r = NoRec THEN "save" ELSE "unlease") /\ UNCHANGED <<op, seen, stale>>
  <2>1. mem'[c] = Acked(mem[c], m) /\ at'[c] \in {"unlease", "save"}
    BY <1>4, <1>t DEF Goto, TypeOK
  <2>2. /\ mem'[c].count = mem[c].count
        /\ mem'[c].messages[m] = IF Has(mem[c], m) THEN Unclaimed(r, "acked") ELSE NoRec
        /\ \A n \in Msg \ {m} : mem'[c].messages[n] = mem[c].messages[n]
    BY <1>1, <2>1, AckFacts DEF Has
  <2> QED BY <1>1, <1>4, <2>1, <2>2, SettleCalm DEF Has
<1> QED BY <1>2, <1>3, <1>4 DEF Ack

LEMMA NackCalm ==
  ASSUME IInv, CalmInv, NEW c \in Call, Nack(c), Local(c)
  PROVE  CalmInv'
<1> DEFINE m == msg[c]
           r == mem[c].messages[m]
<1>t. TypeOK
  BY DEF IInv
<1>1. /\ at[c] = "decide" /\ op[c] = "nack" /\ m \in Msg /\ mem[c] \in State /\ Owns(c)
      /\ msg' = msg /\ op' = op
  BY DEF Nack, IInv, TypeOK, CallInv, MsgInv, Owns
<1>2. CASE Return(c)
  <2>1. at'[c] = "done" /\ mem'[c] = NoState
    BY <1>2, <1>t DEF Return, Goto, TypeOK
  <2> QED BY <2>1, GoneKeeps
<1>3. CASE /\ r # NoRec /\ IsCurrent(r, c)
           /\ mem' = [mem EXCEPT ![c].messages[m] = Unclaimed(r, "retry_wait")]
           /\ Goto(c, IF Exhausted(r) THEN "bury" ELSE "save") /\ UNCHANGED <<seen, stale>>
  <2> DEFINE v == Unclaimed(r, "retry_wait")
  <2>1. mem'[c] = Put(mem[c], m, v) /\ at'[c] \in {"bury", "save"} /\ stale' = stale
    BY <1>3, <1>t DEF Goto, TypeOK, Put
  <2>2. v \in Rec \cup {NoRec} /\ Has(mem[c], m)
    BY <1>1, <1>3, UnclaimedKeeps DEF State, Has
  <2>3. /\ mem'[c].count = mem[c].count /\ mem'[c].messages[m] = v
        /\ \A n \in Msg \ {m} : mem'[c].messages[n] = mem[c].messages[n]
    <3> HIDE DEF v, r, m
    <3> QED BY <1>1, <2>1, <2>2, PutKeeps
  <2>4. mem'[c].messages[m] = IF Has(mem[c], m) THEN Unclaimed(r, "retry_wait") ELSE NoRec
    BY <2>2, <2>3
  <2> QED BY <1>1, <1>3, <2>1, <2>2, <2>3, <2>4, SettleCalm
<1> QED BY <1>2, <1>3 DEF Nack

LEMMA LocalStep ==
  ASSUME IInv, CalmInv, NEW c \in Call, Operation(c) \/ Delivery(c), ~Writes(c)
  PROVE  CalmInv'
<1>1. Local(c)
  BY StepIsLocal
<1>2. CASE NoClaim(c)
  <2>1. at'[c] = "done" /\ mem'[c] = NoState
    BY <1>2 DEF NoClaim, Goto, IInv, TypeOK
  <2> QED BY <1>1, <2>1, GoneKeeps
<1> QED BY <1>1, <1>2, LoadCalm, AppendCalm, ClaimCalm, CondemnCalm, BuryCalm, RemoveLeaseCalm,
           DeliveryCalm, AckCalm, NackCalm DEF Operation, Delivery, Writes

-----------------------------------------------------------------------------
\* Steps that write state.json.

\* What recover makes of one message.
LEMMA ReplayRecord ==
  ASSUME TypeOK, NEW s \in State, Sound(s), NEW due \in SUBSET Msg, NEW m \in Msg
  PROVE  LET t == Replayed(s, due)
         IN  /\ m \in dead => ~Has(t, m)
             /\ m \notin dead /\ Has(s, m) => Has(t, m)
             /\ Has(t, m) /\ Has(s, m) => t.messages[m].attempt = s.messages[m].attempt
             /\ Has(t, m) /\ ~Has(s, m) => t.messages[m].attempt = 0
             /\ Has(t, m) => \/ Has(s, m) /\ t.messages[m] = s.messages[m]
                             \/ /\ t.messages[m].claim = NoCall
                                /\ t.messages[m].status # "claimed"
             /\ \A c \in Call \ expired :
                  ClaimIn(s, m, c) /\ m \notin acks \cup dead => ClaimIn(t, m, c)
<1> DEFINE t == Replayed(s, due)
           r == IF s.messages[m] = NoRec THEN NewRec ELSE s.messages[m]
           q == IF m \in dead \/ (m \notin outbox /\ s.messages[m] = NoRec) THEN NoRec
                ELSE IF m \in acks THEN Unclaimed(r, "acked")
                ELSE IF Returns(r, m, due) THEN Unclaimed(r, "pending") ELSE r
<1>1. t.messages[m] = q
  BY DEF Replayed
<1>2. r \in Rec /\ NoRec \notin Rec
  BY NewIsRec, MessageAssumption DEF State, MessageAssumption
<1>3. \A status \in {"acked", "pending"} :
        LET u == Unclaimed(r, status)
        IN  /\ u.claim = NoCall /\ u.status = status /\ u.attempt = r.attempt /\ u # NoRec
  <2> TAKE status \in {"acked", "pending"}
  <2> HIDE DEF r
  <2>1. Unclaimed(r, status) \in Rec
    BY <1>2, UnclaimedKeeps
  <2>2. Unclaimed(r, status).claim = NoCall
    BY <1>2 DEF Unclaimed, Rec
  <2>3. Unclaimed(r, status).status = status /\ Unclaimed(r, status).attempt = r.attempt
    BY <1>2, UnclaimedKeeps
  <2> QED BY <1>2, <2>1, <2>2, <2>3
<1>4. /\ Has(t, m) <=> q # NoRec
      /\ Has(s, m) => r = s.messages[m]
      /\ ~Has(s, m) => r.attempt = 0 /\ r.claim = NoCall /\ r.status = "pending"
  BY <1>1 DEF Has, NewRec
<1>5. m \in dead => q = NoRec
  OBVIOUS
<1>6. m \notin dead /\ Has(s, m) => q # NoRec
  BY <1>2, <1>3 DEF Has
<1>7. q = NoRec \/ q = r \/ q = Unclaimed(r, "acked") \/ q = Unclaimed(r, "pending")
  OBVIOUS
<1>8. ASSUME NEW c \in Call \ expired, ClaimIn(s, m, c), m \notin acks \cup dead
      PROVE  ClaimIn(t, m, c)
  <2>1. ~Returns(r, m, due)
    BY <1>4, <1>8 DEF Returns, ClaimIn, Has
  <2>2. q = r
    BY <1>8, <2>1 DEF ClaimIn, Has
  <2> QED BY <1>1, <1>2, <1>4, <1>8, <2>2 DEF ClaimIn, Has
<1> HIDE DEF q, r
<1>9. Has(t, m) => q.attempt = r.attempt
  BY <1>3, <1>4, <1>7
<1>10. Has(t, m) => q = r \/ (q.claim = NoCall /\ q.status # "claimed")
  BY <1>3, <1>4, <1>7
<1> HIDE DEF t
<1> QED BY <1>1, <1>4, <1>5, <1>6, <1>8, <1>9, <1>10 DEF t

LEMMA WriteClaims ==
  ASSUME ClaimInv, NEW c \in Call, \A d \in Call \ {c} : SameCall(d), expired' = expired,
         dead' = dead,
         \A d \in Call : Names(state', d) => Names(mem[c], d),
         \A d \in Call : Names(mem'[c], d) => Names(mem[c], d),
         ~Claiming(c)', Unsaved(c)' => Unsaved(c) /\ ~Claiming(c),
         op'[c] \in {"ack", "nack"} /\ at'[c] = "decide" =>
           msg'[c] \in dead' \/ Has(mem'[c], msg'[c])
  PROVE  ClaimInv'
<1>1. \A d \in Call : d # c /\ Unsaved(d) => ~Names(mem[c], d)
  BY DEF ClaimInv, NotNamed
<1>2. Unsaved(c)' => ~Names(mem[c], c)
  BY DEF ClaimInv, NotNamed
<1>n. \A d \in Call : /\ Names(state, d)' <=> Names(state', d)
                      /\ Names(mem[c], d)' <=> Names(mem'[c], d)
  BY DEF Names, Has
<1>3. ASSUME NEW d \in Call, d # c PROVE Knows(d)'
  <2>1. SameCall(d) /\ Knows(d)
    BY <1>3 DEF ClaimInv
  <2>2. Unsaved(d)' => ~Names(state, d)'
    BY <1>1, <1>3, <1>n, <2>1, SamePlace
  <2>3. OwnClaim(d) => OwnClaim(d)'
    BY <2>1 DEF OwnClaim, ClaimIn, Has, SameCall, Untouched
  <2> QED BY <2>1, <2>2, <2>3, SamePlace DEF Knows, SameCall, Untouched, Has
<1>4. Knows(c)'
  <2>1. Unsaved(c)' => ~Names(state, c)'
    BY <1>2, <1>n
  <2> QED BY <2>1 DEF Knows, Has
<1>5. ASSUME NEW d \in Call, NEW e \in Call PROVE NotNamed(d, e)'
  <2>1. d # c => (Unsaved(d)' <=> Unsaved(d)) /\ ~Claiming(c)'
    BY SamePlace
  <2>2. CASE e = c
    BY <1>1, <1>2, <1>n, <2>1, <2>2 DEF NotNamed
  <2>3. CASE e # c
    <3>1. SameCall(e) /\ NotNamed(d, e)
      BY <2>3 DEF ClaimInv
    <3>2. Names(mem[e], d)' <=> Names(mem[e], d)
      BY <3>1 DEF Names, Has, SameCall, Untouched
    <3>3. CASE d = c
      BY <2>3, <3>1, <3>2, <3>3 DEF NotNamed
    <3>4. CASE d # c
      <4>1. Claiming(d)' <=> Claiming(d)
        BY <3>4, SamePlace
      <4> QED BY <2>1, <3>1, <3>2, <3>4, <4>1 DEF NotNamed
    <3> QED BY <3>3, <3>4
  <2> QED BY <2>2, <2>3
<1>6. \A d \in Call : Knows(d)'
  BY <1>3, <1>4
<1> QED BY <1>5, <1>6 DEF ClaimInv

\* The calls that do not write: their copies are overtaken, or state.json is as before.
LEMMA WriteCalm ==
  ASSUME Calm, TypeOK, TypeOK', NEW c \in Call, \A d \in Call \ {c} : SameCall(d),
         expired' = expired, dead' = dead, acks' = acks,
         \A d \in Call \ {c} : (d \in stale \/ (Working(d) /\ state' # state)) => d \in stale',
         state' = state => claims' = claims, state.count <= state'.count, AttemptsKept',
         \A d \in Call \ {c} : /\ Owns(d) => OnlyToken(state, d)'
                               /\ Entitled(d) => OwnFile(d)',
         CalmCall(c)', at'[c] # "bury",
         Copy(c)' => \A d \in Call : /\ Owns(d)' => OnlyToken(mem[c], d)'
                                     /\ Entitled(d)' => Behind(mem[c], d)',
         \A d \in Call \ {c} : CalmPair(c, d)'
  PROVE  Calm'
<1>1. ASSUME NEW d \in Call, d # c PROVE CalmCall(d)'
  <2>1. SameCall(d) /\ CalmCall(d)
    BY <1>1 DEF Calm
  <2>2. ASSUME Fresh(d)' PROVE FreshCopy(d)'
    <3>1. Fresh(d) /\ state' = state /\ claims' = claims
      BY <1>1, <2>1, <2>2, SamePlace DEF Fresh
    <3>2. \A m \in Msg : Differs(d, m) => Differs(d, m)'
      BY <2>1, <3>1, SamePlace DEF Differs, Parted, SameCall, Untouched, Has, ClaimIn
    <3> QED BY <2>1, <3>1, <3>2, SamePlace
            DEF CalmCall, FreshCopy, SameCall, Untouched, Has, Live
  <2>3. /\ Copy(d)' => mem'[d].count <= state'.count
        /\ Owns(d)' => token'[d] <= state'.count
    <3>1. /\ mem[d].count \in Nat /\ state.count \in Nat /\ state'.count \in Nat
          /\ token[d] \in Nat
      BY DEF TypeOK, State
    <3> QED BY <2>1, <3>1, SamePlace DEF CalmCall, SameCall, Untouched
  <2>4. Owns(d)' => OnlyToken(state, d)'
    BY <1>1, <2>1, SamePlace
  <2>5. Entitled(d)' => OwnFile(d)'
    BY <1>1, <2>1, SamePlace
  <2> QED BY <2>2, <2>3, <2>4, <2>5 DEF CalmCall
<1>2. ASSUME NEW d \in Call, NEW e \in Call, d # c PROVE CalmPair(d, e)'
  <2>1. SameCall(d) /\ CalmPair(d, e)
    BY <1>2 DEF Calm
  <2>2. CASE e = c
    <3>1. CalmPair(c, d)'
      BY <1>2
    <3> QED BY <1>2, <2>2, <3>1 DEF CalmPair
  <2>3. CASE e # c
    <3>1. SameCall(e)
      BY <2>3
    <3>2. OnlyToken(mem[e], d) => OnlyToken(mem[e], d)'
      BY <2>1, <3>1 DEF OnlyToken, Has, SameCall, Untouched
    <3>3. Behind(mem[e], d) => Behind(mem[e], d)'
      BY <2>1, <3>1 DEF Behind, ClaimIn, Has, SameCall, Untouched
    <3> QED BY <2>1, <3>1, <3>2, <3>3, SamePlace DEF CalmPair, SameCall, Untouched
  <2> QED BY <2>2, <2>3
<1>3. CalmPair(c, c)'
  BY DEF CalmPair
<1>4. \A d \in Call : CalmCall(d)'
  BY <1>1
<1>5. \A d, e \in Call : CalmPair(d, e)'
  BY <1>2, <1>3
<1> QED BY <1>4, <1>5 DEF Calm

\* What a copy makes of a message when it is replayed, or just written.
Follows(s, t, m) ==
  /\ Has(t, m) => t.messages[m] = s.messages[m] \/ (t.messages[m].status # "claimed"
                                                     /\ t.messages[m].claim = NoCall)
  /\ m \notin dead /\ Has(s, m) => Has(t, m)
  /\ Has(t, m) /\ Has(s, m) => t.messages[m].attempt = s.messages[m].attempt
  /\ Has(t, m) /\ ~Has(s, m) => t.messages[m].attempt = 0
  /\ \A d \in Call \ expired :
       ClaimIn(s, m, d) /\ m \notin acks \cup dead => ClaimIn(t, m, d)
  /\ m \in acks \ dead /\ Has(t, m) =>
       t.messages[m].status = "acked" \/ t.messages[m] = s.messages[m]

\* A write that makes no claim.
LEMMA PlainWrite ==
  ASSUME Calm, IInv, TypeOK', NEW c \in Call, Copy(c), ~clobbered',
         WriteState(c, state'), \A d \in Call \ {c} : SameCall(d), msg'[c] = msg[c],
         UNCHANGED <<expired, dead, acks, claims>>,
         token'[c] = token[c], state'.count = mem[c].count,
         \A m \in Msg : Follows(mem[c], state', m)
  PROVE  /\ \A d \in Call \ {c} : (d \in stale \/ (Working(d) /\ state' # state)) => d \in stale'
         /\ state'.count = state.count
         /\ AttemptsKept'
         /\ \A d \in Call : Owns(d) => OnlyToken(state, d)'
         /\ \A d \in Call : Entitled(d) /\ (d # c \/ ~Settling(c)) => OwnFile(d)'
<1>t. TypeOK
  BY DEF IInv
<1>1. \A d \in Call \ {c} : (d \in stale \/ (Working(d) /\ state' # state)) => d \in stale'
  BY DEF WriteState
<1>2. state' = state \/ Fresh(c)
  BY DEF WriteState, Fresh, Copy
<1>3. ASSUME Fresh(c)
      PROVE  /\ mem[c].count = state.count
             /\ \A m \in Msg : mem[c].messages[m] = state.messages[m] \/ Differs(c, m)
  <2>1. FreshCopy(c) /\ ~Claiming(c)
    BY <1>3 DEF Calm, CalmCall, Copy
  <2> QED BY <1>t, <2>1 DEF FreshCopy, TypeOK, State
<1>4. state'.count = state.count
  BY <1>2, <1>3
<1>5. AttemptsKept'
  <2>1. CASE state' = state
    BY <2>1 DEF Calm, AttemptsKept, Has
  <2>2. CASE Fresh(c)
    <3> SUFFICES ASSUME NEW m \in Msg, m \notin dead
                 PROVE  /\ claims[m] <= MaxAttempts
                        /\ \/ Has(state', m) /\ claims[m] <= state'.messages[m].attempt
                           \/ ~Has(state', m) /\ claims[m] = 0
      BY DEF AttemptsKept, Has, Calm
    <3>1. claims[m] <= MaxAttempts
      BY DEF Calm, AttemptsKept
    <3>2. \/ Has(state, m) /\ claims[m] <= state.messages[m].attempt
          \/ ~Has(state, m) /\ claims[m] = 0
      BY DEF Calm, AttemptsKept
    <3>3. /\ Has(state', m) => state'.messages[m].attempt \in Nat
          /\ Follows(mem[c], state', m) /\ ~Claiming(c)
      BY DEF TypeOK, State, Rec, Has, Copy
    <3>4. mem[c].messages[m] = state.messages[m] \/ Differs(c, m)
      BY <1>3, <2>2
    <3>5. CASE Has(state, m)
      <4>1. Has(mem[c], m) /\ mem[c].messages[m].attempt = state.messages[m].attempt
        BY <3>3, <3>4, <3>5 DEF Differs, Has
      <4> QED BY <3>1, <3>2, <3>3, <3>5, <4>1 DEF Follows
    <3>6. CASE ~Has(state, m)
      BY <3>1, <3>2, <3>3, <3>6
    <3> QED BY <3>5, <3>6
  <2> QED BY <1>2, <2>1, <2>2
<1>6. ASSUME NEW d \in Call, Owns(d) PROVE OnlyToken(state, d)'
  <2>1. OnlyToken(mem[c], d) /\ token'[d] = token[d]
    BY <1>6 DEF Calm, CalmPair, SameCall
  <2>2. OnlyToken(state', d)
    BY <2>1 DEF OnlyToken, Follows, Has
  <2> QED BY <2>1, <2>2 DEF OnlyToken, Has
<1>7. ASSUME NEW d \in Call, Entitled(d), d # c \/ ~Settling(c) PROVE OwnFile(d)'
  <2>1. /\ OwnFile(d) /\ msg'[d] = msg[d] /\ msg[d] \in Msg
        /\ d \notin expired
    BY <1>7, <1>t DEF Calm, CalmCall, SameCall, Untouched, IInv, TypeOK, CallInv, MsgInv,
                     Entitled, Owns
  <2>2. CASE state' = state
    BY <2>1, <2>2 DEF OwnFile, ClaimIn, Has
  <2>3. CASE Fresh(c)
    <3>1. mem[c].messages[msg[d]] = state.messages[msg[d]] \/ Differs(c, msg[d])
      BY <1>3, <2>1, <2>3
    <3>2. ~Differs(c, msg[d])
      BY <1>7, <2>1 DEF Differs, Copy, OwnFile, ClaimIn, Has
    <3>3. Follows(mem[c], state', msg[d])
      BY <2>1
    <3>4. \/ ClaimIn(state', msg[d], d)
          \/ Has(state', msg[d]) /\ state'.messages[msg[d]].status = "acked" /\ msg[d] \in acks
      BY <2>1, <3>1, <3>2, <3>3 DEF Follows, OwnFile, ClaimIn, Has
    <3> QED BY <2>1, <3>4 DEF OwnFile, ClaimIn, Has
  <2> QED BY <1>2, <2>2, <2>3
<1> QED BY <1>1, <1>4, <1>5, <1>6, <1>7

LEMMA RecoverCalm ==
  ASSUME IInv, CalmInv, NEW c \in Call, Recover(c), TypeOK'
  PROVE  CalmInv'
<1>t. TypeOK /\ mem[c] \in State /\ Sound(mem[c]) /\ CallInv(c)
  BY DEF IInv, TypeOK, CallInv, MemInv
<1>1. PICK due \in SUBSET Waiting(mem[c]) :
        LET s == Replayed(mem[c], due)
        IN  mem' = [mem EXCEPT ![c] = s] /\ WriteState(c, s)
  BY DEF Recover
<1>2. due \in SUBSET Msg
  BY <1>1 DEF Waiting
<1> DEFINE t == Replayed(mem[c], due)
<1>3. /\ t \in State /\ t.count = mem[c].count
      /\ \A m \in acks \cup dead : t.messages[m] # NoRec => t.messages[m].status = "acked"
      /\ \A m \in outbox \ dead : t.messages[m] # NoRec
  BY <1>t, <1>2, ReplayFacts
<1>4. \A m \in Msg : Follows(mem[c], t, m) /\ (m \in dead => ~Has(t, m))
  <2> TAKE m \in Msg
  <2>1. m \in acks \ dead /\ Has(t, m) => t.messages[m].status = "acked"
    BY <1>3 DEF Has
  <2>2. /\ m \in dead => ~Has(t, m)
        /\ m \notin dead /\ Has(mem[c], m) => Has(t, m)
        /\ Has(t, m) /\ Has(mem[c], m) => t.messages[m].attempt = mem[c].messages[m].attempt
        /\ Has(t, m) /\ ~Has(mem[c], m) => t.messages[m].attempt = 0
        /\ Has(t, m) => \/ Has(mem[c], m) /\ t.messages[m] = mem[c].messages[m]
                        \/ t.messages[m].claim = NoCall /\ t.messages[m].status # "claimed"
        /\ \A d \in Call \ expired :
             ClaimIn(mem[c], m, d) /\ m \notin acks \cup dead => ClaimIn(t, m, d)
    BY <1>t, <1>2, ReplayRecord
  <2> HIDE DEF t
  <2> QED BY <2>1, <2>2 DEF Follows
<1> HIDE DEF t
<1>5. /\ at[c] = "recover" /\ at'[c] = "decide" /\ mem'[c] = t /\ state' = t
      /\ op' = op /\ msg' = msg /\ token' = token
      /\ UNCHANGED <<expired, outbox, dead, acks, claims>> /\ WriteState(c, state')
  BY <1>t, <1>1 DEF t, Recover, Goto, WriteState, Rest, Counts, journals, TypeOK
<1>6. /\ Copy(c) /\ Copy(c)' /\ ~Claiming(c) /\ ~Claiming(c)' /\ ~Settling(c) /\ ~Parted(c)
      /\ Owns(c)' <=> Owns(c)
      /\ Entitled(c)' <=> Entitled(c)
      /\ Unsaved(c)' <=> Unsaved(c)
  BY <1>5 DEF Copy, Working, Claiming, Settling, Parted, Owns, Entitled, Unsaved, Delivering
<1>7. \A d \in Call \ {c} : SameCall(d)
  <2>1. \A d \in Call \ {c} : Untouched(d)
    BY <1>t, OthersUntouched DEF Operation
  <2> QED BY <1>5, <2>1 DEF SameCall
<1>8. \A d \in Call : Names(t, d) => Names(mem[c], d)
  BY <1>4, MessageAssumption DEF Names, Has, Follows, MessageAssumption
<1>9. op'[c] \in {"ack", "nack"} /\ at'[c] = "decide" => msg'[c] \in dead' \/ Has(mem'[c], msg'[c])
  <2>1. op[c] \in {"ack", "nack"} => msg[c] \in outbox
    BY <1>t DEF CallInv, MsgInv
  <2> QED BY <1>3, <1>5, <2>1 DEF Has
<1>10. ClaimInv'
  BY <1>5, <1>6, <1>7, <1>8, <1>9, WriteClaims DEF CalmInv
<1>11. ASSUME ~clobbered' PROVE Calm'
  <2>1. Calm
    BY <1>11 DEF CalmInv, Recover, WriteState
  <2>2. /\ \A d \in Call \ {c} :
             (d \in stale \/ (Working(d) /\ state' # state)) => d \in stale'
        /\ state'.count = state.count
        /\ AttemptsKept'
        /\ \A d \in Call : Owns(d) => OnlyToken(state, d)'
        /\ \A d \in Call : Entitled(d) => OwnFile(d)'
    BY <1>3, <1>4, <1>5, <1>6, <1>7, <1>11, <2>1, PlainWrite
  <2>3. state.count <= state'.count
    BY <1>t, <2>2 DEF TypeOK, State
  <2>4. FreshCopy(c)'
    <3>1. mem'[c].count = state'.count + 0
      BY <1>3, <1>5 DEF State
    <3>2. op[c] = "claim" => \A m \in Msg : Has(t, m) => t.messages[m].attempt >= claims[m]
      <4> SUFFICES ASSUME NEW m \in Msg, Has(t, m) PROVE t.messages[m].attempt >= claims[m]
        OBVIOUS
      <4>1. claims[m] <= t.messages[m].attempt
        BY <1>4, <1>5, <2>2 DEF AttemptsKept, Has
      <4>2. claims[m] \in Nat /\ t.messages[m].attempt \in Nat
        BY <1>t, <1>3 DEF TypeOK, State, Has, Rec
      <4> QED BY <4>1, <4>2
    <3> QED BY <1>5, <1>6, <3>1, <3>2 DEF FreshCopy, Has
  <2>5. CalmCall(c)'
    <3>1. Owns(c) => token[c] <= state.count
      BY <2>1 DEF Calm, CalmCall
    <3>2. mem'[c].count <= state'.count
      BY <1>3, <1>5 DEF State
    <3> QED BY <1>5, <1>6, <2>2, <2>4, <3>1, <3>2 DEF CalmCall
  <2>6. \A d \in Call : (Owns(d)' <=> Owns(d)) /\ (Entitled(d)' <=> Entitled(d))
    BY <1>5, <1>6, <1>7, SamePlace
  <2>7. \A d \in Call : /\ Owns(d)' => OnlyToken(mem[c], d)'
                        /\ Entitled(d)' => Behind(mem[c], d)'
    BY <1>5, <2>2, <2>6 DEF OnlyToken, OwnFile, Behind, ClaimIn, Has
  <2>8. ASSUME NEW d \in Call \ {c} PROVE CalmPair(c, d)'
    <3>1. SameCall(d) /\ CalmPair(c, d) /\ (Copy(d)' <=> Copy(d))
      BY <1>5, <1>7, <2>1, SamePlace DEF Calm
    <3>2. OnlyToken(mem[d], c) => OnlyToken(mem[d], c)'
      BY <1>5, <3>1 DEF OnlyToken, Has, SameCall, Untouched
    <3>3. Behind(mem[d], c) => Behind(mem[d], c)'
      BY <1>5, <3>1 DEF Behind, ClaimIn, Has, SameCall, Untouched
    <3> QED BY <1>5, <2>6, <3>1, <3>2, <3>3 DEF CalmPair, SameCall, Untouched
  <2> QED BY <1>t, <1>5, <1>7, <2>1, <2>2, <2>3, <2>5, <2>6, <2>7, <2>8, WriteCalm
<1> QED BY <1>10, <1>11 DEF CalmInv

\* A call that writes its copy, without a claim, and returns.
LEMMA LastWrite ==
  ASSUME IInv, CalmInv, TypeOK', NEW c \in Call, Copy(c),
         WriteState(c, mem[c]), \A d \in Call \ {c} : SameCall(d),
         at'[c] = "done", mem'[c] = NoState, msg'[c] = msg[c], token'[c] = token[c],
         UNCHANGED <<expired, dead, acks, claims>>
  PROVE  CalmInv'
<1>t. TypeOK
  BY DEF IInv
<1>1. /\ state' = mem[c] /\ WriteState(c, state')
      /\ ~Owns(c)' /\ ~Unsaved(c)' /\ ~Claiming(c)' /\ ~Copy(c)' /\ ~Fresh(c)' /\ ~Entitled(c)'
      /\ \A d \in Call : ~Names(mem'[c], d)
  BY DEF WriteState, Owns, Unsaved, Claiming, Copy, Fresh, Entitled, Working, Delivering,
         Names, Has, NoState
<1>2. ClaimInv'
  BY <1>1, WriteClaims DEF CalmInv
<1>3. ASSUME ~clobbered' PROVE Calm'
  <2>1. Calm
    BY <1>3 DEF CalmInv, WriteState
  <2>2. \A m \in Msg : Follows(mem[c], state', m)
    <3>1. \A m \in Msg : Follows(mem[c], mem[c], m)
      BY DEF Follows
    <3> QED BY <1>1, <3>1
  <2>3. /\ \A d \in Call \ {c} :
             (d \in stale \/ (Working(d) /\ state' # state)) => d \in stale'
        /\ state'.count = state.count
        /\ AttemptsKept'
        /\ \A d \in Call : Owns(d) => OnlyToken(state, d)'
        /\ \A d \in Call \ {c} : Entitled(d) => OwnFile(d)'
    BY <1>1, <1>3, <2>1, <2>2, PlainWrite
  <2>4. state.count <= state'.count
    BY <1>t, <2>3 DEF TypeOK, State
  <2>5. CalmCall(c)' /\ \A d \in Call : CalmPair(c, d)'
    BY <1>1 DEF CalmCall, CalmPair
  <2> QED BY <1>t, <1>1, <2>1, <2>3, <2>4, <2>5, WriteCalm
<1> QED BY <1>2, <1>3 DEF CalmInv

\* The write that makes a claim known.
LEMMA ClaimWrite ==
  ASSUME IInv, CalmInv, TypeOK', NEW c \in Call, Claiming(c), WriteState(c, mem[c]),
         \A d \in Call \ {c} : SameCall(d),
         at'[c] = "check", mem'[c] = NoState, op'[c] = op[c], msg'[c] = msg[c],
         token'[c] = token[c], claims' = [claims EXCEPT ![msg[c]] = @ + 1],
         UNCHANGED <<expired, dead, acks>>
  PROVE  CalmInv'
<1> DEFINE m == msg[c]
           r == mem[c].messages[m]
<1>t. /\ TypeOK /\ m \in Msg /\ claims[m] \in Nat /\ claims'[m] = claims[m] + 1
      /\ \A n \in Msg \ {m} : claims'[n] = claims[n]
      /\ MaxAttempts \in Nat
  BY MessageAssumption DEF IInv, TypeOK, Claiming, MessageAssumption
<1>1. /\ state' = mem[c] /\ WriteState(c, state')
      /\ Owns(c)' /\ ~Unsaved(c)' /\ ~Claiming(c)' /\ ~Copy(c)' /\ ~Fresh(c)'
      /\ Unsaved(c) /\ op[c] = "claim" /\ at[c] = "save"
      /\ \A d \in Call : ~Names(mem'[c], d)
  BY DEF WriteState, Owns, Unsaved, Claiming, Copy, Fresh, Working, Delivering,
         Names, Has, NoState
<1>2. ClaimInv'
  BY <1>1, WriteClaims DEF CalmInv
<1>3. /\ ClaimIn(mem[c], m, c) /\ r.fence = token[c] /\ token[c] = mem[c].count
      /\ r.attempt <= MaxAttempts /\ r \in Rec /\ Has(mem[c], m)
  <2>1. Knows(c)
    BY DEF CalmInv, ClaimInv
  <2>2. r \in Rec \/ r = NoRec
    BY <1>t DEF TypeOK, State
  <2> QED BY <2>1, <2>2 DEF Knows, OwnClaim, ClaimIn, Has
<1>4. state' # state
  <2>1. ~Names(state, c)
    BY <1>1 DEF CalmInv, ClaimInv, Knows
  <2> QED BY <1>1, <1>3, <1>t, <2>1 DEF Names, ClaimIn
<1>5. ASSUME ~clobbered' PROVE Calm'
  <2>1. Calm
    BY <1>5 DEF CalmInv, WriteState
  <2>2. Fresh(c)
    BY <1>1, <1>4, <1>5 DEF WriteState, Fresh, Working
  <2>3. FreshCopy(c)
    BY <2>1, <2>2 DEF Calm, CalmCall
  <2>4. /\ mem[c].count = state.count + 1
        /\ r.attempt >= claims[m] + 1
        /\ Has(state, m) /\ ~Live(state.messages[m]) /\ state.messages[m].status # "acked"
        /\ \A n \in Msg : Has(mem[c], n) => mem[c].messages[n].attempt >= claims[n]
    BY <1>1, <2>3 DEF FreshCopy
  <2>5. \A n \in Msg \ {m} : \/ mem[c].messages[n] = state.messages[n]
                             \/ ~Has(mem[c], n) /\ n \in dead
    BY <1>1, <2>3 DEF FreshCopy, Differs, Settling
  <2>n. /\ state.count \in Nat /\ mem[c].count \in Nat /\ token[c] \in Nat
        /\ r.attempt \in Nat
    BY <1>t, <1>3 DEF TypeOK, State, Rec
  <2>6. claims[m] < MaxAttempts /\ m \notin dead
    <3>1. claims[m] < MaxAttempts
      BY <1>t, <1>3, <2>4, <2>n
    <3>2. m \in dead => claims[m] >= MaxAttempts
      BY DEF IInv, FileInv
    <3> QED BY <1>t, <3>1, <3>2
  <2>7. \A d \in Call \ {c} : (d \in stale \/ (Working(d) /\ state' # state)) => d \in stale'
    BY DEF WriteState
  <2>8. state.count <= state'.count
    BY <1>1, <2>4, <2>n
  <2>9. AttemptsKept'
    <3> SUFFICES ASSUME NEW n \in Msg
                 PROVE  /\ claims'[n] <= MaxAttempts
                        /\ \/ n \in dead
                           \/ Has(state', n) /\ claims'[n] <= state'.messages[n].attempt
                           \/ ~Has(state', n) /\ claims'[n] = 0
      BY DEF AttemptsKept, Has
    <3>1. CASE n = m
      BY <1>t, <1>1, <1>3, <2>4, <2>6, <2>n, <3>1
    <3>2. CASE n # m
      BY <1>t, <1>1, <2>1, <2>5, <3>2 DEF Calm, AttemptsKept, Has
    <3> QED BY <3>1, <3>2
  <2>10. ASSUME NEW d \in Call, Entitled(d) PROVE msg[d] \in Msg /\ msg[d] # m /\ OwnFile(d)
    <3>1. OwnFile(d) /\ d \notin expired
      BY <2>1, <2>10 DEF Calm, CalmCall, Entitled
    <3>2. msg[d] # m
      BY <2>4, <3>1 DEF OwnFile, ClaimIn, Live
    <3>3. msg[d] \in Msg
      BY <1>t, <2>10 DEF IInv, TypeOK, CallInv, MsgInv, Entitled, Owns
    <3> QED BY <3>1, <3>2, <3>3
  <2>11. ASSUME NEW d \in Call \ {c}
         PROVE  /\ Owns(d) => OnlyToken(state, d)'
                /\ Entitled(d) => OwnFile(d)'
    <3>1. SameCall(d) /\ CalmCall(d) /\ token[d] \in Nat
      BY <1>t, <2>1 DEF Calm, TypeOK
    <3>2. ASSUME Owns(d) PROVE OnlyToken(state', d)
      <4>1. token[d] <= state.count /\ OnlyToken(state, d)
        BY <3>1, <3>2 DEF CalmCall
      <4>2. r.fence # token[d]
        BY <1>3, <2>4, <2>n, <3>1, <4>1
      <4> QED BY <1>1, <2>5, <4>1, <4>2 DEF OnlyToken, Has
    <3>3. OnlyToken(state', d) => OnlyToken(state, d)'
      BY <3>1 DEF OnlyToken, Has, SameCall
    <3>4. Entitled(d) => OwnFile(d)'
      <4> SUFFICES ASSUME Entitled(d) PROVE OwnFile(d)'
        OBVIOUS
      <4>1. msg[d] \in Msg \ {m} /\ OwnFile(d) /\ msg'[d] = msg[d]
        BY <2>10, <3>1 DEF SameCall, Untouched
      <4>2. state'.messages[msg[d]] = state.messages[msg[d]]
        BY <1>1, <2>5, <4>1 DEF OwnFile
      <4> QED BY <4>1, <4>2 DEF OwnFile, ClaimIn, Has
    <3> QED BY <3>2, <3>3, <3>4
  <2>12. CalmCall(c)'
    <3>1. token'[c] <= state'.count
      BY <1>1, <1>3, <2>n
    <3>2. OnlyToken(state, c)'
      <4> SUFFICES ASSUME NEW n \in Msg, Has(mem[c], n), mem[c].messages[n].fence = token[c]
                   PROVE  mem[c].messages[n].claim = c
        BY <1>1 DEF OnlyToken, Has
      <4>1. CASE n = m
        BY <1>3, <4>1 DEF ClaimIn
      <4>2. CASE n # m
        <5>1. Has(state, n) /\ state.messages[n].fence = token[c]
          BY <2>5, <4>2 DEF Has
        <5>2. state.messages[n].fence <= state.count
          BY <5>1 DEF IInv, FileInv, Sound, Has
        <5> QED BY <1>3, <2>4, <2>n, <5>1, <5>2
      <4> QED BY <4>1, <4>2
    <3>3. OwnFile(c)'
      BY <1>1, <1>3, <2>6 DEF OwnFile, ClaimIn, Has
    <3> QED BY <1>1, <3>1, <3>2, <3>3 DEF CalmCall
  <2>13. ASSUME NEW d \in Call \ {c} PROVE CalmPair(c, d)'
    <3>1. /\ SameCall(d) /\ CalmCall(d) /\ CallInv(d) /\ (Copy(d)' <=> Copy(d))
          /\ (Entitled(d)' <=> Entitled(d)) /\ mem[d] \in State
      BY <1>t, <2>1, SamePlace DEF Calm, IInv, TypeOK
    <3>2. ASSUME Copy(d) PROVE OnlyToken(mem[d], c) /\ Behind(mem[d], c)
      <4>1. mem[d].count <= state.count /\ mem[d].count \in Nat
        BY <3>1, <3>2 DEF CalmCall, State
      <4>2. \A n \in Msg : Has(mem[d], n) =>
              mem[d].messages[n].fence <= mem[d].count /\ mem[d].messages[n].fence \in Nat
        BY <3>1 DEF CallInv, MemInv, Sound, Has, State, Rec
      <4>3. OnlyToken(mem[d], c)
        BY <1>3, <2>4, <2>n, <4>1, <4>2 DEF OnlyToken
      <4>4. Has(mem[d], m) =>
              mem[d].messages[m].attempt <= claims[m] /\ mem[d].messages[m].attempt \in Nat
        BY <1>t, <3>1, <3>2 DEF Copy, CallInv, MemInv, Counted, Has, State, Rec
      <4> QED BY <1>t, <2>6, <4>3, <4>4 DEF Behind
    <3>3. at[d] = "bury" => msg[d] # m
      BY <1>t, <2>6, <3>1 DEF CallInv, MsgInv
    <3>4. Entitled(d) => msg[d] # m
      BY <2>10
    <3>5. OnlyToken(mem[d], c) => OnlyToken(mem[d], c)'
      BY <3>1 DEF OnlyToken, Has, SameCall, Untouched
    <3>6. Behind(mem[d], c) => Behind(mem[d], c)'
      BY <3>1 DEF Behind, ClaimIn, Has, SameCall, Untouched
    <3> QED BY <3>1, <3>2, <3>3, <3>4, <3>5, <3>6 DEF CalmPair, SameCall, Untouched
  <2> QED BY <1>t, <1>1, <1>4, <2>1, <2>7, <2>8, <2>9, <2>11, <2>12, <2>13, WriteCalm
<1> QED BY <1>2, <1>5 DEF CalmInv

LEMMA WriteStep ==
  ASSUME IInv, CalmInv, TypeOK', NEW c \in Call, Operation(c), Writes(c)
  PROVE  CalmInv'
<1>t. TypeOK
  BY DEF IInv
<1>1. CASE Recover(c)
  BY <1>1, RecoverCalm
<1>o. \A d \in Call \ {c} : Untouched(d)
  BY <1>t, OthersUntouched
<1>2. CASE Save(c)
  <2>1. /\ WriteState(c, mem[c]) /\ at[c] = "save" /\ mem'[c] = NoState /\ op' = op
        /\ msg' = msg /\ token' = token /\ UNCHANGED <<expired, dead, acks>>
    BY <1>t, <1>2 DEF Save, Rest, journals, TypeOK
  <2>2. \A d \in Call \ {c} : SameCall(d)
    BY <1>o, <2>1 DEF SameCall
  <2>3. CASE op[c] = "claim" /\ msg[c] # NoMsg
    <3>1. Claiming(c) /\ at'[c] = "check" /\ claims' = [claims EXCEPT ![msg[c]] = @ + 1]
      BY <1>t, <1>2, <2>1, <2>3 DEF Save, Claiming, Goto, TypeOK
    <3> QED BY <2>1, <2>2, <3>1, ClaimWrite
  <2>4. CASE ~(op[c] = "claim" /\ msg[c] # NoMsg)
    <3>1. Copy(c) /\ at'[c] = "done" /\ claims' = claims
      BY <1>t, <1>2, <2>1, <2>4 DEF Save, Copy, Working, Claiming, Goto, TypeOK
    <3> QED BY <2>1, <2>2, <3>1, LastWrite
  <2> QED BY <2>3, <2>4
<1>3. CASE NoClaim(c) /\ KindOf[c] = "dispatchOne"
  <2>1. /\ WriteState(c, mem[c]) /\ at[c] = "decide" /\ mem'[c] = NoState
        /\ at'[c] = "done" /\ msg' = msg /\ token' = token
        /\ UNCHANGED <<expired, dead, acks, claims>>
    BY <1>t, <1>3 DEF NoClaim, Goto, Rest, Counts, journals, TypeOK
  <2>2. Copy(c) /\ \A d \in Call \ {c} : SameCall(d)
    BY <1>o, <2>1 DEF SameCall, Copy, Working, Claiming
  <2> QED BY <2>1, <2>2, LastWrite
<1> QED BY <1>1, <1>2, <1>3 DEF Writes

\* Steps of the environment: a claim expires, or a process dies.
LEMMA QuietStep ==
  ASSUME IInv, CalmInv, UNCHANGED <<state, claims, clobbered, dead, acks>>,
         expired \subseteq expired',
         \A d \in Call : \/ SameCall(d) /\ (d \in stale' <=> d \in stale)
                         \/ at'[d] = "done" /\ mem'[d] = NoState
  PROVE  CalmInv'
<1>1. ASSUME NEW d \in Call
      PROVE  LET same == SameCall(d) /\ (d \in stale' <=> d \in stale)
             IN  /\ Owns(d)' => Owns(d) /\ same
                 /\ Entitled(d)' => Entitled(d)
                 /\ Unsaved(d)' => Unsaved(d) /\ same
                 /\ Claiming(d)' => Claiming(d) /\ same
                 /\ Copy(d)' => Copy(d) /\ same
                 /\ Fresh(d)' => Fresh(d) /\ same
                 /\ same => (Claiming(d)' <=> Claiming(d)) /\ (Settling(d)' <=> Settling(d))
                 /\ at'[d] # "done" => same
                 /\ ~same => \A e \in Call : ~Names(mem'[d], e)
                 /\ same => mem'[d] = mem[d]
  BY DEF SameCall, Untouched, Owns, Entitled, Unsaved, Claiming, Copy, Fresh, Settling,
         Working, Delivering, NoState, Names, Has
<1> DEFINE Same(d) == SameCall(d) /\ (d \in stale' <=> d \in stale)
<1>2. ClaimInv'
  <2>1. ASSUME NEW d \in Call PROVE Knows(d)'
    <3>1. Knows(d) /\ (Names(state, d)' <=> Names(state, d))
      BY DEF CalmInv, ClaimInv, Names, Has
    <3>2. CASE Same(d)
      <4>1. OwnClaim(d) => OwnClaim(d)'
        BY <3>2 DEF OwnClaim, ClaimIn, Has, SameCall, Untouched
      <4> QED BY <1>1, <3>1, <3>2, <4>1 DEF Knows, SameCall, Untouched, Has
    <3>3. CASE ~Same(d)
      BY <1>1, <3>3 DEF Knows
    <3> QED BY <3>2, <3>3
  <2>2. ASSUME NEW c \in Call, NEW d \in Call PROVE NotNamed(c, d)'
    <3>1. NotNamed(c, d) /\ (Names(mem[d], c)' <=> Names(mem'[d], c))
      BY DEF CalmInv, ClaimInv, Names, Has
    <3> QED BY <1>1, <3>1 DEF NotNamed
  <2> QED BY <2>1, <2>2 DEF ClaimInv
<1>3. ASSUME ~clobbered PROVE Calm'
  <2>1. Calm
    BY <1>3 DEF CalmInv
  <2>2. AttemptsKept'
    BY <2>1 DEF Calm, AttemptsKept, Has
  <2>3. ASSUME NEW d \in Call PROVE CalmCall(d)'
    <3>1. CalmCall(d)
      BY <2>1 DEF Calm
    <3>2. CASE Same(d)
      <4>1. \A m \in Msg : Differs(d, m) => Differs(d, m)'
        BY <1>1, <3>2 DEF Differs, Parted, SameCall, Untouched, Has, ClaimIn
      <4>2. \A m \in Msg : ~Live(state.messages[m]) => ~Live(state.messages[m])'
        BY DEF Live
      <4>3. FreshCopy(d) => FreshCopy(d)'
        BY <1>1, <3>2, <4>1, <4>2 DEF FreshCopy, SameCall, Untouched, Has, Live
      <4>4. OnlyToken(state, d) => OnlyToken(state, d)'
        BY <3>2 DEF OnlyToken, Has, SameCall
      <4>5. OwnFile(d) => OwnFile(d)'
        BY <3>2 DEF OwnFile, ClaimIn, Has, SameCall, Untouched
      <4> QED BY <1>1, <3>1, <3>2, <4>3, <4>4, <4>5 DEF CalmCall, SameCall, Untouched
    <3>3. CASE ~Same(d)
      <4>1. ~Fresh(d)' /\ ~Copy(d)' /\ ~Owns(d)' /\ ~Entitled(d)'
        BY <1>1, <3>3 DEF Entitled
      <4> QED BY <4>1 DEF CalmCall
    <3> QED BY <3>2, <3>3
  <2>4. ASSUME NEW c \in Call, NEW d \in Call PROVE CalmPair(c, d)'
    <3>1. CalmPair(c, d)
      BY <2>1 DEF Calm
    <3>2. CASE ~Owns(c)'
      BY <3>2 DEF CalmPair, Entitled
    <3>3. CASE Owns(c)'
      <4>1. Same(c) /\ Owns(c)
        BY <1>1, <3>3
      <4>2. /\ Copy(d)' /\ OnlyToken(mem[d], c) => OnlyToken(mem[d], c)'
            /\ Copy(d)' /\ Behind(mem[d], c) => Behind(mem[d], c)'
        BY <1>1, <4>1 DEF OnlyToken, Behind, ClaimIn, Has, SameCall, Untouched
      <4>3. at'[d] = "bury" => at[d] = "bury" /\ msg'[d] = msg[d]
        BY <1>1 DEF SameCall, Untouched
      <4>4. Entitled(d)' => msg'[d] = msg[d]
        BY <1>1 DEF SameCall, Untouched, Entitled
      <4> QED BY <1>1, <3>1, <4>1, <4>2, <4>3, <4>4 DEF CalmPair, SameCall, Untouched
    <3> QED BY <3>2, <3>3
  <2> QED BY <2>2, <2>3, <2>4 DEF Calm
<1> QED BY <1>2, <1>3 DEF CalmInv

LEMMA InitCalm == Init => CalmInv
<1> SUFFICES ASSUME Init PROVE CalmInv
  OBVIOUS
<1>0. \A c \in Call : at[c] = "load" /\ op[c] \in {"append", "claim"} /\ mem[c] = NoState
  BY DEF Init
<1>1. \A c \in Call : /\ ~Owns(c) /\ ~Entitled(c) /\ ~Claiming(c) /\ ~Copy(c) /\ ~Fresh(c)
                      /\ at[c] # "bury"
  BY <1>0 DEF Owns, Entitled, Claiming, Copy, Fresh, Working, Delivering
<1>2. \A c \in Call : ~Names(NoState, c)
  BY DEF Names, Has, NoState
<1>3. state = NoState
  BY DEF Init
<1>4. ClaimInv
  BY <1>0, <1>1, <1>2, <1>3 DEF ClaimInv, Knows, NotNamed
<1>5. AttemptsKept
  BY MessageAssumption DEF AttemptsKept, Init, Has, NoState, MessageAssumption
<1> QED BY <1>1, <1>4, <1>5 DEF CalmInv, Calm, CalmCall, CalmPair

LEMMA CalmNext == IInv /\ CalmInv /\ [Next]_vars => CalmInv'
<1> SUFFICES ASSUME IInv, CalmInv, [Next]_vars PROVE CalmInv'
  OBVIOUS
<1>1. TypeOK'
  BY TypeStep
<1>2. ASSUME NEW c \in Call, Operation(c) \/ Delivery(c) PROVE CalmInv'
  <2>1. CASE Writes(c)
    <3>1. Operation(c)
      BY <2>1 DEF Writes, Operation
    <3> QED BY <1>1, <2>1, <3>1, WriteStep
  <2> QED BY <1>2, <2>1, LocalStep
<1>3. ASSUME NEW c \in Call, Expire(c) PROVE CalmInv'
  <2>1. /\ UNCHANGED <<state, claims, clobbered, dead, acks>> /\ expired \subseteq expired'
        /\ \A d \in Call : SameCall(d) /\ (d \in stale' <=> d \in stale)
    BY <1>3 DEF Expire, files, journals, local, history, SameCall, Untouched
  <2> QED BY <2>1, QuietStep
<1>4. ASSUME NEW p \in Proc, Crash(p) PROVE CalmInv'
  <2>1. UNCHANGED <<state, claims, clobbered, dead, acks>> /\ expired \subseteq expired'
    BY <1>4 DEF Crash, files, journals, Counts
  <2>2. ASSUME NEW d \in Call
        PROVE  \/ SameCall(d) /\ (d \in stale' <=> d \in stale)
               \/ at'[d] = "done" /\ mem'[d] = NoState
    BY <1>4 DEF Crash, SameCall, Untouched
  <2> QED BY <2>1, <2>2, QuietStep
<1>5. CASE UNCHANGED vars
  <2>1. /\ UNCHANGED <<state, claims, clobbered, dead, acks>> /\ expired \subseteq expired'
        /\ \A d \in Call : SameCall(d) /\ (d \in stale' <=> d \in stale)
    BY <1>5 DEF vars, files, journals, local, history, SameCall, Untouched
  <2> QED BY <2>1, QuietStep
<1> QED BY <1>2, <1>3, <1>4, <1>5 DEF Next

-----------------------------------------------------------------------------
\* Every start follows a saved claim that has not been started yet.

Pending(m) == {c \in Call : at[c] \in {"check", "start"} /\ msg[c] = m}

StartsCounted == \A m \in Msg :
  IsFiniteSet(Pending(m)) /\ starts[m] + Cardinality(Pending(m)) <= claims[m]

\* The calls of one message about to start it, before and after a step.
LEMMA PendingMoves ==
  ASSUME NEW m \in Msg, IsFiniteSet(Pending(m)), TypeOK, TypeOK',
         starts[m] + Cardinality(Pending(m)) <= claims[m],
         \/ /\ Pending(m)' \subseteq Pending(m)
            /\ starts'[m] = starts[m] /\ claims[m] <= claims'[m]
         \/ \E c : /\ Pending(m)' \subseteq Pending(m) \cup {c}
                   /\ starts'[m] = starts[m] /\ claims'[m] = claims[m] + 1
         \/ \E c : /\ Pending(m)' \subseteq Pending(m) \ {c} /\ c \in Pending(m)
                   /\ starts'[m] = starts[m] + 1 /\ claims'[m] = claims[m]
  PROVE  IsFiniteSet(Pending(m)') /\ starts'[m] + Cardinality(Pending(m)') <= claims'[m]
<1>1. /\ starts[m] \in Nat /\ claims[m] \in Nat /\ starts'[m] \in Nat /\ claims'[m] \in Nat
      /\ Cardinality(Pending(m)) \in Nat
  BY FS_CardinalityType DEF TypeOK
<1>2. CASE /\ Pending(m)' \subseteq Pending(m)
           /\ starts'[m] = starts[m] /\ claims[m] <= claims'[m]
  <2>1. IsFiniteSet(Pending(m)') /\ Cardinality(Pending(m)') <= Cardinality(Pending(m))
    BY <1>2, FS_Subset
  <2>2. Cardinality(Pending(m)') \in Nat
    BY <2>1, FS_CardinalityType
  <2> QED BY <1>1, <1>2, <2>1, <2>2
<1>3. ASSUME NEW c, Pending(m)' \subseteq Pending(m) \cup {c}, starts'[m] = starts[m],
             claims'[m] = claims[m] + 1
      PROVE  IsFiniteSet(Pending(m)') /\ starts'[m] + Cardinality(Pending(m)') <= claims'[m]
  <2>a. /\ IsFiniteSet(Pending(m) \cup {c})
        /\ Cardinality(Pending(m) \cup {c}) =
             IF c \in Pending(m) THEN Cardinality(Pending(m)) ELSE Cardinality(Pending(m)) + 1
    BY FS_AddElement
  <2>1. /\ IsFiniteSet(Pending(m) \cup {c})
        /\ Cardinality(Pending(m) \cup {c}) <= Cardinality(Pending(m)) + 1
    BY <1>1, <2>a
  <2>2. /\ IsFiniteSet(Pending(m)')
        /\ Cardinality(Pending(m)') <= Cardinality(Pending(m) \cup {c})
    BY <1>3, <2>1, FS_Subset
  <2>3. Cardinality(Pending(m)') \in Nat /\ Cardinality(Pending(m) \cup {c}) \in Nat
    BY <2>1, <2>2, FS_CardinalityType
  <2> QED BY <1>1, <1>3, <2>1, <2>2, <2>3
<1>4. ASSUME NEW c, Pending(m)' \subseteq Pending(m) \ {c}, c \in Pending(m),
             starts'[m] = starts[m] + 1, claims'[m] = claims[m]
      PROVE  IsFiniteSet(Pending(m)') /\ starts'[m] + Cardinality(Pending(m)') <= claims'[m]
  <2>1. /\ IsFiniteSet(Pending(m) \ {c})
        /\ Cardinality(Pending(m) \ {c}) = Cardinality(Pending(m)) - 1
    BY <1>4, FS_RemoveElement
  <2>2. /\ IsFiniteSet(Pending(m)')
        /\ Cardinality(Pending(m)') <= Cardinality(Pending(m) \ {c})
    BY <1>4, <2>1, FS_Subset
  <2>3. Cardinality(Pending(m)') \in Nat
    BY <2>2, FS_CardinalityType
  <2> QED BY <1>1, <1>4, <2>1, <2>2, <2>3
<1> QED BY <1>2, <1>3, <1>4

LEMMA StartsStep ==
  ASSUME IInv, StartsCounted, [Next]_vars
  PROVE  StartsCounted'
<1>t. TypeOK /\ TypeOK'
  BY TypeStep DEF IInv
<1> SUFFICES ASSUME NEW m \in Msg
             PROVE  IsFiniteSet(Pending(m)') /\ starts'[m] + Cardinality(Pending(m)') <= claims'[m]
  BY DEF StartsCounted, Pending
<1>0. IsFiniteSet(Pending(m)) /\ starts[m] + Cardinality(Pending(m)) <= claims[m]
  BY DEF StartsCounted
<1>e. claims[m] <= claims[m]
  BY <1>t DEF TypeOK
<1>1. ASSUME NEW c \in Call, Operation(c) \/ Delivery(c), ~Save(c), ~Start(c)
      PROVE  /\ Pending(m)' \subseteq Pending(m)
             /\ starts' = starts /\ claims' = claims
  <2>1. \A d \in Call \ {c} : Untouched(d)
    BY <1>t, <1>1, OthersUntouched
  <2>2. /\ starts' = starts /\ claims' = claims
        /\ at'[c] \in {"check", "start"} => at[c] = "check" /\ msg'[c] = msg[c]
    <3> USE <1>t DEF TypeOK, Goto, Switch, Return, Rest, Counts, journals, files, local, history
    <3>1. CASE Load(c) \/ Recover(c)
      BY <3>1 DEF Load, Recover
    <3>2. CASE Append(c)
      BY <3>2 DEF Append
    <3>3. CASE Claim(c) \/ Condemn(c) \/ NoClaim(c)
      BY <3>3 DEF Claim, Condemn, NoClaim
    <3>4. CASE Bury(c) \/ RemoveLease(c)
      BY <3>4 DEF Bury, RemoveLease
    <3>5. CASE Check(c) \/ Recheck(c)
      BY <3>5 DEF Check, Recheck
    <3>6. CASE Handle(c) \/ HandlerThrows(c) \/ Applied(c)
      BY <3>6 DEF Handle, HandlerThrows, Applied
    <3>7. CASE Ack(c)
      BY <3>7 DEF Ack
    <3>8. CASE Nack(c)
      BY <3>8 DEF Nack
    <3> QED BY <1>1, <3>1, <3>2, <3>3, <3>4, <3>5, <3>6, <3>7, <3>8 DEF Operation, Delivery
  <2> QED BY <2>1, <2>2 DEF Pending, Untouched
<1>2. ASSUME NEW c \in Call, Save(c)
      PROVE  /\ starts' = starts
             /\ \/ Pending(m)' \subseteq Pending(m) \cup {c} /\ claims'[m] = claims[m] + 1
                \/ Pending(m)' \subseteq Pending(m) /\ claims'[m] = claims[m]
  <2>1. \A d \in Call \ {c} : Untouched(d)
    BY <1>t, <1>2, OthersUntouched DEF Operation
  <2>2. /\ starts' = starts /\ msg' = msg
        /\ \/ at'[c] = "check" /\ claims' = [claims EXCEPT ![msg[c]] = @ + 1]
           \/ at'[c] = "done" /\ claims' = claims
    BY <1>t, <1>2 DEF Save, Goto, TypeOK
  <2> QED BY <1>t, <2>1, <2>2 DEF Pending, Untouched, TypeOK
<1>3. ASSUME NEW c \in Call, Start(c)
      PROVE  /\ claims' = claims
             /\ \/ /\ Pending(m)' \subseteq Pending(m) \ {c} /\ c \in Pending(m)
                   /\ starts'[m] = starts[m] + 1
                \/ Pending(m)' \subseteq Pending(m) /\ starts'[m] = starts[m]
  <2>1. \A d \in Call \ {c} : Untouched(d)
    BY <1>t, <1>3, OthersUntouched DEF Delivery
  <2>2. /\ at[c] = "start" /\ at'[c] = "handle" /\ msg' = msg /\ claims' = claims
        /\ starts' = [starts EXCEPT ![msg[c]] = @ + 1]
    BY <1>t, <1>3 DEF Start, Goto, TypeOK
  <2> QED BY <1>t, <2>1, <2>2 DEF Pending, Untouched, TypeOK
<1>4. ASSUME \/ \E c \in Call : Expire(c)
             \/ \E p \in Proc : Crash(p)
             \/ UNCHANGED vars
      PROVE  Pending(m)' \subseteq Pending(m) /\ starts' = starts /\ claims' = claims
  <2>1. \A d \in Call : at'[d] \in {at[d], "done"} /\ msg'[d] = msg[d]
    BY <1>4 DEF Expire, Crash, vars, files, local, history
  <2>2. starts' = starts /\ claims' = claims
    BY <1>4 DEF Expire, Crash, vars, history, Counts
  <2> QED BY <2>1, <2>2 DEF Pending
<1>5. CASE \E c \in Call : Operation(c) \/ Delivery(c)
  <2>1. PICK c \in Call : Operation(c) \/ Delivery(c)
    BY <1>5
  <2>2. CASE Save(c)
    BY <1>0, <1>e, <1>t, <1>2, <2>2, PendingMoves
  <2>3. CASE Start(c)
    BY <1>0, <1>e, <1>t, <1>3, <2>3, PendingMoves
  <2>4. CASE ~Save(c) /\ ~Start(c)
    BY <1>0, <1>e, <1>t, <1>1, <2>1, <2>4, PendingMoves
  <2> QED BY <2>2, <2>3, <2>4
<1>6. CASE ~ \E c \in Call : Operation(c) \/ Delivery(c)
  <2>1. \/ \E c \in Call : Expire(c)
        \/ \E p \in Proc : Crash(p)
        \/ UNCHANGED vars
    BY <1>6 DEF Next
  <2> QED BY <1>0, <1>e, <1>t, <1>4, <2>1, PendingMoves
<1> QED BY <1>5, <1>6

LEMMA InitStarts == Init => StartsCounted
<1> SUFFICES ASSUME Init, NEW m \in Msg
             PROVE  IsFiniteSet(Pending(m)) /\ starts[m] + Cardinality(Pending(m)) <= claims[m]
  BY DEF StartsCounted
<1>1. Pending(m) = {} /\ starts[m] = 0 /\ claims[m] = 0
  BY DEF Pending, Init
<1> QED BY <1>1, FS_EmptySet

LEMMA CalmInvariant == Spec => [](IInv /\ CalmInv /\ StartsCounted)
<1>1. Init => IInv /\ CalmInv /\ StartsCounted
  BY InitInv, InitCalm, InitStarts
<1>2. IInv /\ CalmInv /\ StartsCounted /\ [Next]_vars => (IInv /\ CalmInv /\ StartsCounted)'
  BY NextInv, CalmNext, StartsStep
<1> QED BY <1>1, <1>2, PTL DEF Spec

\* claimNext and claimById count an attempt before the handler runs: while no old copy
\* has been written back, a handler is not started more often than max_attempts allows,
\* for any crashes, expiries and retries of any number of calls.
THEOREM BudgetHolds == Spec => []BudgetKept
<1>1. IInv /\ CalmInv /\ StartsCounted => BudgetKept
  <2> SUFFICES ASSUME IInv, CalmInv, StartsCounted, ~clobbered, NEW m \in Msg
               PROVE  starts[m] <= MaxAttempts
    BY DEF BudgetKept
  <2>1. claims[m] <= MaxAttempts
    BY DEF CalmInv, Calm, AttemptsKept
  <2>2. IsFiniteSet(Pending(m)) /\ starts[m] + Cardinality(Pending(m)) <= claims[m]
    BY DEF StartsCounted
  <2>3. /\ starts[m] \in Nat /\ claims[m] \in Nat /\ Cardinality(Pending(m)) \in Nat
        /\ MaxAttempts \in Nat
    BY <2>2, FS_CardinalityType, MessageAssumption DEF IInv, TypeOK, MessageAssumption
  <2> QED BY <2>1, <2>2, <2>3
<1> QED BY <1>1, CalmInvariant, PTL

\* A claim that has not expired excludes every other one: while no old copy has been
\* written back, two calls deliver one message only after the lease of one of them has
\* run out, for any number of processes on one state.json.
THEOREM ClaimsExclude == Spec => []ClaimExclusive
<1>1. IInv /\ CalmInv /\ StartsCounted => ClaimExclusive
  BY DEF CalmInv, Calm, CalmPair, Entitled, Owns, ClaimExclusive
<1> QED BY <1>1, CalmInvariant, PTL
=============================================================================
