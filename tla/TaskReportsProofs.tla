-------------------------- MODULE TaskReportsProofs --------------------------
(***************************************************************************)
(* The report log implements EventLog, for any calls in any processes.     *)
(* The argument: while nobody is robbed, the maker of the lock directory   *)
(* is the only call that is inside, so what it saw of the log when it      *)
(* entered still holds when it writes its line.  Readers, who may not ask  *)
(* for the lock, only ever have logs that were whole at some moment.       *)
(***************************************************************************)
EXTENDS TaskReports, MkdirLockProofs, WellFoundedInduction, FiniteSetTheorems

-----------------------------------------------------------------------------
(* The lock.                                                               *)

\* Every step of the reports is one of the lock, or leaves it alone.
LEMMA LockSteps == [Next]_vars => [LockNext]_lockVars
<1> SUFFICES ASSUME [Next]_vars PROVE [LockNext]_lockVars
  OBVIOUS
<1>1. ASSUME NEW c \in Call, CallStep(c) PROVE [LockNext]_lockVars
  BY <1>1 DEF CallStep, Begin, BeginRead, ReadSummary, ReadMeta, LookUp, EndLine, WriteLine,
              Rescan, WriteSummary, WriteMeta, Return, Works, LockNext, LockStep
<1>2. CASE AboutLock
  BY <1>2 DEF AboutLock, LockNext, LockStep
<1>3. ASSUME NEW p \in Proc, Die(p) PROVE [LockNext]_lockVars
  BY <1>3 DEF Die, LockNext
<1>4. CASE UNCHANGED vars
  BY <1>4 DEF vars
<1> QED
  BY <1>1, <1>2, <1>3, <1>4 DEF Next

\* The lock keeps its types, and its holder made the directory.
LEMMA LockHolds == LockInv /\ [Next]_vars => LockInv'
BY LockSteps, TypeStep, HolderStep DEF LockInv

LEMMA InitLockHolds == Init => LockInv
BY InitLock DEF Init

LEMMA AloneInside ==
  ASSUME LockInv, Intact, NEW c \in Call, NEW d \in Call, Inside(c), Inside(d)
  PROVE  c = d
BY DEF LockInv, HolderMadeIt, Intact, Inside, Holds

-----------------------------------------------------------------------------
(* The file.                                                               *)

\* In a log without gaps Latest is the highest number.
LEMMA LatestIs ==
  ASSUME NEW L \in SUBSET Event, NEW n \in Nat, Seqs(L) = 1..n
  PROVE  Latest(L) = n /\ \A e \in L : e.seq <= n
<1> DEFINE P(m) == \A e \in L : e.seq <= m
<1>1. \A e \in L : e.seq \in 1..n
  BY DEF Seqs
<1>2. P(n)
  BY <1>1
<1>3. n \in {0} \cup Seqs(L)
  OBVIOUS
<1>4. \A m \in {0} \cup Seqs(L) : P(m) => m = n
  <2> SUFFICES ASSUME NEW m \in {0} \cup Seqs(L), P(m) PROVE m = n
    OBVIOUS
  <2>1. m \in Nat /\ m <= n
    OBVIOUS
  <2>2. CASE n = 0
    BY <2>1, <2>2
  <2>3. CASE n # 0
    <3>1. n \in Seqs(L)
      BY <2>3
    <3>2. PICK e \in L : e.seq = n
      BY <3>1 DEF Seqs
    <3> QED
      BY <3>2, <2>1
  <2> QED
    BY <2>2, <2>3
<1>5. Latest(L) = CHOOSE m \in {0} \cup Seqs(L) : P(m)
  BY DEF Latest
<1> HIDE DEF P
<1>6. Latest(L) \in {0} \cup Seqs(L) /\ P(Latest(L))
  BY <1>2, <1>3, <1>5
<1> QED
  BY <1>2, <1>4, <1>6 DEF P

LEMMA LeastNumber ==
  ASSUME NEW T \in SUBSET Nat, T # {}
  PROVE  \E x \in T : \A y \in T : x <= y
<1> DEFINE R == {ss \in Nat \X Nat : ss[1] < ss[2]}
<1>1. IsWellFoundedOn(R, Nat)
  BY NatLessThanWellFounded DEF OpToRel
<1>2. \A a, b \in Nat : <<a, b>> \notin R => b <= a
  OBVIOUS
<1> HIDE DEF R
<1>3. \E x \in T : \A y \in T : <<y, x>> \notin R
  BY <1>1, WFMin
<1> QED
  BY <1>2, <1>3

\* Numbers with a bound have a highest one.
LEMMA HighestNumber ==
  ASSUME NEW S \in SUBSET Nat, NEW b \in Nat, \A n \in S : n <= b
  PROVE  \E m \in {0} \cup S : \A n \in S : n <= m
<1> DEFINE T == {m \in Nat : \A n \in S : n <= m}
<1>1. PICK m \in T : \A y \in T : m <= y
  <2>1. T \in SUBSET Nat /\ b \in T
    OBVIOUS
  <2> HIDE DEF T
  <2> QED
    BY <2>1, LeastNumber
<1>2. m \in {0} \cup S
  <2> SUFFICES ASSUME m # 0, m \notin S PROVE FALSE
    OBVIOUS
  <2>1. m - 1 \in T
    OBVIOUS
  <2> QED
    BY <2>1, <1>1
<1> QED
  BY <1>1, <1>2

\* The log is finite at every time: its numbers have a bound.
Bounded(L) == \E b \in Nat : \A e \in L : e.seq <= b

LEMMA LatestType ==
  ASSUME NEW L \in SUBSET Event, Bounded(L)
  PROVE  Latest(L) \in Nat
<1>1. PICK b \in Nat : \A e \in L : e.seq <= b
  BY DEF Bounded
<1>2. Seqs(L) \in SUBSET Nat /\ \A n \in Seqs(L) : n <= b
  BY <1>1 DEF Seqs, Event
<1>3. PICK m \in {0} \cup Seqs(L) : \A n \in Seqs(L) : n <= m
  BY <1>2, HighestNumber
<1>4. \A e \in L : e.seq \in Seqs(L)
  BY DEF Seqs
<1>5. \A e \in L : e.seq <= m
  BY <1>3, <1>4
<1> DEFINE P(n) == \A e \in L : e.seq <= n
<1>6. Latest(L) = CHOOSE n \in {0} \cup Seqs(L) : P(n)
  BY DEF Latest
<1>7. P(m)
  BY <1>5
<1> HIDE DEF P
<1>8. Latest(L) \in {0} \cup Seqs(L)
  BY <1>3, <1>6, <1>7
<1> QED
  BY <1>2, <1>8

LEMMA BoundedAdd ==
  ASSUME NEW L \in SUBSET Event, Bounded(L), NEW e \in Event
  PROVE  Bounded(L \cup {e})
<1>1. PICK b \in Nat : \A d \in L : d.seq <= b
  BY DEF Bounded
<1>2. CASE e.seq <= b
  BY <1>1, <1>2 DEF Bounded
<1>3. CASE ~(e.seq <= b)
  <2>1. e.seq \in Nat /\ b <= e.seq /\ \A d \in L : d.seq \in Nat
    BY <1>3 DEF Event
  <2>2. \A d \in L \cup {e} : d.seq <= e.seq
    BY <2>1, <1>1
  <2> QED
    BY <2>1, <2>2 DEF Bounded
<1> QED
  BY <1>2, <1>3

\* What a write to a finished line makes of the file.
LEMMA WrittenLog ==
  ASSUME NEW f \in EventFile, NEW e \in Event, f.tail = "end",
         NEW how \in {"end", "torn", "whole"}
  PROVE  /\ Written(f, e, how) \in EventFile
         /\ how = "torn" \/ Clashes(f.log, e) =>
              Written(f, e, how).log = f.log /\ Written(f, e, how).dropped = f.dropped + 1
         /\ ~(how = "torn" \/ Clashes(f.log, e)) =>
              Written(f, e, how).log = f.log \cup {e} /\ Written(f, e, how).dropped = f.dropped
<1>1. CASE how = "torn" \/ Clashes(f.log, e)
  <2>1. Written(f, e, how) = [f EXCEPT !.dropped = @ + 1, !.tail = how]
    BY <1>1 DEF Written
  <2>2. f.dropped + 1 \in Nat
    BY DEF EventFile
  <2> DEFINE n == f.dropped + 1
  <2>3. [f EXCEPT !.dropped = @ + 1, !.tail = how] = [f EXCEPT !.dropped = n, !.tail = how]
    OBVIOUS
  <2> HIDE DEF n
  <2>4. [f EXCEPT !.dropped = n, !.tail = how] \in EventFile
    BY <2>2 DEF EventFile, n
  <2>5. [f EXCEPT !.dropped = n, !.tail = how].log = f.log
    BY DEF EventFile
  <2>6. [f EXCEPT !.dropped = n, !.tail = how].dropped = n
    BY DEF EventFile
  <2> QED
    BY <1>1, <2>1, <2>3, <2>4, <2>5, <2>6 DEF n
<1>2. CASE ~(how = "torn" \/ Clashes(f.log, e))
  <2> DEFINE l == IF how = "whole" THEN e ELSE NoEvent
  <2>1. Written(f, e, how) = [f EXCEPT !.log = @ \cup {e}, !.tail = how, !.last = l]
    BY <1>2 DEF Written
  <2>2. l \in Event \cup {NoEvent}
    OBVIOUS
  <2> HIDE DEF l
  <2>3. Written(f, e, how) \in EventFile
    BY <2>1, <2>2 DEF EventFile
  <2>4. Written(f, e, how).log = f.log \cup {e} /\ Written(f, e, how).dropped = f.dropped
    BY <2>1 DEF EventFile
  <2> QED
    BY <1>2, <2>3, <2>4
<1> QED
  BY <1>1, <1>2

\* A write never leaves the type, whatever line it finds.
LEMMA WrittenType ==
  ASSUME NEW f \in EventFile, NEW e \in Event, NEW how \in {"end", "torn", "whole"},
         Bounded(f.log)
  PROVE  Written(f, e, how) \in EventFile /\ Bounded(Written(f, e, how).log)
<1>0. f.log \in SUBSET Event
  BY DEF EventFile
<1>1. CASE f.tail = "end"
  <2>1. Written(f, e, how) \in EventFile /\ Written(f, e, how).log \in {f.log, f.log \cup {e}}
    BY <1>1, WrittenLog
  <2> QED
    BY <2>1, <1>0, BoundedAdd
<1>2. CASE f.tail # "end"
  <2> DEFINE d == IF f.last = NoEvent THEN f.dropped ELSE f.dropped + 1
             t == IF how = "end" THEN "end" ELSE "torn"
             L == f.log \ {f.last}
  <2>1. Written(f, e, how) = [log |-> L, dropped |-> d, tail |-> t, last |-> NoEvent]
    BY <1>2 DEF Written
  <2>2. d \in Nat /\ t \in {"end", "torn", "whole"} /\ L \in SUBSET Event
    BY <1>0 DEF EventFile
  <2>3. Bounded(L)
    BY DEF Bounded
  <2> HIDE DEF d, t, L
  <2> QED
    BY <2>1, <2>2, <2>3 DEF EventFile
<1> QED
  BY <1>1, <1>2

LEMMA NewlineLog ==
  ASSUME NEW f \in EventFile
  PROVE  /\ WithNewline(f) \in EventFile
         /\ WithNewline(f).log = f.log /\ WithNewline(f).tail = "end"
         /\ WithNewline(f).dropped = f.dropped
BY DEF WithNewline, EventFile

LEMMA ScannedType ==
  ASSUME NEW f \in EventFile PROVE Scanned(f) \in Scan /\ Scanned(f).log = f.log
BY DEF Scanned, EventFile, Scan

-----------------------------------------------------------------------------
(* Types.                                                                  *)

\* Where a call works on the log it has the lock, and an append that is past
\* its look at the log has an event.
Working == {"newline", "line", "rescan", "summary", "meta"}
WorkInv ==
  \A c \in Call :
    /\ pc[c] \in Working => at[c] = "in"
    /\ pc[c] \in {"newline", "line"} => /\ KindOf[c] = "append" /\ event[c] \in Event
                                        /\ event[c].by = c
    /\ KindOf[c] = "append" /\ pc[c] \in Working \cup {"leave"} => event[c] \in Event

TypeInv == TypeOK /\ Bounded(file.log) /\ WorkInv

\* A step of the lock moves a call that is not in its operation, or leaves it.
LEMMA AcquireAt ==
  ASSUME LockTypeOK, NEW c \in Call, Acquire(c)
  PROVE  at[c] # "in" /\ \A d \in Call : d # c => at'[d] = at[d]
BY DEF Acquire, Mkdir, WriteOwner, Judge, Break, Moves, LockTypeOK

LEMMA LeaveAt ==
  ASSUME LockTypeOK, NEW c \in Call, Leave(c) \/ Remove(c)
  PROVE  \A d \in Call : d # c => at'[d] = at[d]
BY DEF Leave, Remove, Moves, LockTypeOK

LEMMA EnterAt ==
  ASSUME LockTypeOK, NEW c \in Call, Enter(c)
  PROVE  at[c] # "in" /\ \A d \in Call : d # c => at'[d] = at[d]
BY DEF Enter, Moves, LockTypeOK

\* Where a call works is disturbed by its own steps only.
LEMMA WorkStep == TypeInv /\ [Next]_vars => WorkInv'
<1> SUFFICES ASSUME TypeInv, [Next]_vars PROVE WorkInv'
  OBVIOUS
<1> USE DEF TypeInv, TypeOK, WorkInv, Working, At
<1>e. Latest(file.log) \in Nat
  BY LatestType DEF EventFile
<1>1. ASSUME NEW c \in Call, Begin(c) PROVE WorkInv'
  BY <1>1, EnterAt DEF Begin, Goto
<1>2. ASSUME NEW c \in Call, BeginRead(c) PROVE WorkInv'
  BY <1>2 DEF BeginRead, Goto, lockVars
<1>3. ASSUME NEW c \in Call, ReadSummary(c) PROVE WorkInv'
  BY <1>3 DEF ReadSummary, Goto, lockVars
<1>4. ASSUME NEW c \in Call, ReadMeta(c) PROVE WorkInv'
  <2>1. CASE Enter(c) /\ Goto(c, "meta?", "scan") /\ event' = event
    BY <2>1, EnterAt DEF Goto
  <2>2. CASE Goto(c, "meta?", "done") /\ UNCHANGED lockVars /\ event' = event
    BY <2>2 DEF Goto, lockVars
  <2> QED
    BY <1>4, <2>1, <2>2 DEF ReadMeta
<1>5. ASSUME NEW c \in Call, LookUp(c) PROVE WorkInv'
  <2>1. at' = at /\ at[c] = "in"
    BY <1>5 DEF LookUp, Works, lockVars
  <2>2. CASE KindOf[c] # "append" /\ Goto(c, "scan", "summary") /\ event' = event
    BY <2>1, <2>2 DEF Goto
  <2>3. ASSUME NEW e \in Repeated(c, file.log), Goto(c, "scan", "summary"),
               event' = [event EXCEPT ![c] = e]
        PROVE  WorkInv'
    <3>1. e \in Event
      BY DEF Repeated, EventFile
    <3> QED
      BY <2>1, <2>3, <3>1 DEF Goto
  <2>4. ASSUME KindOf[c] = "append", Goto(c, "scan", "newline"),
               event' = [event EXCEPT ![c] = [seq |-> NextSequence(file), by |-> c]]
        PROVE  WorkInv'
    <3> DEFINE new == [seq |-> NextSequence(file), by |-> c]
    <3>1. new \in Event /\ new.by = c
      BY <1>e DEF Event, NextSequence
    <3> HIDE DEF new
    <3>2. event' = [event EXCEPT ![c] = new]
      BY <2>4 DEF new
    <3> QED
      BY <2>1, <2>4, <3>1, <3>2 DEF Goto
  <2> QED
    BY <1>5, <2>2, <2>3, <2>4 DEF LookUp, Works
<1>6. ASSUME NEW c \in Call, EndLine(c) \/ WriteLine(c) \/ Rescan(c) \/ WriteSummary(c) \/ WriteMeta(c)
      PROVE WorkInv'
  <2>1. /\ at' = at /\ at[c] = "in" /\ event' = event
        /\ Goto(c, "newline", "line") \/ Goto(c, "line", "rescan") \/ Goto(c, "rescan", "summary")
           \/ Goto(c, "summary", "meta") \/ Goto(c, "meta", "leave")
    BY <1>6 DEF EndLine, WriteLine, Rescan, WriteSummary, WriteMeta, Works, lockVars
  <2> QED
    BY <2>1 DEF Goto
<1>11. ASSUME NEW c \in Call, Return(c) PROVE WorkInv'
  <2>1. \A d \in Call : d # c => at'[d] = at[d]
    BY <1>11, LeaveAt DEF Return
  <2> QED
    BY <1>11, <2>1 DEF Return, Goto
<1>12. CASE AboutLock
  <2>1. \A d \in Call : pc[d] \in Working => at'[d] = at[d]
    <3>1. CASE Age
      BY <3>1 DEF Age
    <3>2. ASSUME NEW c \in Call, Acquire(c) PROVE \A d \in Call : pc[d] \in Working => at'[d] = at[d]
      BY <3>2, AcquireAt
    <3>3. ASSUME NEW c \in Call, pc[c] = "leave", Leave(c)
          PROVE  \A d \in Call : pc[d] \in Working => at'[d] = at[d]
      BY <3>3, LeaveAt
    <3> QED
      BY <1>12, <3>1, <3>2, <3>3 DEF AboutLock
  <2> QED
    BY <1>12, <2>1 DEF AboutLock, local
<1>13. ASSUME NEW p \in Proc, Die(p) PROVE WorkInv'
  BY <1>13 DEF Die, Crash, local
<1>14. CASE UNCHANGED vars
  BY <1>14 DEF vars, local, lockVars
<1> QED
  BY <1>1, <1>2, <1>3, <1>4, <1>5, <1>6, <1>11, <1>12, <1>13, <1>14 DEF Next, CallStep

\* The file keeps its type, and its numbers a bound.
LEMMA FileStep == TypeInv /\ [Next]_vars => file' \in EventFile /\ Bounded(file'.log)
<1> SUFFICES ASSUME TypeInv, [Next]_vars PROVE file' \in EventFile /\ Bounded(file'.log)
  OBVIOUS
<1> USE DEF TypeInv, TypeOK
<1>1. ASSUME NEW c \in Call, EndLine(c) PROVE file' \in EventFile /\ Bounded(file'.log)
  BY <1>1, NewlineLog DEF EndLine
<1>2. ASSUME NEW c \in Call, WriteLine(c) PROVE file' \in EventFile /\ Bounded(file'.log)
  BY <1>2, WrittenType DEF WriteLine, Works, Goto, WorkInv
<1>3. ASSUME NEW p \in Proc, Die(p) PROVE file' \in EventFile /\ Bounded(file'.log)
  BY <1>3, WrittenType DEF Die, WorkInv
<1>4. CASE UNCHANGED file
  BY <1>4
<1> QED
  BY <1>1, <1>2, <1>3, <1>4
     DEF Next, CallStep, vars, Begin, BeginRead, ReadSummary, ReadMeta, LookUp, Rescan,
         WriteSummary, WriteMeta, Return, AboutLock

LEMMA ReportTypeStep == TypeInv /\ [Next]_vars => TypeInv'
<1> SUFFICES ASSUME TypeInv, [Next]_vars PROVE TypeOK'
  BY WorkStep, FileStep DEF TypeInv
<1>l. LockTypeOK'
  BY LockSteps, TypeStep DEF TypeInv, TypeOK
<1>f. file' \in EventFile
  BY FileStep
<1>s. Scanned(file) \in Scan /\ Scanned(file).log = file.log
  BY ScannedType DEF TypeInv, TypeOK
<1>e. file.log \in SUBSET Event /\ Latest(file.log) \in Nat
  BY LatestType DEF TypeInv, TypeOK, EventFile
<1> USE DEF TypeInv, TypeOK, Goto, Works, At
<1>1. ASSUME NEW c \in Call, Begin(c) PROVE TypeOK'
  BY <1>1, <1>l DEF Begin
<1>2. ASSUME NEW c \in Call, BeginRead(c) PROVE TypeOK'
  BY <1>2, <1>l, <1>s DEF BeginRead
<1>3. ASSUME NEW c \in Call, ReadSummary(c) PROVE TypeOK'
  BY <1>3, <1>l DEF ReadSummary
<1>4. ASSUME NEW c \in Call, ReadMeta(c) PROVE TypeOK'
  <2>1. pc' \in [Call -> At]
    BY <1>4 DEF ReadMeta
  <2>2. answer' \in [Call -> [scan : Scan, summary : (SUBSET Event) \cup {NoFile}]]
    <3> DEFINE new == [scan |-> seen[c], summary |-> got[c]]
    <3>1. new \in [scan : Scan, summary : (SUBSET Event) \cup {NoFile}]
      OBVIOUS
    <3>2. answer' = answer \/ answer' = [answer EXCEPT ![c] = new]
      BY <1>4 DEF ReadMeta
    <3> HIDE DEF new
    <3> QED
      BY <3>1, <3>2
  <2> QED
    BY <1>4, <1>l, <2>1, <2>2 DEF ReadMeta
<1>5. ASSUME NEW c \in Call, LookUp(c) PROVE TypeOK'
  <2>1. event' \in [Call -> Event \cup {NoEvent}]
    <3> DEFINE new == [seq |-> NextSequence(file), by |-> c]
    <3>1. new \in Event /\ Repeated(c, file.log) \subseteq Event
      BY <1>e DEF Event, NextSequence, Repeated
    <3>2. event' = event \/ \E e \in Repeated(c, file.log) \cup {new} : event' = [event EXCEPT ![c] = e]
      BY <1>5 DEF LookUp
    <3> HIDE DEF new
    <3> QED
      BY <3>1, <3>2
  <2>2. pc' \in [Call -> At] /\ seen' \in [Call -> Scan]
    BY <1>5, <1>s DEF LookUp
  <2> QED
    BY <1>5, <1>l, <2>1, <2>2 DEF LookUp
<1>6. ASSUME NEW c \in Call, EndLine(c) PROVE TypeOK'
  BY <1>6, <1>l, <1>f DEF EndLine
<1>7. ASSUME NEW c \in Call, WriteLine(c) PROVE TypeOK'
  BY <1>7, <1>l, <1>f DEF WriteLine
<1>8. ASSUME NEW c \in Call, Rescan(c) PROVE TypeOK'
  BY <1>8, <1>l, <1>s DEF Rescan
<1>9. ASSUME NEW c \in Call, WriteSummary(c) PROVE TypeOK'
  BY <1>9, <1>l DEF WriteSummary, Scan
<1>10. ASSUME NEW c \in Call, WriteMeta(c) PROVE TypeOK'
  BY <1>10, <1>l DEF WriteMeta
<1>11. ASSUME NEW c \in Call, Return(c) PROVE TypeOK'
  <2>1. acked' \in SUBSET Event
    BY <1>11 DEF Return, WorkInv
  <2>2. answer' \in [Call -> [scan : Scan, summary : (SUBSET Event) \cup {NoFile}]]
    <3> DEFINE new == [scan |-> seen[c], summary |-> seen[c].log]
    <3>1. new \in [scan : Scan, summary : (SUBSET Event) \cup {NoFile}]
      BY DEF Scan
    <3>2. answer' = answer \/ answer' = [answer EXCEPT ![c] = new]
      BY <1>11 DEF Return
    <3> HIDE DEF new
    <3> QED
      BY <3>1, <3>2
  <2>3. pc' \in [Call -> At]
    BY <1>11 DEF Return
  <2> QED
    BY <1>11, <1>l, <2>1, <2>2, <2>3 DEF Return
<1>12. CASE AboutLock
  BY <1>12, <1>l DEF AboutLock, local
<1>13. ASSUME NEW p \in Proc, Die(p) PROVE TypeOK'
  BY <1>13, <1>l, <1>f DEF Die, local
<1>14. CASE UNCHANGED vars
  BY <1>14, <1>l DEF vars, local
<1> QED
  BY <1>1, <1>2, <1>3, <1>4, <1>5, <1>6, <1>7, <1>8, <1>9, <1>10, <1>11, <1>12, <1>13, <1>14
     DEF Next, CallStep

LEMMA InitTypes == Init => TypeInv
<1> SUFFICES ASSUME Init PROVE TypeInv
  OBVIOUS
<1>1. LockTypeOK
  BY InitLockHolds DEF LockInv
<1>2. file \in EventFile /\ Bounded(file.log)
  BY DEF Init, EventFile, Bounded
<1>3. EmptyScan \in Scan
  BY DEF EmptyScan, Scan
<1>4. NoAnswer \in [scan : Scan, summary : (SUBSET Event) \cup {NoFile}]
  BY <1>3 DEF NoAnswer
<1>5. WorkInv
  BY DEF Init, WorkInv, Working
<1> QED
  BY <1>1, <1>2, <1>3, <1>4, <1>5 DEF Init, TypeInv, TypeOK, At

\* Every variable of the report log keeps its type, whoever loses its lock.
THEOREM ReportTypes == Spec => []TypeOK
<1>1. TypeInv /\ [Next]_vars => TypeInv'
  BY ReportTypeStep
<1>2. TypeInv => TypeOK
  BY DEF TypeInv
<1> QED
  BY InitTypes, <1>1, <1>2, PTL DEF Spec

-----------------------------------------------------------------------------
(* The log.                                                                *)

\* What a live call that is about to write knows of the log, and that an
\* append finds its event there afterwards.
CallInv(c) ==
  /\ pc[c] \in {"newline", "line"} =>
       Log!IsLatest(file.log, event[c].seq - 1) /\ KeyOf[c] \notin Keys(file.log)
  /\ pc[c] = "line" => file.tail = "end"
  /\ KindOf[c] = "append" /\ pc[c] \in {"rescan", "summary", "meta", "leave"} =>
       event[c] \in file.log

Gapless(L) == \E n \in Nat : Seqs(L) = 1..n

LogInv ==
  Intact =>
    /\ Gapless(file.log)
    /\ acked \subseteq file.log
    /\ file.dropped <= Cardinality(Proc \ up)
    /\ \A c \in Call : Alive(c) => CallInv(c)

ReportInv == TypeInv /\ LockInv /\ LogInv

LEMMA StolenGrows == LockTypeOK /\ [Next]_vars => stolen \subseteq stolen'
<1>1. LockTypeOK /\ [LockNext]_lockVars => stolen \subseteq stolen'
  BY DEF LockNext, LockStep, Acquire, Enter, Mkdir, WriteOwner, Judge, Break, Leave, Remove,
         Robs, Age, Crash, lockVars
<1> QED
  BY <1>1, LockSteps

LEMMA UpShrinks == [Next]_vars => up' \subseteq up
<1>1. [LockNext]_lockVars => up' \subseteq up
  BY DEF LockNext, LockStep, Acquire, Enter, Mkdir, WriteOwner, Judge, Break, Leave, Remove,
         Age, Crash, lockVars
<1> QED
  BY <1>1, LockSteps

\* The one that works on the log is alone.
LEMMA AloneAtWork ==
  ASSUME ReportInv, Intact, NEW c \in Call, NEW d \in Call, Alive(c), Alive(d),
         pc[c] \in Working, pc[d] \in Working
  PROVE  c = d
BY AloneInside DEF ReportInv, TypeInv, WorkInv, Inside

\* The next number after the latest leaves no gap.
LEMMA GaplessAdd ==
  ASSUME NEW L \in SUBSET Event, Gapless(L), NEW e \in Event, Log!IsLatest(L, e.seq - 1)
  PROVE  Gapless(L \cup {e}) /\ e.seq \notin Seqs(L)
<1>1. PICK n \in Nat : Seqs(L) = 1..n
  BY DEF Gapless
<1>2. e.seq \in Nat /\ e.seq - 1 \in Nat
  BY DEF Event, Log!IsLatest
<1>3. \A m \in 1..n : m <= e.seq - 1
  BY <1>1 DEF Log!IsLatest, Seqs
<1>4. e.seq - 1 = 0 \/ e.seq - 1 \in 1..n
  BY <1>1 DEF Log!IsLatest, Log!Seqs, Seqs
<1>5. e.seq - 1 = n
  BY <1>2, <1>3, <1>4
<1>6. Seqs(L \cup {e}) = 1..n \cup {e.seq}
  BY <1>1 DEF Seqs
<1>7. 1..n \cup {e.seq} = 1..(n + 1)
  BY <1>2, <1>5
<1>8. n + 1 \in Nat /\ e.seq \notin 1..n
  BY <1>2, <1>5
<1> QED
  BY <1>1, <1>6, <1>7, <1>8 DEF Gapless

\* What the write of one line does, cut short or not.
LEMMA WriteGrows ==
  ASSUME ReportInv, Intact, NEW c \in Call, Alive(c), pc[c] = "line",
         NEW how \in {"end", "torn", "whole"}
  PROVE  LET f == Written(file, event[c], how)
         IN  IF how = "torn"
               THEN f.log = file.log /\ f.dropped = file.dropped + 1
               ELSE f.log = file.log \cup {event[c]} /\ f.dropped = file.dropped
<1>1. /\ event[c] \in Event /\ event[c].by = c /\ file.tail = "end" /\ file \in EventFile
      /\ Log!IsLatest(file.log, event[c].seq - 1) /\ KeyOf[c] \notin Keys(file.log)
      /\ Gapless(file.log) /\ file.log \in SUBSET Event
  BY DEF ReportInv, TypeInv, TypeOK, WorkInv, LogInv, CallInv, EventFile
<1>2. ~Clashes(file.log, event[c])
  BY <1>1, GaplessAdd DEF Clashes
<1> QED
  BY <1>1, <1>2, WrittenLog

\* A step that leaves the file and the acknowledged events alone, and moves no
\* call to where it would have to know more.
LEMMA QuietStep ==
  ASSUME ReportInv, [Next]_vars, UNCHANGED <<file, acked>>,
         \A d \in Call : \/ pc'[d] = pc[d] /\ event'[d] = event[d]
                         \/ pc'[d] \in {"start", "files", "meta?", "scan", "done"}
                         \/ event'[d] = event[d] /\ pc[d] \in {"rescan", "summary", "meta"}
                            /\ pc'[d] \in {"summary", "meta", "leave"}
                         \/ pc'[d] = "summary" /\ (KindOf[d] = "append" => event'[d] \in file.log)
  PROVE  LogInv'
<1> SUFFICES ASSUME Intact' PROVE LogInv'
  BY DEF LogInv
<1>1. Intact
  BY StolenGrows DEF Intact, ReportInv, TypeInv, TypeOK
<1>2. up' \subseteq up
  BY UpShrinks
<1>3. file.dropped <= Cardinality(Proc \ up')
  <2>1. file.dropped <= Cardinality(Proc \ up)
    BY <1>1 DEF ReportInv, LogInv
  <2>2. Proc \ up \subseteq Proc \ up' /\ IsFiniteSet(Proc \ up')
    BY <1>2, FS_Subset, ReportAssumption
  <2>3. Cardinality(Proc \ up) <= Cardinality(Proc \ up')
    BY <2>2, FS_Subset
  <2>4. Cardinality(Proc \ up) \in Nat /\ Cardinality(Proc \ up') \in Nat
    BY <2>2, FS_CardinalityType, FS_Subset
  <2>5. file.dropped \in Nat
    BY DEF ReportInv, TypeInv, TypeOK, EventFile
  <2> QED
    BY <2>1, <2>3, <2>4, <2>5
<1>4. ASSUME NEW d \in Call, Alive(d)' PROVE CallInv(d)'
  <2>1. CallInv(d)
    BY <1>1, <1>2, <1>4 DEF ReportInv, LogInv, Alive
  <2> QED
    BY <2>1 DEF CallInv, Log!IsLatest, Log!Seqs, Keys
<1> QED
  BY <1>1, <1>3, <1>4 DEF LogInv, ReportInv, Gapless

\* A line is written, by a call that goes on or by one that dies.
LEMMA LogWrite ==
  ASSUME ReportInv, [Next]_vars, NEW c \in Call, Alive(c), pc[c] = "line",
         NEW how \in {"end", "torn", "whole"},
         file' = Written(file, event[c], how), UNCHANGED <<event, acked>>,
         \/ how = "end" /\ Goto(c, "line", "rescan") /\ up' = up
         \/ how # "end" /\ pc' = pc /\ up' = up \ {ProcOf[c]}
  PROVE  LogInv'
<1> SUFFICES ASSUME Intact' PROVE LogInv'
  BY DEF LogInv
<1>1. Intact
  BY StolenGrows DEF Intact, ReportInv, TypeInv, TypeOK
<1>2. up' \subseteq up
  BY UpShrinks
<1>3. /\ event[c] \in Event /\ file \in EventFile /\ file.log \in SUBSET Event
      /\ Gapless(file.log) /\ acked \subseteq file.log /\ file.dropped <= Cardinality(Proc \ up)
      /\ Log!IsLatest(file.log, event[c].seq - 1) /\ file.dropped \in Nat
  BY <1>1 DEF ReportInv, TypeInv, TypeOK, WorkInv, LogInv, CallInv, EventFile
<1>4. file'.log \in {file.log, file.log \cup {event[c]}}
  BY <1>1, WriteGrows
<1>5. Gapless(file'.log) /\ acked' \subseteq file'.log
  BY <1>3, <1>4, GaplessAdd
<1>6. file'.dropped <= Cardinality(Proc \ up')
  <2>1. IsFiniteSet(Proc \ up)
    BY FS_Subset, ReportAssumption
  <2>2. Cardinality(Proc \ up) \in Nat
    BY <2>1, FS_CardinalityType
  <2>3. ASSUME how # "end", up' = up \ {ProcOf[c]}
        PROVE  Cardinality(Proc \ up') = Cardinality(Proc \ up) + 1
    <3>1. Proc \ up' = (Proc \ up) \cup {ProcOf[c]} /\ ProcOf[c] \notin Proc \ up
      BY <2>3, LockAssumption DEF Alive
    <3> QED
      BY <3>1, <2>1, FS_AddElement
  <2>4. file'.dropped \in {file.dropped, file.dropped + 1}
        /\ (how = "end" => file'.dropped = file.dropped)
    BY <1>1, WriteGrows
  <2>5. CASE how = "end"
    <3>1. up' = up
      BY <2>5
    <3> QED
      BY <2>4, <2>5, <3>1, <1>3
  <2>6. CASE how # "end"
    BY <2>2, <2>3, <2>4, <2>6, <1>3
  <2> QED
    BY <2>5, <2>6
<1>7. ASSUME NEW d \in Call, Alive(d)' PROVE CallInv(d)'
  <2>1. Alive(d) /\ CallInv(d)
    BY <1>1, <1>2, <1>7 DEF ReportInv, LogInv, Alive
  <2>2. CASE d = c
    <3>1. how = "end" /\ pc'[c] = "rescan"
      BY <2>2, <1>7 DEF Goto, Alive, ReportInv, TypeInv, TypeOK
    <3>2. event[c] \in file'.log
      BY <3>1, <1>1, WriteGrows
    <3> QED
      BY <2>2, <3>1, <3>2 DEF CallInv
  <2>3. CASE d # c
    <3>1. pc[d] \notin Working /\ pc'[d] = pc[d]
      BY <2>1, <2>3, <1>1, AloneAtWork DEF Working, Goto, ReportInv, TypeInv, TypeOK
    <3> QED
      BY <2>1, <3>1, <1>4 DEF CallInv, Working
  <2> QED
    BY <2>2, <2>3
<1> QED
  BY <1>5, <1>6, <1>7 DEF LogInv

\* The look at the log: what a new event needs to know of it.
LEMMA LookUpLog ==
  ASSUME ReportInv, Intact, NEW c \in Call, Repeated(c, file.log) = {}
  PROVE  /\ Log!IsLatest(file.log, NextSequence(file) - 1)
         /\ KeyOf[c] \notin Keys(file.log)
<1>1. file.log \in SUBSET Event /\ Gapless(file.log)
  BY DEF ReportInv, TypeInv, TypeOK, EventFile, LogInv
<1>2. PICK n \in Nat : Seqs(file.log) = 1..n
  BY <1>1 DEF Gapless
<1>3. NextSequence(file) - 1 = n /\ \A e \in file.log : e.seq <= n
  BY <1>1, <1>2, LatestIs DEF NextSequence
<1>4. n = 0 \/ n \in Seqs(file.log)
  BY <1>2
<1> QED
  BY <1>3, <1>4 DEF Log!IsLatest, Log!Seqs, Seqs, Repeated, Keys

LEMMA LogStep == ReportInv /\ [Next]_vars => LogInv'
<1> SUFFICES ASSUME ReportInv, [Next]_vars PROVE LogInv'
  OBVIOUS
<1>t. pc \in [Call -> At] /\ event \in [Call -> Event \cup {NoEvent}] /\ file \in EventFile
      /\ file.log \in SUBSET Event
  BY DEF ReportInv, TypeInv, TypeOK, EventFile
<1>1. ASSUME NEW c \in Call,
             Begin(c) \/ BeginRead(c) \/ ReadSummary(c) \/ ReadMeta(c) \/ Rescan(c)
             \/ WriteSummary(c) \/ WriteMeta(c)
      PROVE  LogInv'
  <2>1. UNCHANGED <<file, acked, event>>
    BY <1>1 DEF Begin, BeginRead, ReadSummary, ReadMeta, Rescan, WriteSummary, WriteMeta
  <2>2. \/ \E to \in {"scan", "files", "meta?", "done"} : pc' = [pc EXCEPT ![c] = to]
        \/ \E to \in {"summary", "meta", "leave"} :
             pc' = [pc EXCEPT ![c] = to] /\ pc[c] \in {"rescan", "summary", "meta"}
    BY <1>1 DEF Begin, BeginRead, ReadSummary, ReadMeta, Rescan, WriteSummary, WriteMeta, Works, Goto
  <2> QED
    BY <2>1, <2>2, <1>t, QuietStep
<1>2. ASSUME NEW c \in Call, LookUp(c) PROVE LogInv'
  <2>0. UNCHANGED <<file, acked>> /\ Alive(c)
    BY <1>2 DEF LookUp, Works
  <2>1. CASE KindOf[c] # "append" /\ Works(c, "scan", "summary") /\ event' = event
    BY <2>0, <2>1, <1>t, QuietStep DEF Works, Goto
  <2>2. ASSUME NEW e \in Repeated(c, file.log), event' = [event EXCEPT ![c] = e],
               Works(c, "scan", "summary")
        PROVE  LogInv'
    BY <2>0, <2>2, <1>t, QuietStep DEF Works, Goto, Repeated
  <2>3. ASSUME Repeated(c, file.log) = {}, Works(c, "scan", "newline"),
               event' = [event EXCEPT ![c] = [seq |-> NextSequence(file), by |-> c]]
        PROVE  LogInv'
    <3> SUFFICES ASSUME Intact' PROVE LogInv'
      BY DEF LogInv
    <3>1. Intact /\ up' = up
      BY <2>3 DEF Works, lockVars, Intact
    <3>2. ASSUME NEW d \in Call, Alive(d)' PROVE CallInv(d)'
      <4>1. CallInv(d)
        BY <3>1, <3>2 DEF ReportInv, LogInv, Alive
      <4>2. CASE d = c
        <5>1. event'[c].seq = NextSequence(file) /\ pc'[c] = "newline"
          BY <2>3, <1>t DEF Works, Goto
        <5> QED
          BY <5>1, <4>2, <3>1, <2>3, <2>0, LookUpLog DEF CallInv
      <4>3. CASE d # c
        <5>1. event'[d] = event[d] /\ pc'[d] = pc[d]
          BY <2>3, <4>3, <1>t DEF Works, Goto
        <5> QED
          BY <5>1, <4>1, <2>0 DEF CallInv
      <4> QED
        BY <4>2, <4>3
    <3> QED
      BY <3>1, <3>2, <2>0 DEF ReportInv, LogInv
  <2> QED
    BY <1>2, <2>1, <2>2, <2>3 DEF LookUp
<1>3. ASSUME NEW c \in Call, EndLine(c) PROVE LogInv'
  <2> SUFFICES ASSUME Intact' PROVE LogInv'
    BY DEF LogInv
  <2>1. Intact /\ up' = up /\ UNCHANGED <<event, acked>>
    BY <1>3 DEF EndLine, Works, lockVars, Intact
  <2>2. file'.log = file.log /\ file'.tail = "end" /\ file'.dropped = file.dropped
    BY <1>3, <1>t, NewlineLog DEF EndLine
  <2>3. ASSUME NEW d \in Call, Alive(d)' PROVE CallInv(d)'
    <3>1. CallInv(d)
      BY <2>1, <2>3 DEF ReportInv, LogInv, Alive
    <3>2. pc'[d] = pc[d] \/ (pc[d] = "newline" /\ pc'[d] = "line")
      BY <1>3, <1>t DEF EndLine, Works, Goto
    <3> QED
      BY <3>1, <3>2, <2>1, <2>2 DEF CallInv
  <2> QED
    BY <2>1, <2>2, <2>3 DEF ReportInv, LogInv
<1>4. ASSUME NEW c \in Call, WriteLine(c) PROVE LogInv'
  BY <1>4, LogWrite DEF WriteLine, Works, Goto, lockVars
<1>5. ASSUME NEW c \in Call, Return(c) PROVE LogInv'
  <2> SUFFICES ASSUME Intact' PROVE LogInv'
    BY DEF LogInv
  <2>1. Intact
    BY StolenGrows DEF Intact, ReportInv, TypeInv, TypeOK
  <2>2. UNCHANGED <<file, event>> /\ pc' = [pc EXCEPT ![c] = "done"] /\ pc[c] = "leave"
        /\ Alive(c) /\ up' = up
    BY <1>5 DEF Return, Goto, Leave, Remove, Moves
  <2>3. KindOf[c] = "append" => event[c] \in file.log
    BY <2>1, <2>2 DEF ReportInv, LogInv, CallInv
  <2>4. acked' \subseteq file.log
    BY <1>5, <2>1, <2>3 DEF Return, ReportInv, LogInv
  <2>5. ASSUME NEW d \in Call, Alive(d)' PROVE CallInv(d)'
    <3>1. CallInv(d)
      BY <2>1, <2>2, <2>5 DEF ReportInv, LogInv, Alive
    <3> QED
      BY <3>1, <2>2, <1>t DEF CallInv
  <2> QED
    BY <2>1, <2>2, <2>4, <2>5 DEF ReportInv, LogInv
<1>6. CASE AboutLock
  BY <1>6, QuietStep DEF AboutLock, local
<1>7. ASSUME NEW p \in Proc, Die(p) PROVE LogInv'
  <2>1. CASE UNCHANGED file
    BY <1>7, <2>1, QuietStep DEF Die, local
  <2>2. ASSUME NEW c \in Call, NEW how \in {"torn", "whole"}, ProcOf[c] = p, pc[c] = "line",
               file' = Written(file, event[c], how)
        PROVE  LogInv'
    BY <1>7, <2>2, LogWrite DEF Die, Crash, Alive, local
  <2> QED
    BY <1>7, <2>1, <2>2 DEF Die
<1>8. CASE UNCHANGED vars
  BY <1>8, QuietStep DEF vars, local
<1> QED
  BY <1>1, <1>2, <1>3, <1>4, <1>5, <1>6, <1>7, <1>8 DEF Next, CallStep

LEMMA ReportStep == ReportInv /\ [Next]_vars => ReportInv'
BY LogStep, ReportTypeStep, LockHolds DEF ReportInv

LEMMA InitReport == Init => ReportInv
<1> SUFFICES ASSUME Init PROVE LogInv
  BY InitTypes, InitLockHolds DEF ReportInv
<1>1. file.log = {} /\ file.dropped = 0 /\ acked = {} /\ \A c \in Call : pc[c] = "start"
  BY DEF Init
<1>2. Seqs(file.log) = 1..0
  BY <1>1 DEF Seqs
<1>3. Cardinality(Proc \ up) \in Nat
  BY FS_Subset, FS_CardinalityType, ReportAssumption
<1>4. Gapless(file.log)
  BY <1>2 DEF Gapless
<1>5. file.dropped <= Cardinality(Proc \ up)
  BY <1>1, <1>3
<1>6. \A c \in Call : CallInv(c)
  BY <1>1 DEF CallInv
<1> QED
  BY <1>1, <1>4, <1>5, <1>6 DEF LogInv

-----------------------------------------------------------------------------
(* What follows.                                                           *)

\* The sequence numbers of the log have no gap while nobody is robbed of the
\* lock, for any calls and crashes.
THEOREM NumbersGapless == Spec => []SequenceGapless
<1>1. ReportInv => SequenceGapless
  BY LatestIs DEF ReportInv, TypeInv, TypeOK, EventFile, LogInv, Gapless, SequenceGapless
<1> QED
  BY InitReport, ReportStep, <1>1, PTL DEF Spec

\* A scan drops no more lines than processes died in a write, while nobody is robbed
\* of the lock.
THEOREM LinesKept == Spec => []NoLineWasted
<1>1. ReportInv => NoLineWasted
  BY DEF ReportInv, LogInv, NoLineWasted
<1> QED
  BY InitReport, ReportStep, <1>1, PTL DEF Spec

\* A step that writes a line appends the event of the call to the log.
LEMMA WriteMaps ==
  ASSUME ReportInv, Intact, Intact', NEW c \in Call, Alive(c), pc[c] = "line",
         NEW how \in {"end", "torn", "whole"},
         file' = Written(file, event[c], how), UNCHANGED acked
  PROVE  Log!Next \/ UNCHANGED Log!logVars
<1>1. CASE how = "torn"
  BY <1>1, WriteGrows DEF Log!logVars
<1>2. CASE how # "torn"
  <2>1. file'.log = file.log \cup {event[c]}
    BY <1>2, WriteGrows
  <2>2. /\ event[c].by = c /\ Log!IsLatest(file.log, event[c].seq - 1)
        /\ KeyOf[c] \notin Keys(file.log)
    BY DEF ReportInv, TypeInv, WorkInv, LogInv, CallInv
  <2>3. Log!Append(c)
    BY <2>1, <2>2 DEF Log!Append, Log!Keys, Keys
  <2> QED
    BY <2>3 DEF Log!Next
<1> QED
  BY <1>1, <1>2

LEMMA StepMaps == ReportInv /\ [Next]_vars => [Log!Next]_(Log!logVars)
<1> SUFFICES ASSUME ReportInv, [Next]_vars PROVE Log!Next \/ UNCHANGED Log!logVars
  OBVIOUS
<1>1. CASE ~Intact'
  BY <1>1 DEF Log!Next, Log!Break, Intact
<1>2. CASE Intact'
  <2>1. Intact
    BY <1>2, StolenGrows DEF Intact, ReportInv, TypeInv, TypeOK
  <2>2. CASE UNCHANGED <<file, acked>>
    BY <1>2, <2>1, <2>2 DEF Log!logVars
  <2>3. ASSUME NEW c \in Call, EndLine(c) PROVE Log!Next \/ UNCHANGED Log!logVars
    <3>1. file'.log = file.log
      BY <2>3, NewlineLog DEF EndLine, ReportInv, TypeInv, TypeOK
    <3> QED
      BY <2>3, <3>1, <1>2, <2>1 DEF EndLine, Log!logVars
  <2>4. ASSUME NEW c \in Call, WriteLine(c) PROVE Log!Next \/ UNCHANGED Log!logVars
    BY <2>4, <1>2, <2>1, WriteMaps DEF WriteLine, Works, Goto
  <2>5. ASSUME NEW c \in Call, Return(c) PROVE Log!Next \/ UNCHANGED Log!logVars
    <3>1. acked \subseteq acked' /\ file' = file
      BY <2>5 DEF Return
    <3>2. acked' \subseteq file.log
      BY <1>2, <3>1, LogStep DEF LogInv
    <3> QED
      BY <3>1, <3>2, <1>2, <2>1 DEF Log!Next, Log!Acknowledge
  <2>6. ASSUME NEW p \in Proc, Die(p) PROVE Log!Next \/ UNCHANGED Log!logVars
    <3>1. acked' = acked
      BY <2>6 DEF Die
    <3>2. ASSUME NEW c \in Call, NEW how \in {"torn", "whole"}, ProcOf[c] = p, pc[c] = "line",
                 file' = Written(file, event[c], how)
          PROVE  Log!Next \/ UNCHANGED Log!logVars
      BY <2>6, <3>1, <3>2, <1>2, <2>1, WriteMaps DEF Die, Crash, Alive
    <3> QED
      BY <2>2, <2>6, <3>1, <3>2 DEF Die
  <2> QED
    BY <2>2, <2>3, <2>4, <2>5, <2>6
       DEF Next, CallStep, vars, Begin, BeginRead, ReadSummary, ReadMeta, LookUp, Rescan,
           WriteSummary, WriteMeta, AboutLock
<1> QED
  BY <1>1, <1>2

\* The report log implements the append-only log of EventLog: events come one
\* at a time, with the next number and a new key, and stay.
THEOREM ReportsImplementLog == Spec => ImplementsLog
<1>1. Init => Log!Init
  BY InitLockHolds DEF Init, Log!Init, Intact, LockInit
<1> QED
  BY InitReport, ReportStep, StepMaps, <1>1, PTL DEF Spec, ImplementsLog, Log!Spec
-----------------------------------------------------------------------------
(* What readers return.  Each of their scans, and each summary.json that   *)
(* was ever written, is the whole log of some moment; as numbers belong to *)
(* one event for good, two of these with the same latest number are the    *)
(* same, and projectionMatchesScan need not compare more.                  *)

\* The whole log, as it was once.
Snapshot(S) == S \subseteq file.log /\ Gapless(S)

NumbersUnique == \A d, e \in file.log : d.seq = e.seq => d = e

ReaderInv(c) ==
  /\ Snapshot(seen[c].log)
  /\ got[c] # NoFile => Snapshot(got[c])
  /\ KindOf[c] = "read" /\ pc[c] # "start" => known[c] \subseteq seen[c].log
  /\ KindOf[c] = "read" /\ pc[c] = "done" =>
       known[c] \subseteq answer[c].scan.log /\ answer[c].summary = answer[c].scan.log

AnswerInv ==
  Intact => /\ NumbersUnique
            /\ summary # NoFile => Snapshot(summary)
            /\ \A c \in Call : ReaderInv(c)

\* A log that stays intact grows at most by an event with a new number.
LEMMA LogGrows ==
  ASSUME ReportInv, [Next]_vars, Intact'
  PROVE  /\ Intact
         /\ \/ file'.log = file.log
            \/ \E e \in Event : e.seq \notin Seqs(file.log) /\ file'.log = file.log \cup {e}
<1>1. Intact
  BY StolenGrows DEF Intact, ReportInv, TypeInv, TypeOK
<1>2. file.log \in SUBSET Event /\ file'.log \in SUBSET Event /\ Gapless(file.log)
  BY <1>1, FileStep DEF ReportInv, TypeInv, TypeOK, EventFile, LogInv
<1>3. CASE UNCHANGED Log!logVars
  BY <1>1, <1>3 DEF Log!logVars
<1>4. CASE Log!Next
  <2>1. ~Log!Break
    BY DEF Log!Break
  <2>2. ASSUME NEW w \in Call, Log!Append(w)
        PROVE  \E e \in Event : e.seq \notin Seqs(file.log) /\ file'.log = file.log \cup {e}
    BY <2>2, <1>2, GaplessAdd DEF Log!Append
  <2>3. CASE Log!Acknowledge
    BY <1>1, <2>3 DEF Log!Acknowledge
  <2> QED
    BY <1>1, <1>4, <2>1, <2>2, <2>3 DEF Log!Next
<1> QED
  BY <1>3, <1>4, StepMaps

\* Two snapshots with the same latest number are the same.
LEMMA SnapshotsAgree ==
  ASSUME file.log \in SUBSET Event, NumbersUnique,
         NEW S, NEW T, Snapshot(S), Snapshot(T), Latest(S) = Latest(T)
  PROVE  S = T
<1>1. S \in SUBSET Event /\ T \in SUBSET Event
  BY DEF Snapshot
<1>2. PICK m \in Nat : Seqs(S) = 1..m
  BY DEF Snapshot, Gapless
<1>3. PICK n \in Nat : Seqs(T) = 1..n
  BY DEF Snapshot, Gapless
<1>4. m = n
  BY <1>1, <1>2, <1>3, LatestIs
<1>5. Seqs(S) = Seqs(T)
  BY <1>2, <1>3, <1>4
<1>6. ASSUME NEW A \in SUBSET file.log, NEW B \in SUBSET file.log, Seqs(A) = Seqs(B)
      PROVE  A \subseteq B
  <2> SUFFICES ASSUME NEW e \in A PROVE e \in B
    OBVIOUS
  <2>1. e.seq \in Seqs(B)
    BY <1>6 DEF Seqs
  <2>2. PICK d \in B : d.seq = e.seq
    BY <2>1 DEF Seqs
  <2> QED
    BY <2>2 DEF NumbersUnique
<1> QED
  BY <1>5, <1>6 DEF Snapshot

\* What one call knows outlasts the steps that change nothing of it.
LEMMA ReaderStays ==
  ASSUME file.log \subseteq file'.log, NEW c \in Call, ReaderInv(c),
         seen'[c] = seen[c], got'[c] = got[c], known'[c] = known[c], answer'[c] = answer[c],
         pc'[c] = pc[c] \/ KindOf[c] # "read" \/ (pc[c] # "start" /\ pc'[c] # "done")
  PROVE  ReaderInv(c)'
BY DEF ReaderInv, Snapshot, Gapless, Seqs

LEMMA AnswerStep == ReportInv /\ AnswerInv /\ [Next]_vars => AnswerInv'
<1> SUFFICES ASSUME ReportInv, AnswerInv, [Next]_vars, Intact'
             PROVE  AnswerInv'
  BY DEF AnswerInv
<1>t. /\ TypeOK /\ file.log \in SUBSET Event /\ Scanned(file).log = file.log
      /\ acked \subseteq file.log /\ Gapless(file.log) /\ Intact
  BY LogGrows, ScannedType DEF ReportInv, TypeInv, TypeOK, EventFile, LogInv
<1>g. file.log \subseteq file'.log
  BY LogGrows
<1>i. NumbersUnique /\ (summary # NoFile => Snapshot(summary)) /\ \A c \in Call : ReaderInv(c)
  BY <1>t DEF AnswerInv
<1>k. \A c \in Call : KindOf[c] = "read" /\ pc[c] # "start" => known[c] \subseteq file.log
  BY <1>i DEF ReaderInv, Snapshot
<1>1. NumbersUnique'
  <2>1. CASE file'.log = file.log
    BY <1>i, <2>1 DEF NumbersUnique
  <2>2. ASSUME NEW e \in Event, e.seq \notin Seqs(file.log), file'.log = file.log \cup {e}
        PROVE  NumbersUnique'
    BY <1>i, <2>2 DEF NumbersUnique, Seqs
  <2> QED
    BY <2>1, <2>2, LogGrows
<1>2. (summary # NoFile => Snapshot(summary))'
  <2>1. summary' = summary \/ \E c \in Call : summary' = seen[c].log
    BY DEF Next, CallStep, vars, Begin, BeginRead, ReadSummary, ReadMeta, LookUp, EndLine,
           WriteLine, Rescan, WriteSummary, WriteMeta, Return, AboutLock, Die
  <2> QED
    BY <2>1, <1>i, <1>g DEF ReaderInv, Snapshot, Gapless, Seqs
<1>s. ASSUME NEW c \in Call, NEW d \in Call, c # d, CallStep(c) PROVE ReaderInv(d)'
  <2>1. /\ seen'[d] = seen[d] /\ got'[d] = got[d] /\ known'[d] = known[d]
        /\ answer'[d] = answer[d] /\ pc'[d] = pc[d]
    BY <1>s, <1>t DEF CallStep, Begin, BeginRead, ReadSummary, ReadMeta, LookUp, EndLine,
           WriteLine, Rescan, WriteSummary, WriteMeta, Return, Works, Goto, TypeOK
  <2> QED
    BY <2>1, <1>i, <1>g, ReaderStays
<1>3. ASSUME NEW c \in Call, CallStep(c) PROVE ReaderInv(c)'
  <2>1. CASE Begin(c) \/ EndLine(c) \/ WriteLine(c) \/ WriteSummary(c) \/ WriteMeta(c)
    <3>1. /\ seen'[c] = seen[c] /\ got'[c] = got[c] /\ known'[c] = known[c]
          /\ answer'[c] = answer[c]
          /\ KindOf[c] # "read" \/ (pc[c] # "start" /\ pc'[c] # "done")
      BY <2>1, <1>t DEF Begin, EndLine, WriteLine, WriteSummary, WriteMeta, Works, Goto, TypeOK
    <3> QED
      BY <3>1, <1>i, <1>g, ReaderStays
  <2>2. CASE BeginRead(c)
    <3>1. /\ seen'[c].log = file.log /\ got'[c] = got[c] /\ known'[c] = acked
          /\ pc'[c] = "files"
      BY <2>2, <1>t DEF BeginRead, Goto, TypeOK
    <3> QED
      BY <3>1, <1>i, <1>g, <1>t DEF ReaderInv, Snapshot, Gapless, Seqs
  <2>3. CASE ReadSummary(c)
    <3>1. /\ seen'[c] = seen[c] /\ got'[c] = summary /\ known'[c] = known[c]
          /\ pc[c] = "files" /\ pc'[c] = "meta?"
      BY <2>3, <1>t DEF ReadSummary, Goto, TypeOK
    <3> QED
      BY <3>1, <1>i, <1>g, <1>t DEF ReaderInv, Snapshot, Gapless, Seqs
  <2>4. CASE ReadMeta(c)
    <3>1. /\ seen'[c] = seen[c] /\ got'[c] = got[c] /\ known'[c] = known[c]
          /\ pc[c] = "meta?" /\ pc'[c] \in {"scan", "done"}
      BY <2>4, <1>t DEF ReadMeta, Goto, TypeOK
    <3>2. CASE pc'[c] = "scan"
      BY <3>1, <3>2, <1>i, <1>g DEF ReaderInv, Snapshot, Gapless, Seqs
    <3>3. CASE pc'[c] = "done"
      <4>1. /\ Matches(got[c], meta, seen[c])
            /\ answer'[c] = [scan |-> seen[c], summary |-> got[c]]
        BY <2>4, <3>3, <1>t DEF ReadMeta, Goto, TypeOK
      <4>2. got[c] = seen[c].log
        BY <4>1, <1>i, <1>t, SnapshotsAgree DEF Matches, ReaderInv
      <4>3. /\ KindOf[c] = "read" => known'[c] \subseteq answer'[c].scan.log
            /\ answer'[c].summary = answer'[c].scan.log
        BY <3>1, <4>1, <4>2, <1>i DEF ReaderInv
      <4>4. /\ Snapshot(seen[c].log)' /\ (got[c] # NoFile => Snapshot(got[c]))'
            /\ KindOf[c] = "read" => known'[c] \subseteq seen'[c].log
        BY <3>1, <1>i, <1>g DEF ReaderInv, Snapshot, Gapless, Seqs
      <4> QED
        BY <4>3, <4>4 DEF ReaderInv
    <3> QED
      BY <3>1, <3>2, <3>3
  <2>5. CASE LookUp(c) \/ Rescan(c)
    <3>1. /\ seen'[c].log = file.log /\ got'[c] = got[c] /\ known'[c] = known[c]
          /\ pc[c] # "start" /\ pc'[c] # "done"
      BY <2>5, <1>t DEF LookUp, Rescan, Works, Goto, TypeOK
    <3> QED
      BY <3>1, <1>i, <1>k, <1>g, <1>t DEF ReaderInv, Snapshot, Gapless, Seqs
  <2>6. CASE Return(c)
    <3>1. /\ seen'[c] = seen[c] /\ got'[c] = got[c] /\ known'[c] = known[c]
          /\ pc[c] = "leave"
          /\ KindOf[c] = "read" => answer'[c] = [scan |-> seen[c], summary |-> seen[c].log]
      BY <2>6, <1>t DEF Return, Goto, TypeOK
    <3> QED
      BY <3>1, <1>i, <1>g DEF ReaderInv, Snapshot, Gapless, Seqs
  <2> QED
    BY <1>3, <2>1, <2>2, <2>3, <2>4, <2>5, <2>6 DEF CallStep
<1>4. ASSUME UNCHANGED <<local, known>>, NEW d \in Call PROVE ReaderInv(d)'
  BY <1>4, <1>i, <1>g, ReaderStays DEF local
<1>5. \A c \in Call : ReaderInv(c)'
  <2>1. (\E c \in Call : CallStep(c)) \/ UNCHANGED <<local, known>>
    BY DEF Next, AboutLock, Die, vars
  <2> QED
    BY <2>1, <1>s, <1>3, <1>4
<1> QED
  BY <1>1, <1>2, <1>5 DEF AnswerInv

LEMMA InitAnswer == Init => AnswerInv
<1> SUFFICES ASSUME Init PROVE AnswerInv
  OBVIOUS
<1>1. /\ file.log = {} /\ summary = NoFile
      /\ \A c \in Call : pc[c] = "start" /\ got[c] = NoFile /\ seen[c].log = {}
  BY DEF Init, EmptyScan
<1>2. Seqs({}) = 1..0
  BY DEF Seqs
<1>3. Gapless({})
  BY <1>2 DEF Gapless
<1> QED
  BY <1>1, <1>3 DEF AnswerInv, NumbersUnique, ReaderInv, Snapshot

\* What a reader returns has every event that was acknowledged before it began,
\* and the summary that goes with it is of exactly its events, even when it was
\* taken from files that two writers left behind, while nobody is robbed of the lock.
THEOREM AnswersCurrent == Spec => []AnswerCurrent
<1>1. AnswerInv => AnswerCurrent
  BY DEF AnswerInv, ReaderInv, AnswerCurrent
<1> QED
  BY InitReport, ReportStep, InitAnswer, AnswerStep, <1>1, PTL DEF Spec
=============================================================================
