---------------------------- MODULE GoalsProofs ----------------------------
(***************************************************************************)
(* A goal ends once, with the status that its result.json says, whatever   *)
(* calls in whatever processes have been made and have died.  While no     *)
(* resume races and no manager recovers a goal at work, one call, turn or  *)
(* monitor carries the goal: from this it follows that no two turns of it  *)
(* work at once, that its owner is notified once, and that its leases are  *)
(* given back.                                                             *)
(***************************************************************************)
EXTENDS Goals, TLAPS, FiniteSetTheorems

\* A monitor that is not at rest follows the turn of some call.
MonitorFollows == \A p \in Proc : watched[p] = NoCall => pc[p] = "idle"

\* What is being finalized is asked to end in a terminal status.
EndsInTerminal == \A t \in Thread : pc[t] \in {"end", "settle"} => want[t] \in Terminal

\* result.json of a goal that has ended says how; it may be there before.
ResultAgrees == Ended => result = goal.status

GoalInv == TypeOK /\ MonitorFollows /\ EndsInTerminal /\ ResultAgrees

\* What a step may do to the goal, its result and the final notice.
EndKept == Ended => goal'.status = goal.status /\ result' = result

LEMMA StatusTypes ==
  /\ Waiting \subseteq Status /\ Busy \subseteq Status /\ Terminal \subseteq Status
  /\ Terminal \cap (Waiting \cup Busy) = {}
BY DEF Status, Waiting, Busy, Terminal

\* No transition leads out of a terminal status.
LEMMA TerminalStays ==
  ASSUME goal.status \in Terminal, NEW s, CanBe(s)
  PROVE  s = goal.status
<1>1. goal.status \in Status
  BY StatusTypes
<1>2. AllowedTransitions[goal.status] = {}
  BY <1>1 DEF AllowedTransitions, Terminal
<1> QED
  BY <1>2 DEF CanBe

LEMMA NotEnded == ASSUME NEW s, s \notin Terminal, CanBe(s) PROVE ~Ended
BY TerminalStays DEF Ended

LEMMA InitGoal == Init => GoalInv
<1> SUFFICES ASSUME Init PROVE GoalInv
  OBVIOUS
<1> USE GoalAssumption
<1>1. goal \in Goal
  BY DEF Init, Goal, Status, Busy
<1>2. TypeOK
  BY <1>1 DEF Init, TypeOK, At, TurnState, Delivery, Terminal
<1> QED
  BY <1>2 DEF Init, GoalInv, MonitorFollows, EndsInTerminal, ResultAgrees, Ended, Thread,
     Terminal

\* The variables of the deliveries, the flags apart; then the remaining ones.
Deliveries ==
  /\ pending \in SUBSET Delivery /\ claimed \in SUBSET EventKey /\ later \in Nat
  /\ sent \in [Notice -> Nat]

Flags == notified \in BOOLEAN /\ hookError \in BOOLEAN

Others ==
  /\ up \in SUBSET Proc /\ result \in Terminal \cup {"none"}
  /\ kept \in [Proc -> Call \cup {NoCall}] /\ leases \in SUBSET Call
  /\ turn \in [Call -> TurnState] /\ asked \in [Call -> Waiting \cup {"none"}]
  /\ heard \in [Proc -> SUBSET {"ask", "end", "again"}]
  /\ mishap \in SUBSET Mishap

\* The variables that say where threads are.
Control ==
  /\ pc \in [Thread -> At] /\ want \in [Thread -> Status \cup {"none"}]
  /\ watched \in [Proc -> Call \cup {NoCall}]
  /\ MonitorFollows /\ EndsInTerminal

LEMMA ControlStep == GoalInv /\ [Next]_vars => Control'
<1> SUFFICES ASSUME GoalInv, [Next]_vars PROVE Control'
  OBVIOUS
<1>c. /\ Control /\ turn \in [Call -> TurnState]
      /\ goal.status \in Status /\ pending \subseteq Delivery
  BY DEF Control, GoalInv, TypeOK, Goal
<1> USE <1>c, GoalAssumption, StatusTypes DEF Control, MonitorFollows, EndsInTerminal, Asks,
        Goto, At, Thread, AtPc, Home
<1>1. ASSUME NEW c \in Call, Launch(c) PROVE Control'
  BY <1>1 DEF Launch, control, monitors, Terminal, Waiting, Busy
<1>2. ASSUME NEW c \in Call, PrepareFails(c) PROVE Control'
  BY <1>2 DEF PrepareFails, control, monitors, Terminal, Waiting, Busy, Finalize
<1>3. ASSUME NEW c \in Call, Grant(c) PROVE Control'
  BY <1>3 DEF Grant, control, monitors, Terminal, Waiting, Busy
<1>4. ASSUME NEW c \in Call, AdmissionTimesOut(c) PROVE Control'
  BY <1>4 DEF AdmissionTimesOut, control, monitors, Terminal, Waiting, Busy, Finalize
<1>5. ASSUME NEW c \in Call, StartTurn(c) PROVE Control'
  <2>1. UNCHANGED watched /\ (Goto(c, "done") \/ Goto(c, "attach"))
    BY <1>5 DEF StartTurn, monitors
  <2>2. c \in Thread /\ c \notin Proc
    OBVIOUS
  <2> QED
    BY <2>1, <2>2, <1>c
<1>6. ASSUME NEW c \in Call, LaunchFails(c) PROVE Control'
  BY <1>6 DEF LaunchFails, control, monitors, Terminal, Waiting, Busy, Finalize
<1>7. ASSUME NEW c \in Call, Authorize(c) PROVE Control'
  BY <1>7 DEF Authorize, control, monitors, Terminal, Waiting, Busy
<1>8. ASSUME NEW c \in Call, Attach(c) PROVE Control'
  BY <1>8 DEF Attach, control, monitors, Terminal, Waiting, Busy, Follow
<1>9. ASSUME NEW c \in Call, Recover(c) PROVE Control'
  BY <1>9 DEF Recover, control, monitors, Terminal, Waiting, Busy
<1>10. ASSUME NEW c \in Call, RecoverHooks(c) PROVE Control'
  BY <1>10 DEF RecoverHooks, control, monitors, Terminal, Waiting, Busy
<1>11. ASSUME NEW c \in Call, Revalidate(c) PROVE Control'
  BY <1>11 DEF Revalidate, control, monitors, Terminal, Waiting, Busy, Resume
<1>12. ASSUME NEW c \in Call, Restart(c) PROVE Control'
  BY <1>12 DEF Restart, control, monitors, Terminal, Waiting, Busy, Resume
<1>13. ASSUME NEW c \in Call, Rerun(c) PROVE Control'
  BY <1>13 DEF Rerun, control, monitors, Terminal, Waiting, Busy, Resume
<1>14. ASSUME NEW c \in Call, RecoverReads(c) PROVE Control'
  BY <1>14 DEF RecoverReads, control, monitors, Terminal, Waiting, Busy
<1>15. ASSUME NEW c \in Call, Cancel(c) PROVE Control'
  BY <1>15 DEF Cancel, control, monitors, Terminal, Waiting, Busy, Finalize
<1>16. ASSUME NEW c \in Call, ResumeReads(c) PROVE Control'
  BY <1>16 DEF ResumeReads, control, monitors, Terminal, Waiting, Busy
<1>17. ASSUME NEW c \in Call, Ask(c) PROVE Control'
  BY <1>17 DEF Ask, control, monitors, Terminal, Waiting, Busy
<1>18. ASSUME NEW c \in Call, TurnEnds(c) PROVE Control'
  BY <1>18 DEF TurnEnds, control, monitors, Terminal, Waiting, Busy
<1>19. ASSUME NEW p \in Proc, HearAsk(p) PROVE Control'
  BY <1>19 DEF HearAsk, control, monitors, Terminal, Waiting, Busy, Throw, Finalize
<1>20. ASSUME NEW p \in Proc, HearEnd(p) PROVE Control'
  BY <1>20 DEF HearEnd, control, monitors, Terminal, Waiting, Busy, Finalize, TurnState
<1>21. ASSUME NEW p \in Proc, TurnOver(p) PROVE Control'
  BY <1>21 DEF TurnOver, control, monitors, Terminal, Waiting, Busy, Back
<1>22. ASSUME NEW p \in Proc, StopWatching(p) PROVE Control'
  BY <1>22 DEF StopWatching, control, monitors, Terminal, Waiting, Busy
<1>23. ASSUME NEW p \in Proc, Crash(p) PROVE Control'
  BY <1>23 DEF Crash, control, monitors, Terminal, Waiting, Busy, Dies
<1>24. ASSUME NEW t \in Thread, Validate(t) PROVE Control'
  BY <1>24 DEF Validate, control, monitors, Terminal, Waiting, Busy, Back, Throw, Finalize
<1>25. ASSUME NEW t \in Thread, AcceptanceEnds(t) PROVE Control'
  BY <1>25 DEF AcceptanceEnds, control, monitors, Terminal, Waiting, Busy, Finalize
<1>26. ASSUME NEW t \in Thread, AcceptanceWaits(t) PROVE Control'
  BY <1>26 DEF AcceptanceWaits, control, monitors, Terminal, Waiting, Busy, Back
<1>27. ASSUME NEW t \in Thread, Review(t) PROVE Control'
  BY <1>27 DEF Review, control, monitors, Terminal, Waiting, Busy, Back, Finalize
<1>28. ASSUME NEW t \in Thread, Judge(t) PROVE Control'
  BY <1>28 DEF Judge, control, monitors, Terminal, Waiting, Busy, Finalize
<1>29. ASSUME NEW t \in Thread, End(t) PROVE Control'
  BY <1>29 DEF End, control, monitors, Terminal, Waiting, Busy, Back
<1>30. ASSUME NEW t \in Thread, Settle(t) PROVE Control'
  BY <1>30 DEF Settle, control, monitors, Terminal, Waiting, Busy, Back, Finalize
<1>31. ASSUME NEW t \in Thread, SettleTorn(t) PROVE Control'
  BY <1>31 DEF SettleTorn, control, monitors, Terminal, Waiting, Busy, Dies
<1>32. ASSUME NEW d \in pending, Claim(d) PROVE Control'
  BY <1>32 DEF Claim, control, monitors, Terminal, Waiting, Busy
<1>33. ASSUME NEW d \in pending, Deliver(d) PROVE Control'
  BY <1>33 DEF Deliver, control, monitors, Terminal, Waiting, Busy
<1>34. ASSUME NEW d \in pending, Finish(d) PROVE Control'
  BY <1>34 DEF Finish, control, monitors, Terminal, Waiting, Busy
<1>35. CASE UNCHANGED vars
  BY <1>35 DEF vars, control, monitors, Terminal, Waiting, Busy
<1>36. ASSUME NEW c \in Call, AttachFails(c) PROVE Control'
  BY <1>36 DEF AttachFails, Attached, control, monitors, Terminal, Waiting, Busy, Finalize
<1>37. CASE Metadata
  BY <1>37 DEF Metadata, control, monitors, Terminal, Waiting, Busy
<1> QED
  BY <1>1, <1>2, <1>3, <1>4, <1>5, <1>6, <1>7, <1>8, <1>9, <1>10, <1>11, <1>12, <1>13,
     <1>14, <1>15, <1>16, <1>17, <1>18, <1>19, <1>20, <1>21, <1>22, <1>23, <1>24, <1>25,
     <1>26, <1>27, <1>28, <1>29, <1>30, <1>31, <1>32, <1>33, <1>34, <1>35, <1>36, <1>37 DEF Next,
     CallStep, Begin, MonitorStep, EndStep, HookStep

\* What each action makes of the record.
LEMMA LaunchWrites ==
  ASSUME NEW c \in Call, Launch(c)
  PROVE  \/ goal' = goal
         \/ goal' = [goal EXCEPT !.status = "running"]
BY DEF Launch

LEMMA GrantWrites ==
  ASSUME NEW c \in Call, Grant(c)
  PROVE  \/ goal' = goal
         \/ goal' = [goal EXCEPT !.lease = c]
BY DEF Grant, Patched

LEMMA AuthorizeWrites ==
  ASSUME NEW c \in Call, Authorize(c)
  PROVE  \/ goal' = goal
         \/ goal' = [goal EXCEPT !.status = "waiting_approval", !.recovery = TRUE,
                                 !.ended = TRUE, !.retry = @ \/ ~goal.thread]
BY DEF Authorize

LEMMA AttachWrites ==
  ASSUME NEW c \in Call, Attach(c) \/ AttachFails(c)
  PROVE  \/ goal' = goal
         \/ goal' = [goal EXCEPT !.run = c, !.thread = goal.thread]
         \/ goal' = [goal EXCEPT !.run = c, !.thread = TRUE]
BY DEF Attach, AttachFails, Attached, Patched

\* An attached run changes nothing but the run and the thread.
LEMMA AttachFields ==
  ASSUME goal \in Goal, NEW c \in Call, Attach(c) \/ AttachFails(c)
  PROVE  /\ goal'.status = goal.status /\ goal'.from = goal.from /\ goal'.lease = goal.lease
         /\ goal'.ended = goal.ended /\ goal'.recovery = goal.recovery
         /\ goal' = goal \/ goal'.run = c
<1> DEFINE g == [goal EXCEPT !.run = c, !.thread = goal.thread]
           h == [goal EXCEPT !.run = c, !.thread = TRUE]
<1>1. goal' = goal \/ goal' = g \/ goal' = h
  BY AttachWrites
<1>2. /\ g.status = goal.status /\ g.from = goal.from /\ g.lease = goal.lease
      /\ g.ended = goal.ended /\ g.recovery = goal.recovery /\ g.run = c
  BY DEF Goal
<1>3. /\ h.status = goal.status /\ h.from = goal.from /\ h.lease = goal.lease
      /\ h.ended = goal.ended /\ h.recovery = goal.recovery /\ h.run = c
  BY DEF Goal
<1> HIDE DEF g, h
<1> QED
  BY <1>1, <1>2, <1>3

LEMMA RecoverWrites ==
  ASSUME NEW c \in Call, Recover(c)
  PROVE  \/ goal' = goal
         \/ goal' = [goal EXCEPT !.status = "waiting_input", !.recovery = TRUE,
                                 !.from = want[c]]
         \/ goal' = [goal EXCEPT !.recovery = TRUE, !.from = want[c]]
BY DEF Recover, Patched

LEMMA RevalidateWrites ==
  ASSUME NEW c \in Call, Revalidate(c)
  PROVE  \/ goal' = goal
         \/ goal' = [goal EXCEPT !.status = "validating", !.recovery = FALSE, !.key = KeyOf[c]]
BY DEF Revalidate, Resume

LEMMA RestartWrites ==
  ASSUME NEW c \in Call, Restart(c)
  PROVE  \/ goal' = goal
         \/ goal' = [goal EXCEPT !.status = "running", !.recovery = FALSE, !.ended = FALSE]
BY DEF Restart, Resume

LEMMA RerunWrites ==
  ASSUME NEW c \in Call, Rerun(c)
  PROVE  \/ goal' = goal
         \/ goal' = [goal EXCEPT !.status = "running", !.recovery = FALSE, !.ended = FALSE,
                                 !.key = KeyOf[c]]
BY DEF Rerun, Resume

LEMMA HearAskWrites ==
  ASSUME NEW p \in Proc, HearAsk(p)
  PROVE  \/ goal' = goal
         \/ goal' = [goal EXCEPT !.status = asked[watched[p]], !.thread = TRUE]
BY DEF HearAsk

LEMMA HearEndWrites ==
  ASSUME NEW p \in Proc, HearEnd(p)
  PROVE  \/ goal' = goal
         \/ goal' = [goal EXCEPT !.thread = TRUE]
BY DEF HearEnd

LEMMA TurnOverWrites ==
  ASSUME NEW p \in Proc, TurnOver(p)
  PROVE  \/ goal' = goal
         \/ goal' = [goal EXCEPT !.ended = TRUE]
BY DEF TurnOver, Patched

LEMMA ValidateWrites ==
  ASSUME NEW t \in Thread, Validate(t)
  PROVE  \/ goal' = goal
         \/ goal' = [goal EXCEPT !.status = "validating"]
BY DEF Validate

LEMMA ReviewWrites ==
  ASSUME NEW t \in Thread, Review(t)
  PROVE  \/ goal' = goal
         \/ goal' = [goal EXCEPT !.status = "reviewing"]
BY DEF Review

LEMMA SettleWrites ==
  ASSUME NEW t \in Thread, Settle(t)
  PROVE  \/ goal' = goal
         \/ goal' = [goal EXCEPT !.status = want[t]]
BY DEF Settle

\* The record keeps its type.
LEMMA RecordStep == GoalInv /\ [Next]_vars => goal' \in Goal
<1> SUFFICES ASSUME GoalInv, [Next]_vars PROVE goal' \in Goal
  OBVIOUS
<1>c. /\ goal \in Goal /\ want \in [Thread -> Status \cup {"none"}] /\ EndsInTerminal
      /\ MonitorFollows /\ watched \in [Proc -> Call \cup {NoCall}]
      /\ asked \in [Call -> Waiting \cup {"none"}]
  BY DEF GoalInv, TypeOK
<1>k. KeyOf \in [Call -> Key]
  BY GoalAssumption
<1>s. {"running", "waiting_input", "waiting_approval", "validating", "reviewing"} \subseteq Status
  BY DEF Status, Waiting, Busy
<1>1. ASSUME NEW c \in Call, Launch(c) PROVE goal' \in Goal
  BY <1>1, <1>c, <1>k, <1>s, LaunchWrites DEF Goal
<1>2. ASSUME NEW c \in Call, PrepareFails(c) PROVE goal' \in Goal
  BY <1>2, <1>c DEF PrepareFails
<1>3. ASSUME NEW c \in Call, Grant(c) PROVE goal' \in Goal
  BY <1>3, <1>c, <1>k, <1>s, GrantWrites DEF Goal
<1>4. ASSUME NEW c \in Call, AdmissionTimesOut(c) PROVE goal' \in Goal
  BY <1>4, <1>c DEF AdmissionTimesOut
<1>5. ASSUME NEW c \in Call, StartTurn(c) PROVE goal' \in Goal
  BY <1>5, <1>c DEF StartTurn
<1>6. ASSUME NEW c \in Call, LaunchFails(c) PROVE goal' \in Goal
  BY <1>6, <1>c DEF LaunchFails
<1>7. ASSUME NEW c \in Call, Authorize(c) PROVE goal' \in Goal
  <2>1. \/ goal' = goal
        \/ goal' = [goal EXCEPT !.status = "waiting_approval", !.recovery = TRUE,
                                !.ended = TRUE, !.retry = @ \/ ~goal.thread]
    BY <1>7, AuthorizeWrites
  <2>2. CASE goal' = goal
    BY <2>2, <1>c, <1>s DEF Goal
  <2>3. CASE goal' = [goal EXCEPT !.status = "waiting_approval", !.recovery = TRUE,
                                  !.ended = TRUE, !.retry = @ \/ ~goal.thread]
    BY <2>3, <1>c, <1>s DEF Goal
  <2> QED
    BY <2>1, <2>2, <2>3
<1>8. ASSUME NEW c \in Call, Attach(c) PROVE goal' \in Goal
  <2>1. \/ goal' = goal
        \/ goal' = [goal EXCEPT !.run = c, !.thread = goal.thread]
        \/ goal' = [goal EXCEPT !.run = c, !.thread = TRUE]
    BY <1>8, AttachWrites
  <2>2. CASE goal' = goal
    BY <2>2, <1>c DEF Goal
  <2>3. CASE goal' = [goal EXCEPT !.run = c, !.thread = goal.thread]
    BY <2>3, <1>c DEF Goal
  <2>4. CASE goal' = [goal EXCEPT !.run = c, !.thread = TRUE]
    BY <2>4, <1>c DEF Goal
  <2> QED
    BY <2>1, <2>2, <2>3, <2>4
<1>9. ASSUME NEW c \in Call, Recover(c) PROVE goal' \in Goal
  <2>1. \/ goal' = goal
        \/ goal' = [goal EXCEPT !.status = "waiting_input", !.recovery = TRUE, !.from = want[c]]
        \/ goal' = [goal EXCEPT !.recovery = TRUE, !.from = want[c]]
    BY <1>9, RecoverWrites
  <2>2. want[c] \in Status \cup {"none"}
    BY <1>c DEF Thread
  <2>3. CASE goal' = goal
    BY <2>3, <1>c, <1>s DEF Goal
  <2>4. CASE goal' = [goal EXCEPT !.status = "waiting_input", !.recovery = TRUE,
                                  !.from = want[c]]
    BY <2>4, <2>2, <1>c, <1>s DEF Goal
  <2>5. CASE goal' = [goal EXCEPT !.recovery = TRUE, !.from = want[c]]
    BY <2>5, <2>2, <1>c, <1>s DEF Goal
  <2> QED
    BY <2>1, <2>3, <2>4, <2>5
<1>10. ASSUME NEW c \in Call, RecoverHooks(c) PROVE goal' \in Goal
  BY <1>10, <1>c DEF RecoverHooks
<1>11. ASSUME NEW c \in Call, Revalidate(c) PROVE goal' \in Goal
  <2>1. \/ goal' = goal
        \/ goal' = [goal EXCEPT !.status = "validating", !.recovery = FALSE, !.key = KeyOf[c]]
    BY <1>11, RevalidateWrites
  <2>2. CASE goal' = goal
    BY <2>2, <1>c, <1>k, <1>s DEF Goal
  <2>3. CASE goal' = [goal EXCEPT !.status = "validating", !.recovery = FALSE, !.key = KeyOf[c]]
    BY <2>3, <1>c, <1>k, <1>s DEF Goal
  <2> QED
    BY <2>1, <2>2, <2>3
<1>12. ASSUME NEW c \in Call, Restart(c) PROVE goal' \in Goal
  <2>1. \/ goal' = goal
        \/ goal' = [goal EXCEPT !.status = "running", !.recovery = FALSE, !.ended = FALSE]
    BY <1>12, RestartWrites
  <2>2. CASE goal' = goal
    BY <2>2, <1>c, <1>s DEF Goal
  <2>3. CASE goal' = [goal EXCEPT !.status = "running", !.recovery = FALSE, !.ended = FALSE]
    BY <2>3, <1>c, <1>s DEF Goal
  <2> QED
    BY <2>1, <2>2, <2>3
<1>13. ASSUME NEW c \in Call, Rerun(c) PROVE goal' \in Goal
  <2>1. \/ goal' = goal
        \/ goal' = [goal EXCEPT !.status = "running", !.recovery = FALSE, !.ended = FALSE,
                                !.key = KeyOf[c]]
    BY <1>13, RerunWrites
  <2>2. CASE goal' = goal
    BY <2>2, <1>c, <1>k, <1>s DEF Goal
  <2>3. CASE goal' = [goal EXCEPT !.status = "running", !.recovery = FALSE, !.ended = FALSE,
                                  !.key = KeyOf[c]]
    BY <2>3, <1>c, <1>k, <1>s DEF Goal
  <2> QED
    BY <2>1, <2>2, <2>3
<1>14. ASSUME NEW c \in Call, RecoverReads(c) PROVE goal' \in Goal
  BY <1>14, <1>c DEF RecoverReads
<1>15. ASSUME NEW c \in Call, Cancel(c) PROVE goal' \in Goal
  BY <1>15, <1>c DEF Cancel
<1>16. ASSUME NEW c \in Call, ResumeReads(c) PROVE goal' \in Goal
  BY <1>16, <1>c DEF ResumeReads
<1>17. ASSUME NEW c \in Call, Ask(c) PROVE goal' \in Goal
  BY <1>17, <1>c DEF Ask
<1>18. ASSUME NEW c \in Call, TurnEnds(c) PROVE goal' \in Goal
  BY <1>18, <1>c DEF TurnEnds
<1>19. ASSUME NEW p \in Proc, HearAsk(p) PROVE goal' \in Goal
  <2>1. goal' = goal \/ goal' = [goal EXCEPT !.status = asked[watched[p]], !.thread = TRUE]
    BY <1>19, HearAskWrites
  <2>2. asked[watched[p]] \in Status
    BY <1>19, <1>c, StatusTypes DEF HearAsk, AtPc, MonitorFollows
  <2>3. CASE goal' = goal
    BY <2>3, <1>c
  <2>4. CASE goal' = [goal EXCEPT !.status = asked[watched[p]], !.thread = TRUE]
    BY <2>2, <2>4, <1>c DEF Goal
  <2> QED
    BY <2>1, <2>3, <2>4
<1>20. ASSUME NEW p \in Proc, HearEnd(p) PROVE goal' \in Goal
  <2>1. \/ goal' = goal
        \/ goal' = [goal EXCEPT !.thread = TRUE]
    BY <1>20, HearEndWrites
  <2>2. CASE goal' = goal
    BY <2>2, <1>c DEF Goal
  <2>3. CASE goal' = [goal EXCEPT !.thread = TRUE]
    BY <2>3, <1>c DEF Goal
  <2> QED
    BY <2>1, <2>2, <2>3
<1>21. ASSUME NEW p \in Proc, TurnOver(p) PROVE goal' \in Goal
  <2>1. \/ goal' = goal
        \/ goal' = [goal EXCEPT !.ended = TRUE]
    BY <1>21, TurnOverWrites
  <2>2. CASE goal' = goal
    BY <2>2, <1>c DEF Goal
  <2>3. CASE goal' = [goal EXCEPT !.ended = TRUE]
    BY <2>3, <1>c DEF Goal
  <2> QED
    BY <2>1, <2>2, <2>3
<1>22. ASSUME NEW p \in Proc, StopWatching(p) PROVE goal' \in Goal
  BY <1>22, <1>c DEF StopWatching
<1>23. ASSUME NEW p \in Proc, Crash(p) PROVE goal' \in Goal
  BY <1>23, <1>c DEF Crash
<1>24. ASSUME NEW t \in Thread, Validate(t) PROVE goal' \in Goal
  BY <1>24, <1>c, <1>k, <1>s, ValidateWrites DEF Goal
<1>25. ASSUME NEW t \in Thread, AcceptanceEnds(t) PROVE goal' \in Goal
  BY <1>25, <1>c DEF AcceptanceEnds
<1>26. ASSUME NEW t \in Thread, AcceptanceWaits(t) PROVE goal' \in Goal
  BY <1>26, <1>c DEF AcceptanceWaits
<1>27. ASSUME NEW t \in Thread, Review(t) PROVE goal' \in Goal
  BY <1>27, <1>c, <1>k, <1>s, ReviewWrites DEF Goal
<1>28. ASSUME NEW t \in Thread, Judge(t) PROVE goal' \in Goal
  BY <1>28, <1>c DEF Judge
<1>29. ASSUME NEW t \in Thread, End(t) PROVE goal' \in Goal
  BY <1>29, <1>c DEF End
<1>30. ASSUME NEW t \in Thread, Settle(t) PROVE goal' \in Goal
  <2>1. goal' = goal \/ goal' = [goal EXCEPT !.status = want[t]]
    BY <1>30, SettleWrites
  <2>2. want[t] \in Status
    BY <1>30, <1>c, StatusTypes DEF Settle, AtPc, EndsInTerminal
  <2> QED
    BY <2>1, <2>2, <1>c DEF Goal
<1>31. ASSUME NEW t \in Thread, SettleTorn(t) PROVE goal' \in Goal
  BY <1>31, <1>c DEF SettleTorn
<1>32. ASSUME NEW d \in pending, Claim(d) PROVE goal' \in Goal
  BY <1>32, <1>c DEF Claim
<1>33. ASSUME NEW d \in pending, Deliver(d) PROVE goal' \in Goal
  BY <1>33, <1>c DEF Deliver
<1>34. ASSUME NEW d \in pending, Finish(d) PROVE goal' \in Goal
  BY <1>34, <1>c DEF Finish
<1>35. CASE UNCHANGED vars
  BY <1>35, <1>c DEF vars
<1>36. ASSUME NEW c \in Call, AttachFails(c) PROVE goal' \in Goal
  <2>1. \/ goal' = goal
        \/ goal' = [goal EXCEPT !.run = c, !.thread = goal.thread]
        \/ goal' = [goal EXCEPT !.run = c, !.thread = TRUE]
    BY <1>36, AttachWrites
  <2>2. CASE goal' = goal
    BY <2>2, <1>c DEF Goal
  <2>3. CASE goal' = [goal EXCEPT !.run = c, !.thread = goal.thread]
    BY <2>3, <1>c DEF Goal
  <2>4. CASE goal' = [goal EXCEPT !.run = c, !.thread = TRUE]
    BY <2>4, <1>c DEF Goal
  <2> QED
    BY <2>1, <2>2, <2>3, <2>4
<1>37. CASE Metadata
  BY <1>37, <1>c DEF Metadata
<1> QED
  BY <1>1, <1>2, <1>3, <1>4, <1>5, <1>6, <1>7, <1>8, <1>9, <1>10, <1>11, <1>12, <1>13,
     <1>14, <1>15, <1>16, <1>17, <1>18, <1>19, <1>20, <1>21, <1>22, <1>23, <1>24, <1>25,
     <1>26, <1>27, <1>28, <1>29, <1>30, <1>31, <1>32, <1>33, <1>34, <1>35, <1>36, <1>37 DEF Next,
     CallStep, Begin, MonitorStep, EndStep, HookStep

LEMMA DeliveriesStep == GoalInv /\ [Next]_vars => Deliveries'
<1> SUFFICES ASSUME GoalInv, [Next]_vars PROVE Deliveries'
  OBVIOUS
<1>c. Deliveries
  BY DEF GoalInv, TypeOK, Deliveries
<1>h. \A c \in Call : ProcOf[c] \in Proc
  BY GoalAssumption
<1>1. ASSUME NEW c \in Call, Launch(c) PROVE Deliveries'
  BY <1>1, <1>c DEF Launch, Deliveries, hooks
<1>2. ASSUME NEW c \in Call, PrepareFails(c) PROVE Deliveries'
  BY <1>2, <1>c DEF PrepareFails, Deliveries, hooks
<1>3. ASSUME NEW c \in Call, Grant(c) PROVE Deliveries'
  BY <1>3, <1>c DEF Grant, Deliveries, hooks
<1>4. ASSUME NEW c \in Call, AdmissionTimesOut(c) PROVE Deliveries'
  BY <1>4, <1>c DEF AdmissionTimesOut, Deliveries, hooks
<1>5. ASSUME NEW c \in Call, StartTurn(c) PROVE Deliveries'
  BY <1>5, <1>c DEF StartTurn, Deliveries, hooks
<1>6. ASSUME NEW c \in Call, LaunchFails(c) PROVE Deliveries'
  BY <1>6, <1>c DEF LaunchFails, Deliveries, hooks
<1>7. ASSUME NEW c \in Call, Authorize(c) PROVE Deliveries'
  BY <1>7, <1>c DEF Authorize, Deliveries, hooks
<1>8. ASSUME NEW c \in Call, Attach(c) PROVE Deliveries'
  BY <1>8, <1>c DEF Attach, Deliveries, hooks
<1>9. ASSUME NEW c \in Call, Recover(c) PROVE Deliveries'
  BY <1>9, <1>c DEF Recover, Deliveries, hooks
<1>10. ASSUME NEW c \in Call, RecoverHooks(c) PROVE Deliveries'
  BY <1>10, <1>c, <1>h DEF RecoverHooks, Deliveries, hooks, Dispatch, Delivery, EventKey, Notice
<1>11. ASSUME NEW c \in Call, Revalidate(c) PROVE Deliveries'
  BY <1>11, <1>c, <1>h DEF Revalidate, Deliveries, hooks, Resume
<1>12. ASSUME NEW c \in Call, Restart(c) PROVE Deliveries'
  BY <1>12, <1>c, <1>h DEF Restart, Deliveries, hooks, Resume
<1>13. ASSUME NEW c \in Call, Rerun(c) PROVE Deliveries'
  BY <1>13, <1>c, <1>h DEF Rerun, Deliveries, hooks, Resume
<1>14. ASSUME NEW c \in Call, RecoverReads(c) PROVE Deliveries'
  BY <1>14, <1>c DEF RecoverReads, Deliveries, hooks
<1>15. ASSUME NEW c \in Call, Cancel(c) PROVE Deliveries'
  BY <1>15, <1>c DEF Cancel, Deliveries, hooks
<1>16. ASSUME NEW c \in Call, ResumeReads(c) PROVE Deliveries'
  BY <1>16, <1>c DEF ResumeReads, Deliveries, hooks
<1>17. ASSUME NEW c \in Call, Ask(c) PROVE Deliveries'
  BY <1>17, <1>c DEF Ask, Deliveries, hooks
<1>18. ASSUME NEW c \in Call, TurnEnds(c) PROVE Deliveries'
  BY <1>18, <1>c DEF TurnEnds, Deliveries, hooks
<1>19. ASSUME NEW p \in Proc, HearAsk(p) PROVE Deliveries'
  BY <1>19, <1>c DEF HearAsk, Deliveries, hooks
<1>20. ASSUME NEW p \in Proc, HearEnd(p) PROVE Deliveries'
  BY <1>20, <1>c DEF HearEnd, Deliveries, hooks
<1>21. ASSUME NEW p \in Proc, TurnOver(p) PROVE Deliveries'
  BY <1>21, <1>c DEF TurnOver, Deliveries, hooks
<1>22. ASSUME NEW p \in Proc, StopWatching(p) PROVE Deliveries'
  BY <1>22, <1>c DEF StopWatching, Deliveries, hooks
<1>23. ASSUME NEW p \in Proc, Crash(p) PROVE Deliveries'
  BY <1>23, <1>c, <1>h DEF Crash, Deliveries, hooks, Dies
<1>24. ASSUME NEW t \in Thread, Validate(t) PROVE Deliveries'
  BY <1>24, <1>c DEF Validate, Deliveries, hooks
<1>25. ASSUME NEW t \in Thread, AcceptanceEnds(t) PROVE Deliveries'
  BY <1>25, <1>c DEF AcceptanceEnds, Deliveries, hooks
<1>26. ASSUME NEW t \in Thread, AcceptanceWaits(t) PROVE Deliveries'
  BY <1>26, <1>c DEF AcceptanceWaits, Deliveries, hooks
<1>27. ASSUME NEW t \in Thread, Review(t) PROVE Deliveries'
  BY <1>27, <1>c DEF Review, Deliveries, hooks
<1>28. ASSUME NEW t \in Thread, Judge(t) PROVE Deliveries'
  BY <1>28, <1>c DEF Judge, Deliveries, hooks
<1>29. ASSUME NEW t \in Thread, End(t) PROVE Deliveries'
  BY <1>29, <1>c DEF End, Deliveries, hooks
<1>30. ASSUME NEW t \in Thread, Settle(t) PROVE Deliveries'
  BY <1>30, <1>c, <1>h DEF Settle, Deliveries, hooks, Notify, Dispatch, Home, Thread,
     Delivery, EventKey, Notice
<1>31. ASSUME NEW t \in Thread, SettleTorn(t) PROVE Deliveries'
  BY <1>31, <1>c, <1>h DEF SettleTorn, Deliveries, hooks, Dies
<1>32. ASSUME NEW d \in pending, Claim(d) PROVE Deliveries'
  <2>1. d \in Delivery /\ d.key \in EventKey
    BY <1>32, <1>c DEF Deliveries, Delivery
  <2>2. [d EXCEPT !.stage = "claimed"] \in Delivery
    BY <2>1 DEF Delivery
  <2>3. pending' \in SUBSET Delivery
    BY <1>32, <2>2, <1>c DEF Claim, Deliveries, Staged
  <2>4. claimed' \in SUBSET EventKey /\ later' \in Nat /\ sent' = sent
    BY <1>32, <2>1, <1>c DEF Claim, Deliveries
  <2> QED
    BY <2>3, <2>4, <1>c DEF Deliveries
<1>33. ASSUME NEW d \in pending, Deliver(d) PROVE Deliveries'
  <2>1. d \in Delivery /\ d.type \in Notice
    BY <1>33, <1>c DEF Deliveries, Delivery
  <2>2. [d EXCEPT !.stage = "sent"] \in Delivery /\ [d EXCEPT !.stage = "unsent"] \in Delivery
    BY <2>1 DEF Delivery
  <2>3. pending' \in SUBSET Delivery
    BY <1>33, <2>2, <1>c DEF Deliver, Deliveries, Staged
  <2>4. sent' \in [Notice -> Nat]
    BY <1>33, <2>1, <1>c DEF Deliver, Deliveries
  <2> QED
    BY <1>33, <2>3, <2>4, <1>c DEF Deliver, Deliveries
<1>34. ASSUME NEW d \in pending, Finish(d) PROVE Deliveries'
  <2>1. pending' \in SUBSET Delivery /\ later' \in Nat
    BY <1>34, <1>c DEF Finish, Deliveries
  <2> QED
    BY <1>34, <2>1, <1>c DEF Finish, Deliveries
<1>35. CASE UNCHANGED vars
  BY <1>35, <1>c DEF vars, Deliveries, hooks
<1>36. ASSUME NEW c \in Call, AttachFails(c) PROVE Deliveries'
  BY <1>36, <1>c DEF AttachFails, Attached, Deliveries, hooks
<1>37. CASE Metadata
  BY <1>37, <1>c DEF Metadata, Deliveries, hooks
<1> QED
  BY <1>1, <1>2, <1>3, <1>4, <1>5, <1>6, <1>7, <1>8, <1>9, <1>10, <1>11, <1>12, <1>13,
     <1>14, <1>15, <1>16, <1>17, <1>18, <1>19, <1>20, <1>21, <1>22, <1>23, <1>24, <1>25,
     <1>26, <1>27, <1>28, <1>29, <1>30, <1>31, <1>32, <1>33, <1>34, <1>35, <1>36, <1>37 DEF Next,
     CallStep, Begin, MonitorStep, EndStep, HookStep

LEMMA FlagsStep == GoalInv /\ [Next]_vars => Flags'
<1> SUFFICES ASSUME GoalInv, [Next]_vars PROVE Flags'
  OBVIOUS
<1>c. Flags
  BY Zenon DEF GoalInv, TypeOK, Flags
<1>1. ASSUME NEW c \in Call, Launch(c) PROVE Flags'
  BY <1>1, <1>c, Zenon DEF Launch, Flags, hooks
<1>2. ASSUME NEW c \in Call, PrepareFails(c) PROVE Flags'
  BY <1>2, <1>c, Zenon DEF PrepareFails, Flags, hooks
<1>3. ASSUME NEW c \in Call, Grant(c) PROVE Flags'
  BY <1>3, <1>c, Zenon DEF Grant, Flags, hooks
<1>4. ASSUME NEW c \in Call, AdmissionTimesOut(c) PROVE Flags'
  BY <1>4, <1>c, Zenon DEF AdmissionTimesOut, Flags, hooks
<1>5. ASSUME NEW c \in Call, StartTurn(c) PROVE Flags'
  BY <1>5, <1>c, Zenon DEF StartTurn, Flags, hooks
<1>6. ASSUME NEW c \in Call, LaunchFails(c) PROVE Flags'
  BY <1>6, <1>c, Zenon DEF LaunchFails, Flags, hooks
<1>7. ASSUME NEW c \in Call, Authorize(c) PROVE Flags'
  BY <1>7, <1>c, Zenon DEF Authorize, Flags, hooks
<1>8. ASSUME NEW c \in Call, Attach(c) PROVE Flags'
  BY <1>8, <1>c, Zenon DEF Attach, Flags, hooks
<1>9. ASSUME NEW c \in Call, Recover(c) PROVE Flags'
  BY <1>9, <1>c, Zenon DEF Recover, Flags, hooks
<1>10. ASSUME NEW c \in Call, RecoverHooks(c) PROVE Flags'
  BY <1>10, <1>c, Zenon DEF RecoverHooks, Flags, hooks
<1>11. ASSUME NEW c \in Call, Revalidate(c) PROVE Flags'
  BY <1>11, <1>c, Zenon DEF Revalidate, Flags, hooks, Resume
<1>12. ASSUME NEW c \in Call, Restart(c) PROVE Flags'
  BY <1>12, <1>c, Zenon DEF Restart, Flags, hooks, Resume
<1>13. ASSUME NEW c \in Call, Rerun(c) PROVE Flags'
  BY <1>13, <1>c, Zenon DEF Rerun, Flags, hooks, Resume
<1>14. ASSUME NEW c \in Call, RecoverReads(c) PROVE Flags'
  BY <1>14, <1>c, Zenon DEF RecoverReads, Flags, hooks
<1>15. ASSUME NEW c \in Call, Cancel(c) PROVE Flags'
  BY <1>15, <1>c, Zenon DEF Cancel, Flags, hooks
<1>16. ASSUME NEW c \in Call, ResumeReads(c) PROVE Flags'
  BY <1>16, <1>c, Zenon DEF ResumeReads, Flags, hooks
<1>17. ASSUME NEW c \in Call, Ask(c) PROVE Flags'
  BY <1>17, <1>c, Zenon DEF Ask, Flags, hooks
<1>18. ASSUME NEW c \in Call, TurnEnds(c) PROVE Flags'
  BY <1>18, <1>c, Zenon DEF TurnEnds, Flags, hooks
<1>19. ASSUME NEW p \in Proc, HearAsk(p) PROVE Flags'
  BY <1>19, <1>c, Zenon DEF HearAsk, Flags, hooks
<1>20. ASSUME NEW p \in Proc, HearEnd(p) PROVE Flags'
  BY <1>20, <1>c, Zenon DEF HearEnd, Flags, hooks
<1>21. ASSUME NEW p \in Proc, TurnOver(p) PROVE Flags'
  BY <1>21, <1>c, Zenon DEF TurnOver, Flags, hooks
<1>22. ASSUME NEW p \in Proc, StopWatching(p) PROVE Flags'
  BY <1>22, <1>c, Zenon DEF StopWatching, Flags, hooks
<1>23. ASSUME NEW p \in Proc, Crash(p) PROVE Flags'
  BY <1>23, <1>c, Zenon DEF Crash, Flags, hooks
<1>24. ASSUME NEW t \in Thread, Validate(t) PROVE Flags'
  BY <1>24, <1>c, Zenon DEF Validate, Flags, hooks
<1>25. ASSUME NEW t \in Thread, AcceptanceEnds(t) PROVE Flags'
  BY <1>25, <1>c, Zenon DEF AcceptanceEnds, Flags, hooks
<1>26. ASSUME NEW t \in Thread, AcceptanceWaits(t) PROVE Flags'
  BY <1>26, <1>c, Zenon DEF AcceptanceWaits, Flags, hooks
<1>27. ASSUME NEW t \in Thread, Review(t) PROVE Flags'
  BY <1>27, <1>c, Zenon DEF Review, Flags, hooks
<1>28. ASSUME NEW t \in Thread, Judge(t) PROVE Flags'
  BY <1>28, <1>c, Zenon DEF Judge, Flags, hooks
<1>29. ASSUME NEW t \in Thread, End(t) PROVE Flags'
  BY <1>29, <1>c, Zenon DEF End, Flags, hooks
<1>30. ASSUME NEW t \in Thread, Settle(t) PROVE Flags'
  BY <1>30, <1>c, Zenon DEF Settle, Flags, hooks
<1>31. ASSUME NEW t \in Thread, SettleTorn(t) PROVE Flags'
  BY <1>31, <1>c, Zenon DEF SettleTorn, Flags, hooks
<1>32. ASSUME NEW d \in pending, Claim(d) PROVE Flags'
  <2>1. hookError' \in BOOLEAN
    <3>1. hookError' = FALSE \/ hookError' = hookError
      BY <1>32, SMT DEF Claim
    <3> QED
      BY <3>1, <1>c, Zenon DEF Flags
  <2> QED
    BY <1>32, <2>1, <1>c, Zenon DEF Claim, Flags
<1>33. ASSUME NEW d \in pending, Deliver(d) PROVE Flags'
  BY <1>33, <1>c, Zenon DEF Deliver, Flags, hooks
<1>34. ASSUME NEW d \in pending, Finish(d) PROVE Flags'
  <2>1. notified' = (notified \/ d.stage = "sent") /\ hookError' = (d.stage = "unsent")
    BY <1>34, Zenon DEF Finish
  <2> QED
    BY <2>1, Zenon DEF Flags
<1>35. CASE UNCHANGED vars
  BY <1>35, <1>c, Zenon DEF vars, Flags, hooks
<1>36. ASSUME NEW c \in Call, AttachFails(c) PROVE Flags'
  BY <1>36, <1>c, Zenon DEF AttachFails, Attached, Flags, hooks
<1>37. CASE Metadata
  BY <1>37, <1>c, Zenon DEF Metadata, Flags, hooks
<1> QED
  BY <1>1, <1>2, <1>3, <1>4, <1>5, <1>6, <1>7, <1>8, <1>9, <1>10, <1>11, <1>12, <1>13,
     <1>14, <1>15, <1>16, <1>17, <1>18, <1>19, <1>20, <1>21, <1>22, <1>23, <1>24, <1>25,
     <1>26, <1>27, <1>28, <1>29, <1>30, <1>31, <1>32, <1>33, <1>34, <1>35, <1>36, <1>37 DEF Next,
     CallStep, Begin, MonitorStep, EndStep, HookStep

LEMMA OthersStep == GoalInv /\ [Next]_vars => Others'
<1> SUFFICES ASSUME GoalInv, [Next]_vars PROVE Others'
  OBVIOUS
<1>c. Others
  BY DEF GoalInv, TypeOK, Others
<1>w. want \in [Thread -> Status \cup {"none"}] /\ EndsInTerminal
  BY DEF GoalInv, TypeOK
<1>m. watched \in [Proc -> Call \cup {NoCall}] /\ MonitorFollows /\ goal \in Goal
  BY DEF GoalInv, TypeOK
<1>h. \A c \in Call : ProcOf[c] \in Proc
  BY GoalAssumption
<1>k. \A t \in Thread : Home(t) \in Proc
  BY GoalAssumption DEF Thread, Home
<1>1. ASSUME NEW c \in Call, Launch(c) PROVE Others'
  BY <1>1, <1>c DEF Launch, Others, resource, provider, monitors, Mishap
<1>2. ASSUME NEW c \in Call, PrepareFails(c) PROVE Others'
  BY <1>2, <1>c DEF PrepareFails, Others, resource, provider, monitors
<1>3. ASSUME NEW c \in Call, Grant(c) PROVE Others'
  BY <1>3, <1>c, <1>h, <1>k, <1>w DEF Grant, Others, resource, provider, monitors, Mishap
<1>4. ASSUME NEW c \in Call, AdmissionTimesOut(c) PROVE Others'
  BY <1>4, <1>c DEF AdmissionTimesOut, Others, resource, provider, monitors
<1>5. ASSUME NEW c \in Call, StartTurn(c) PROVE Others'
  BY <1>5, <1>c, <1>h, <1>k, <1>w DEF StartTurn, Others, resource, provider, monitors,
     Release, TurnState
<1>6. ASSUME NEW c \in Call, LaunchFails(c) PROVE Others'
  BY <1>6, <1>c, <1>h, <1>k, <1>w DEF LaunchFails, Others, resource, provider, monitors, Release
<1>7. ASSUME NEW c \in Call, Authorize(c) PROVE Others'
  BY <1>7, <1>c DEF Authorize, Others, resource, provider, monitors
<1>8. ASSUME NEW c \in Call, Attach(c) PROVE Others'
  BY <1>8, <1>c, <1>h, <1>k, <1>w DEF Attach, Others, resource, provider, monitors, Follow,
     Mishap
<1>9. ASSUME NEW c \in Call, Recover(c) PROVE Others'
  BY <1>9, <1>c, <1>h, <1>k, <1>w DEF Recover, Others, resource, provider, monitors, Mishap
<1>10. ASSUME NEW c \in Call, RecoverHooks(c) PROVE Others'
  BY <1>10, <1>c, <1>h, <1>k, <1>w DEF RecoverHooks, Others, resource, provider, monitors,
     Mishap
<1>11. ASSUME NEW c \in Call, Revalidate(c) PROVE Others'
  BY <1>11, <1>c, <1>h, <1>k, <1>w DEF Revalidate, Others, resource, provider, monitors,
     Resume, Mishap
<1>12. ASSUME NEW c \in Call, Restart(c) PROVE Others'
  BY <1>12, <1>c, <1>h, <1>k, <1>w DEF Restart, Others, resource, provider, monitors,
     Resume, Mishap
<1>13. ASSUME NEW c \in Call, Rerun(c) PROVE Others'
  BY <1>13, <1>c, <1>h, <1>k, <1>w DEF Rerun, Others, resource, provider, monitors, Resume,
     Mishap
<1>14. ASSUME NEW c \in Call, RecoverReads(c) PROVE Others'
  BY <1>14, <1>c DEF RecoverReads, Others, resource, provider, monitors
<1>15. ASSUME NEW c \in Call, Cancel(c) PROVE Others'
  BY <1>15, <1>c, <1>h, <1>k, <1>w DEF Cancel, Others, resource, provider, monitors, TurnState
<1>16. ASSUME NEW c \in Call, ResumeReads(c) PROVE Others'
  BY <1>16, <1>c DEF ResumeReads, Others, resource, provider, monitors
<1>17. ASSUME NEW c \in Call, Ask(c) PROVE Others'
  BY <1>17, <1>c, <1>h, <1>k, <1>w DEF Ask, Others, resource, provider, monitors
<1>18. ASSUME NEW c \in Call, TurnEnds(c) PROVE Others'
  BY <1>18, <1>c, <1>h, <1>k, <1>w DEF TurnEnds, Others, resource, provider, monitors, TurnState
<1>19. ASSUME NEW p \in Proc, HearAsk(p) PROVE Others'
  BY <1>19, <1>c, <1>h, <1>k, <1>w DEF HearAsk, Others, resource, provider, monitors, Release
<1>20. ASSUME NEW p \in Proc, HearEnd(p) PROVE Others'
  BY <1>20, <1>c, <1>h, <1>k, <1>w DEF HearEnd, Others, resource, provider, monitors,
     Release, Mishap
<1>21. ASSUME NEW p \in Proc, TurnOver(p) PROVE Others'
  BY <1>21, <1>c DEF TurnOver, Others, resource, provider, monitors
<1>22. ASSUME NEW p \in Proc, StopWatching(p) PROVE Others'
  BY <1>22, <1>c, <1>h, <1>k, <1>w DEF StopWatching, Others, resource, provider, monitors
<1>23. ASSUME NEW p \in Proc, Crash(p) PROVE Others'
  BY <1>23, <1>c, <1>h, <1>k, <1>w DEF Crash, Others, resource, provider, monitors, Dies
<1>24. ASSUME NEW t \in Thread, Validate(t) PROVE Others'
  BY <1>24, <1>c DEF Validate, Others, resource, provider, monitors
<1>25. ASSUME NEW t \in Thread, AcceptanceEnds(t) PROVE Others'
  BY <1>25, <1>c DEF AcceptanceEnds, Others, resource, provider, monitors
<1>26. ASSUME NEW t \in Thread, AcceptanceWaits(t) PROVE Others'
  BY <1>26, <1>c DEF AcceptanceWaits, Others, resource, provider, monitors
<1>27. ASSUME NEW t \in Thread, Review(t) PROVE Others'
  BY <1>27, <1>c DEF Review, Others, resource, provider, monitors
<1>28. ASSUME NEW t \in Thread, Judge(t) PROVE Others'
  BY <1>28, <1>c DEF Judge, Others, resource, provider, monitors
<1>29. ASSUME NEW t \in Thread, End(t) PROVE Others'
  BY <1>29, <1>c, <1>h, <1>k, <1>w DEF End, Others, resource, provider, monitors, Release
<1>30. ASSUME NEW t \in Thread, Settle(t) PROVE Others'
  <2>1. want[t] \in Terminal
    BY <1>30, <1>w DEF Settle, AtPc, EndsInTerminal
  <2> QED
    BY <1>30, <2>1, <1>c DEF Settle, Others, resource, provider, monitors
<1>31. ASSUME NEW t \in Thread, SettleTorn(t) PROVE Others'
  <2>1. want[t] \in Terminal
    BY <1>31, <1>w DEF SettleTorn, AtPc, EndsInTerminal
  <2> QED
    BY <1>31, <2>1, <1>c DEF SettleTorn, Dies, Others, resource, provider, monitors
<1>32. ASSUME NEW d \in pending, Claim(d) PROVE Others'
  BY <1>32, <1>c DEF Claim, Others, resource, provider, monitors
<1>33. ASSUME NEW d \in pending, Deliver(d) PROVE Others'
  BY <1>33, <1>c DEF Deliver, Others, resource, provider, monitors
<1>34. ASSUME NEW d \in pending, Finish(d) PROVE Others'
  BY <1>34, <1>c DEF Finish, Others, resource, provider, monitors
<1>35. CASE UNCHANGED vars
  BY <1>35, <1>c DEF vars, Others, resource, provider, monitors
<1>36. ASSUME NEW c \in Call, AttachFails(c) PROVE Others'
  BY <1>36, <1>c, <1>h, <1>k, <1>w DEF AttachFails, Others, resource, provider, monitors,
     Release
<1>37. CASE Metadata
  BY <1>37, <1>c DEF Metadata, Others, resource, provider, monitors
<1> QED
  BY <1>1, <1>2, <1>3, <1>4, <1>5, <1>6, <1>7, <1>8, <1>9, <1>10, <1>11, <1>12, <1>13,
     <1>14, <1>15, <1>16, <1>17, <1>18, <1>19, <1>20, <1>21, <1>22, <1>23, <1>24, <1>25,
     <1>26, <1>27, <1>28, <1>29, <1>30, <1>31, <1>32, <1>33, <1>34, <1>35, <1>36, <1>37 DEF Next,
     CallStep, Begin, MonitorStep, EndStep, HookStep

\* A step leaves a goal that has ended, and its result, as they are.
LEMMA EndKeptStep == GoalInv /\ [Next]_vars => EndKept
<1> SUFFICES ASSUME GoalInv, [Next]_vars, Ended PROVE goal'.status = goal.status /\ result' = result
  BY DEF EndKept
<1> DEFINE Kept == goal'.status = goal.status /\ result' = result
<1>c. goal \in Goal /\ Ended
  BY DEF GoalInv, TypeOK
<1>n. \A s \in {"running", "waiting_input", "waiting_approval", "validating", "reviewing"} :
       ~CanBe(s)
  BY NotEnded DEF Terminal
<1>1. ASSUME NEW c \in Call, Launch(c) PROVE Kept
  BY <1>1, <1>c, <1>n DEF Launch
<1>2. ASSUME NEW c \in Call, PrepareFails(c) PROVE Kept
  BY <1>2, <1>c DEF PrepareFails
<1>3. ASSUME NEW c \in Call, Grant(c) PROVE Kept
  BY <1>3, <1>c, <1>n DEF Grant, Patched
<1>4. ASSUME NEW c \in Call, AdmissionTimesOut(c) PROVE Kept
  BY <1>4, <1>c DEF AdmissionTimesOut
<1>5. ASSUME NEW c \in Call, StartTurn(c) PROVE Kept
  BY <1>5, <1>c DEF StartTurn
<1>6. ASSUME NEW c \in Call, LaunchFails(c) PROVE Kept
  BY <1>6, <1>c DEF LaunchFails
<1>7. ASSUME NEW c \in Call, Authorize(c) PROVE Kept
  BY <1>7, <1>c, <1>n DEF Authorize, Goal
<1>8. ASSUME NEW c \in Call, Attach(c) PROVE Kept
  BY <1>8, <1>c, <1>n DEF Attach, Attached, Patched, Goal
<1>9. ASSUME NEW c \in Call, Recover(c) PROVE Kept
  BY <1>9, <1>c, <1>n DEF Recover, Patched
<1>10. ASSUME NEW c \in Call, RecoverHooks(c) PROVE Kept
  BY <1>10, <1>c DEF RecoverHooks
<1>11. ASSUME NEW c \in Call, Revalidate(c) PROVE Kept
  BY <1>11, <1>c, <1>n DEF Revalidate, Resume
<1>12. ASSUME NEW c \in Call, Restart(c) PROVE Kept
  BY <1>12, <1>c, <1>n DEF Restart, Resume
<1>13. ASSUME NEW c \in Call, Rerun(c) PROVE Kept
  BY <1>13, <1>c, <1>n DEF Rerun, Resume
<1>14. ASSUME NEW c \in Call, RecoverReads(c) PROVE Kept
  BY <1>14, <1>c DEF RecoverReads
<1>15. ASSUME NEW c \in Call, Cancel(c) PROVE Kept
  BY <1>15, <1>c DEF Cancel
<1>16. ASSUME NEW c \in Call, ResumeReads(c) PROVE Kept
  BY <1>16, <1>c DEF ResumeReads
<1>17. ASSUME NEW c \in Call, Ask(c) PROVE Kept
  BY <1>17, <1>c DEF Ask
<1>18. ASSUME NEW c \in Call, TurnEnds(c) PROVE Kept
  BY <1>18, <1>c DEF TurnEnds
<1>19. ASSUME NEW p \in Proc, HearAsk(p) PROVE Kept
  BY <1>19, <1>c, <1>n DEF HearAsk, Heeded
<1>20. ASSUME NEW p \in Proc, HearEnd(p) PROVE Kept
  BY <1>20, <1>c, <1>n DEF HearEnd, Heeded
<1>21. ASSUME NEW p \in Proc, TurnOver(p) PROVE Kept
  BY <1>21, <1>c, <1>n DEF TurnOver, Patched
<1>22. ASSUME NEW p \in Proc, StopWatching(p) PROVE Kept
  BY <1>22, <1>c DEF StopWatching
<1>23. ASSUME NEW p \in Proc, Crash(p) PROVE Kept
  BY <1>23, <1>c DEF Crash
<1>24. ASSUME NEW t \in Thread, Validate(t) PROVE Kept
  BY <1>24, <1>c, <1>n DEF Validate
<1>25. ASSUME NEW t \in Thread, AcceptanceEnds(t) PROVE Kept
  BY <1>25, <1>c DEF AcceptanceEnds
<1>26. ASSUME NEW t \in Thread, AcceptanceWaits(t) PROVE Kept
  BY <1>26, <1>c DEF AcceptanceWaits
<1>27. ASSUME NEW t \in Thread, Review(t) PROVE Kept
  BY <1>27, <1>c, <1>n DEF Review
<1>28. ASSUME NEW t \in Thread, Judge(t) PROVE Kept
  BY <1>28, <1>c DEF Judge
<1>29. ASSUME NEW t \in Thread, End(t) PROVE Kept
  BY <1>29, <1>c DEF End
<1>30. ASSUME NEW t \in Thread, Settle(t) PROVE Kept
  BY <1>30, <1>c, <1>n DEF Settle
<1>31. ASSUME NEW t \in Thread, SettleTorn(t) PROVE Kept
  BY <1>31, <1>c, <1>n DEF SettleTorn
<1>32. ASSUME NEW d \in pending, Claim(d) PROVE Kept
  BY <1>32, <1>c DEF Claim
<1>33. ASSUME NEW d \in pending, Deliver(d) PROVE Kept
  BY <1>33, <1>c DEF Deliver
<1>34. ASSUME NEW d \in pending, Finish(d) PROVE Kept
  BY <1>34, <1>c DEF Finish
<1>35. CASE UNCHANGED vars
  BY <1>35, <1>c DEF vars
<1>36. ASSUME NEW c \in Call, AttachFails(c) PROVE Kept
  BY <1>36, <1>c, <1>n DEF AttachFails, Attached, Patched, Goal
<1>37. CASE Metadata
  BY <1>37, <1>c DEF Metadata
<1> QED
  BY <1>1, <1>2, <1>3, <1>4, <1>5, <1>6, <1>7, <1>8, <1>9, <1>10, <1>11, <1>12, <1>13,
     <1>14, <1>15, <1>16, <1>17, <1>18, <1>19, <1>20, <1>21, <1>22, <1>23, <1>24, <1>25,
     <1>26, <1>27, <1>28, <1>29, <1>30, <1>31, <1>32, <1>33, <1>34, <1>35, <1>36, <1>37 DEF Next,
     CallStep, Begin, MonitorStep, EndStep, HookStep

\* When a step ends the goal, the result that it writes agrees with it.
LEMMA EndingStep == GoalInv /\ [Next]_vars /\ ~Ended => ResultAgrees'
<1> SUFFICES ASSUME GoalInv, [Next]_vars, ~Ended PROVE ResultAgrees'
  OBVIOUS
<1>c. goal \in Goal /\ goal.status \notin Terminal
  BY DEF GoalInv, TypeOK, Ended
<1>n. \A s \in {"running", "waiting_input", "waiting_approval", "validating", "reviewing"} :
       s \notin Terminal
  BY DEF Terminal
<1>w. /\ watched \in [Proc -> Call \cup {NoCall}] /\ MonitorFollows
      /\ asked \in [Call -> Waiting \cup {"none"}]
  BY DEF GoalInv, TypeOK
<1>e. ASSUME goal'.status = goal.status PROVE ResultAgrees'
  BY <1>e, <1>c DEF ResultAgrees, Ended
<1>g. ASSUME goal' = goal PROVE ResultAgrees'
  BY <1>g, <1>e
<1>1. ASSUME NEW c \in Call, Launch(c) PROVE ResultAgrees'
  BY <1>1, <1>g, <1>c, <1>n, LaunchWrites DEF Goal, ResultAgrees, Ended
<1>2. ASSUME NEW c \in Call, PrepareFails(c) PROVE ResultAgrees'
  BY <1>2, <1>g DEF PrepareFails
<1>3. ASSUME NEW c \in Call, Grant(c) PROVE ResultAgrees'
  BY <1>3, <1>g, <1>c, <1>n, GrantWrites DEF Goal, ResultAgrees, Ended
<1>4. ASSUME NEW c \in Call, AdmissionTimesOut(c) PROVE ResultAgrees'
  BY <1>4, <1>g DEF AdmissionTimesOut
<1>5. ASSUME NEW c \in Call, StartTurn(c) PROVE ResultAgrees'
  BY <1>5, <1>g DEF StartTurn
<1>6. ASSUME NEW c \in Call, LaunchFails(c) PROVE ResultAgrees'
  BY <1>6, <1>g DEF LaunchFails
<1>7. ASSUME NEW c \in Call, Authorize(c) PROVE ResultAgrees'
  BY <1>7, <1>g, <1>c, <1>n, AuthorizeWrites DEF Goal, ResultAgrees, Ended
<1>8. ASSUME NEW c \in Call, Attach(c) PROVE ResultAgrees'
  BY <1>8, <1>g, <1>c, <1>n, AttachWrites DEF Goal, ResultAgrees, Ended
<1>9. ASSUME NEW c \in Call, Recover(c) PROVE ResultAgrees'
  BY <1>9, <1>g, <1>c, <1>n, RecoverWrites DEF Goal, ResultAgrees, Ended
<1>10. ASSUME NEW c \in Call, RecoverHooks(c) PROVE ResultAgrees'
  BY <1>10, <1>g DEF RecoverHooks
<1>11. ASSUME NEW c \in Call, Revalidate(c) PROVE ResultAgrees'
  BY <1>11, <1>g, <1>c, <1>n, RevalidateWrites DEF Goal, ResultAgrees, Ended
<1>12. ASSUME NEW c \in Call, Restart(c) PROVE ResultAgrees'
  BY <1>12, <1>g, <1>c, <1>n, RestartWrites DEF Goal, ResultAgrees, Ended
<1>13. ASSUME NEW c \in Call, Rerun(c) PROVE ResultAgrees'
  BY <1>13, <1>g, <1>c, <1>n, RerunWrites DEF Goal, ResultAgrees, Ended
<1>14. ASSUME NEW c \in Call, RecoverReads(c) PROVE ResultAgrees'
  BY <1>14, <1>g DEF RecoverReads
<1>15. ASSUME NEW c \in Call, Cancel(c) PROVE ResultAgrees'
  BY <1>15, <1>g DEF Cancel
<1>16. ASSUME NEW c \in Call, ResumeReads(c) PROVE ResultAgrees'
  BY <1>16, <1>g DEF ResumeReads
<1>17. ASSUME NEW c \in Call, Ask(c) PROVE ResultAgrees'
  BY <1>17, <1>g DEF Ask
<1>18. ASSUME NEW c \in Call, TurnEnds(c) PROVE ResultAgrees'
  BY <1>18, <1>g DEF TurnEnds
<1>19. ASSUME NEW p \in Proc, HearAsk(p) PROVE ResultAgrees'
  <2>1. goal' = goal \/ goal' = [goal EXCEPT !.status = asked[watched[p]], !.thread = TRUE]
    BY <1>19, HearAskWrites
  <2>2. asked[watched[p]] \notin Terminal
    BY <1>19, <1>w, StatusTypes DEF HearAsk, AtPc, MonitorFollows, Waiting, Terminal
  <2> QED
    BY <2>1, <2>2, <1>c, <1>g DEF Goal, ResultAgrees, Ended
<1>20. ASSUME NEW p \in Proc, HearEnd(p) PROVE ResultAgrees'
  BY <1>20, <1>g, <1>c, <1>n, HearEndWrites DEF Goal, ResultAgrees, Ended
<1>21. ASSUME NEW p \in Proc, TurnOver(p) PROVE ResultAgrees'
  BY <1>21, <1>g, <1>c, <1>n, TurnOverWrites DEF Goal, ResultAgrees, Ended
<1>22. ASSUME NEW p \in Proc, StopWatching(p) PROVE ResultAgrees'
  BY <1>22, <1>g DEF StopWatching
<1>23. ASSUME NEW p \in Proc, Crash(p) PROVE ResultAgrees'
  BY <1>23, <1>g DEF Crash
<1>24. ASSUME NEW t \in Thread, Validate(t) PROVE ResultAgrees'
  BY <1>24, <1>g, <1>c, <1>n, ValidateWrites DEF Goal, ResultAgrees, Ended
<1>25. ASSUME NEW t \in Thread, AcceptanceEnds(t) PROVE ResultAgrees'
  BY <1>25, <1>g DEF AcceptanceEnds
<1>26. ASSUME NEW t \in Thread, AcceptanceWaits(t) PROVE ResultAgrees'
  BY <1>26, <1>g DEF AcceptanceWaits
<1>27. ASSUME NEW t \in Thread, Review(t) PROVE ResultAgrees'
  BY <1>27, <1>g, <1>c, <1>n, ReviewWrites DEF Goal, ResultAgrees, Ended
<1>28. ASSUME NEW t \in Thread, Judge(t) PROVE ResultAgrees'
  BY <1>28, <1>g DEF Judge
<1>29. ASSUME NEW t \in Thread, End(t) PROVE ResultAgrees'
  BY <1>29, <1>g DEF End
<1>30. ASSUME NEW t \in Thread, Settle(t) PROVE ResultAgrees'
  BY <1>30, <1>c, <1>g DEF Settle, Goal, ResultAgrees, Ended
<1>31. ASSUME NEW t \in Thread, SettleTorn(t) PROVE ResultAgrees'
  BY <1>31, <1>g DEF SettleTorn
<1>32. ASSUME NEW d \in pending, Claim(d) PROVE ResultAgrees'
  BY <1>32, <1>g DEF Claim
<1>33. ASSUME NEW d \in pending, Deliver(d) PROVE ResultAgrees'
  BY <1>33, <1>g DEF Deliver
<1>34. ASSUME NEW d \in pending, Finish(d) PROVE ResultAgrees'
  BY <1>34, <1>g DEF Finish
<1>35. CASE UNCHANGED vars
  BY <1>35, <1>g DEF vars
<1>36. ASSUME NEW c \in Call, AttachFails(c) PROVE ResultAgrees'
  BY <1>36, AttachFields, <1>g, <1>c DEF AttachFails, ResultAgrees, Ended
<1>37. CASE Metadata
  BY <1>37, <1>g DEF Metadata
<1> QED
  BY <1>1, <1>2, <1>3, <1>4, <1>5, <1>6, <1>7, <1>8, <1>9, <1>10, <1>11, <1>12, <1>13,
     <1>14, <1>15, <1>16, <1>17, <1>18, <1>19, <1>20, <1>21, <1>22, <1>23, <1>24, <1>25,
     <1>26, <1>27, <1>28, <1>29, <1>30, <1>31, <1>32, <1>33, <1>34, <1>35, <1>36, <1>37 DEF Next,
     CallStep, Begin, MonitorStep, EndStep, HookStep

\* The invariant.
LEMMA StepGoal == GoalInv /\ [Next]_vars => GoalInv'
<1> SUFFICES ASSUME GoalInv, [Next]_vars PROVE GoalInv'
  OBVIOUS
<1>1. ResultAgrees'
  <2>1. CASE Ended
    BY <2>1, EndKeptStep DEF EndKept, GoalInv, ResultAgrees, Ended
  <2>2. CASE ~Ended
    BY <2>2, EndingStep
  <2> QED
    BY <2>1, <2>2
<1>2. (goal.status \in Terminal => result # "none")'
  BY <1>1 DEF ResultAgrees, Ended, Terminal
<1>3. Control' /\ goal' \in Goal /\ Deliveries' /\ Others'
  BY ControlStep, RecordStep, DeliveriesStep, OthersStep
<1>4. Flags'
  BY FlagsStep
<1>5. TypeOK'
  BY <1>2, <1>3, <1>4, Zenon DEF TypeOK, Control, Deliveries, Others, Flags
<1> QED
  BY <1>1, <1>3, <1>5 DEF GoalInv, Control

LEMMA GoalInvariant == Spec => []GoalInv
<1>1. Init => GoalInv
  BY InitGoal
<1>2. GoalInv /\ [Next]_vars => GoalInv'
  BY StepGoal
<1> QED
  BY <1>1, <1>2, PTL DEF Spec

\* The variables of the goals' model have their types, and a goal that has ended has
\* a result (src/goals/goalStore.ts, finalizeGoal), with any number of calls and of
\* processes, whichever of them die.
THEOREM GoalTypes == Spec => []TypeOK
<1>1. GoalInv => TypeOK
  BY DEF GoalInv
<1> QED
  BY <1>1, GoalInvariant, PTL

\* A goal ends once: what finalizeGoal has written, goal.json and result.json alike,
\* no later answer, cancellation, recovery, resume or death changes.
THEOREM GoalEndsOnce == Spec => EndIsFinal
<1>1. GoalInv /\ [Next]_vars
        => [Ended => goal'.status = goal.status /\ result = goal.status /\ result' = result]_vars
  BY EndKeptStep DEF GoalInv, ResultAgrees, EndKept
<1> QED
  BY <1>1, GoalInvariant, PTL DEF Spec, EndIsFinal

-----------------------------------------------------------------------------
(* Who carries the goal.                                                   *)

Launching  == {"snapshot", "grant", "launch", "attach", "authorize"}
Concluding == {"validate", "accept", "judge", "end", "settle"}

\* A start or resume that launches a turn or concludes the goal.
CallCarries(c) ==
  Alive(c) /\ KindOf[c] \in {"start", "resume"} /\ pc[c] \in Launching \cup Concluding

TurnCarries(c) == Alive(c) /\ turn[c] = "working"

\* The goal is such that the end of c's turn is handled when it is heard again.
Open(c) ==
  /\ ~Ended /\ goal.run = c /\ goal.status # "running"
  /\ ~(goal.status \in Waiting /\ goal.ended)

\* The monitor of c's process follows c, and has not heard the end of the turn, or
\* is handling it, or may yet be told of it again (HearEnd).
MonitorCarries(c) ==
  LET p == ProcOf[c] IN
  /\ Alive(c) /\ watched[p] = c
  /\ \/ pc[p] \in Concluding \cup {"turnOver"}
     \/ pc[p] = "watch" /\ "end" \notin heard[p]
     \/ pc[p] = "watch" /\ "again" \notin heard[p] /\ Open(c)

Carries(c) == CallCarries(c) \/ TurnCarries(c) \/ MonitorCarries(c)

Judged == goal.from \in {"validating", "reviewing"}

\* What is so whatever calls overlap.
PlaceInv ==
  /\ \A p \in Proc :
       /\ watched[p] = NoCall => heard[p] = {}
       /\ watched[p] # NoCall => ProcOf[watched[p]] = p /\ pc[watched[p]] = "done"
       /\ "end" \in heard[p] => /\ turn[watched[p]] \notin {"none", "working"}
                                /\ asked[watched[p]] # "none" => "ask" \in heard[p]
       /\ pc[p] = "turnOver" => "end" \in heard[p]
       /\ pc[p] \in {"idle", "watch", "turnOver"} \cup Concluding
  /\ \A c \in Call :
       /\ KindOf[c] = "recover" => pc[c] \in {"idle", "recover", "hooks", "done", "failed"}
       /\ KindOf[c] = "cancel" => pc[c] \in {"idle", "end", "settle", "done"}
       /\ KindOf[c] \in {"start", "resume"} =>
            pc[c] \notin {"recover", "hooks", "watch", "turnOver"}
       /\ KindOf[c] = "cancel" /\ pc[c] \in {"end", "settle"} => want[c] = "cancelled"
       /\ pc[c] \in {"idle", "snapshot", "grant", "launch", "authorize",
                     "revalidate", "restart", "rerun"} => turn[c] = "none"

Orderly == mishap \cap {"raced", "seized"} = {}

\* While the goal is carried, nothing of it can be resumed.
Held ==
  \/ Ended
  \/ ~goal.ended /\ ~goal.recovery
  \/ goal.status \in {"validating", "reviewing"} /\ Judged

OneCarrier == \A c, d \in Call : Carries(c) /\ Carries(d) => c = d
CarriedHeld == \A c \in Call : Carries(c) => Held

\* A goal whose validation was interrupted is validated again by a call; any other
\* is by its monitor.
JudgedInv ==
  /\ Judged => /\ \A p \in up : pc[p] = "idle"
               /\ \A c \in Call : Alive(c) =>
                    turn[c] # "working" /\ pc[c] \notin Launching \cup {"restart", "rerun"}
  /\ ~Judged =>
       \A c \in Call : Alive(c) => pc[c] \notin {"revalidate", "validate", "accept", "judge"}

\* A monitor at work follows the run of the record.
Following(p) ==
  \/ pc[p] = "watch" /\ "end" \notin heard[p]
  \/ pc[p] \in Concluding \cup {"turnOver"}
FollowsInv ==
  \A p \in up : /\ Following(p) => Ended \/ goal.run = watched[p]
                /\ pc[p] = "turnOver" => Ended \/ goal.status \in Waiting

CarrierInv == Orderly => OneCarrier /\ CarriedHeld /\ JudgedInv /\ FollowsInv

\* At first every monitor is at rest and no turn has begun.
LEMMA InitPlace == Init => PlaceInv
BY GoalAssumption DEF Init, PlaceInv, Thread, Concluding

\* A goal that has not ended can always be cancelled, or fail.
LEMMA CancelAllowed ==
  ASSUME goal \in Goal, ~Ended PROVE CanBe("cancelled") /\ CanBe("failed")
<1>1. goal.status \in Waiting \cup Busy
  BY DEF Goal, Status, Ended
<1>2. /\ AllowedTransitions["queued"] = {"running", "waiting_input", "failed", "cancelled"}
      /\ AllowedTransitions["running"] = Waiting \cup {"validating", "failed", "cancelled"}
      /\ AllowedTransitions["waiting_input"] = {"running", "validating", "failed", "cancelled"}
      /\ AllowedTransitions["waiting_approval"] = {"running", "failed", "cancelled"}
      /\ AllowedTransitions["validating"] = {"reviewing", "waiting_input"} \cup Terminal
      /\ AllowedTransitions["reviewing"] = {"waiting_input"} \cup Terminal
  BY DEF AllowedTransitions, Status, Waiting, Busy
<1> QED
  BY <1>1, <1>2 DEF CanBe, Waiting, Busy, Terminal

\* No step takes a thread to where calls of its kind never are.
LEMMA PlaceStep == GoalInv /\ PlaceInv /\ [Next]_vars => PlaceInv'
<1> SUFFICES ASSUME GoalInv, PlaceInv, [Next]_vars PROVE PlaceInv'
  OBVIOUS
<1>c. /\ PlaceInv /\ pc \in [Thread -> At] /\ want \in [Thread -> Status \cup {"none"}]
      /\ watched \in [Proc -> Call \cup {NoCall}]
      /\ turn \in [Call -> TurnState] /\ asked \in [Call -> Waiting \cup {"none"}]
      /\ heard \in [Proc -> SUBSET {"ask", "end", "again"}]
      /\ MonitorFollows /\ goal \in Goal
  BY DEF GoalInv, TypeOK
<1> USE <1>c, GoalAssumption DEF PlaceInv, Concluding, Thread, AtPc, Home, Asks, Goto
<1>1. ASSUME NEW c \in Call, Launch(c) PROVE PlaceInv'
  BY <1>1 DEF Launch, control, provider, monitors
<1>2. ASSUME NEW c \in Call, PrepareFails(c) PROVE PlaceInv'
  BY <1>2 DEF PrepareFails, control, provider, monitors, Finalize
<1>3. ASSUME NEW c \in Call, Grant(c) PROVE PlaceInv'
  BY <1>3 DEF Grant, control, provider, monitors
<1>4. ASSUME NEW c \in Call, AdmissionTimesOut(c) PROVE PlaceInv'
  BY <1>4 DEF AdmissionTimesOut, control, provider, monitors, Finalize
<1>5. ASSUME NEW c \in Call, StartTurn(c) PROVE PlaceInv'
  BY <1>5 DEF StartTurn, control, provider, monitors
<1>6. ASSUME NEW c \in Call, LaunchFails(c) PROVE PlaceInv'
  BY <1>6 DEF LaunchFails, control, provider, monitors, Finalize
<1>7. ASSUME NEW c \in Call, Authorize(c) PROVE PlaceInv'
  BY <1>7 DEF Authorize, control, provider, monitors
<1>8. ASSUME NEW c \in Call, Attach(c) PROVE PlaceInv'
  BY <1>8 DEF Attach, control, provider, monitors, Follow, MonitorFollows
<1>9. ASSUME NEW c \in Call, Recover(c) PROVE PlaceInv'
  BY <1>9 DEF Recover, control, provider, monitors
<1>10. ASSUME NEW c \in Call, RecoverHooks(c) PROVE PlaceInv'
  BY <1>10 DEF RecoverHooks, control, provider, monitors
<1>11. ASSUME NEW c \in Call, Revalidate(c) PROVE PlaceInv'
  BY <1>11 DEF Revalidate, control, provider, monitors, Resume
<1>12. ASSUME NEW c \in Call, Restart(c) PROVE PlaceInv'
  BY <1>12 DEF Restart, control, provider, monitors, Resume
<1>13. ASSUME NEW c \in Call, Rerun(c) PROVE PlaceInv'
  BY <1>13 DEF Rerun, control, provider, monitors, Resume
<1>14. ASSUME NEW c \in Call, RecoverReads(c) PROVE PlaceInv'
  BY <1>14 DEF RecoverReads, control, provider, monitors
<1>15. ASSUME NEW c \in Call, Cancel(c) PROVE PlaceInv'
  BY <1>15 DEF Cancel, control, provider, monitors, Finalize
<1>16. ASSUME NEW c \in Call, ResumeReads(c) PROVE PlaceInv'
  BY <1>16 DEF ResumeReads, control, provider, monitors
<1>17. ASSUME NEW c \in Call, Ask(c) PROVE PlaceInv'
  BY <1>17 DEF Ask, control, provider, monitors
<1>18. ASSUME NEW c \in Call, TurnEnds(c) PROVE PlaceInv'
  BY <1>18 DEF TurnEnds, control, provider, monitors
<1>19. ASSUME NEW p \in Proc, HearAsk(p) PROVE PlaceInv'
  BY <1>19 DEF HearAsk, control, provider, monitors, Throw, Finalize, MonitorFollows
<1>20. ASSUME NEW p \in Proc, HearEnd(p) PROVE PlaceInv'
  BY <1>20 DEF HearEnd, control, provider, monitors, Finalize, MonitorFollows
<1>21. ASSUME NEW p \in Proc, TurnOver(p) PROVE PlaceInv'
  BY <1>21 DEF TurnOver, control, provider, monitors, Back
<1>22. ASSUME NEW p \in Proc, StopWatching(p) PROVE PlaceInv'
  BY <1>22 DEF StopWatching, control, provider, monitors, MonitorFollows
<1>23. ASSUME NEW p \in Proc, Crash(p) PROVE PlaceInv'
  BY <1>23 DEF Crash, control, provider, monitors, Dies
<1>24. ASSUME NEW t \in Thread, Validate(t) PROVE PlaceInv'
  BY <1>24 DEF Validate, control, provider, monitors, Back, Throw, Finalize
<1>25. ASSUME NEW t \in Thread, AcceptanceEnds(t) PROVE PlaceInv'
  BY <1>25 DEF AcceptanceEnds, control, provider, monitors, Finalize
<1>26. ASSUME NEW t \in Thread, AcceptanceWaits(t) PROVE PlaceInv'
  BY <1>26 DEF AcceptanceWaits, control, provider, monitors, Back
<1>27. ASSUME NEW t \in Thread, Review(t) PROVE PlaceInv'
  BY <1>27 DEF Review, control, provider, monitors, Back, Finalize
<1>28. ASSUME NEW t \in Thread, Judge(t) PROVE PlaceInv'
  BY <1>28 DEF Judge, control, provider, monitors, Finalize
<1>29. ASSUME NEW t \in Thread, End(t) PROVE PlaceInv'
  BY <1>29 DEF End, control, provider, monitors, Back
<1>30. ASSUME NEW t \in Thread, Settle(t) PROVE PlaceInv'
  <2>1. CASE Back(t)
    BY <1>30, <2>1 DEF Settle, control, provider, monitors, Back
  <2>2. CASE ~Ended /\ ~CanBe(want[t]) /\ Finalize(t, "failed")
    <3>1. want[t] # "cancelled"
      BY <2>2, CancelAllowed
    <3> QED
      BY <1>30, <2>2, <3>1 DEF Settle, control, provider, monitors, Finalize
  <2> QED
    BY <1>30, <2>1, <2>2 DEF Settle
<1>31. ASSUME NEW t \in Thread, SettleTorn(t) PROVE PlaceInv'
  BY <1>31 DEF SettleTorn, control, provider, monitors, Dies
<1>32. ASSUME NEW d \in pending, Claim(d) PROVE PlaceInv'
  BY <1>32 DEF Claim, control, provider, monitors
<1>33. ASSUME NEW d \in pending, Deliver(d) PROVE PlaceInv'
  BY <1>33 DEF Deliver, control, provider, monitors
<1>34. ASSUME NEW d \in pending, Finish(d) PROVE PlaceInv'
  BY <1>34 DEF Finish, control, provider, monitors
<1>35. CASE UNCHANGED vars
  BY <1>35 DEF vars, control, provider, monitors
<1>36. ASSUME NEW c \in Call, AttachFails(c) PROVE PlaceInv'
  BY <1>36 DEF AttachFails, Attached, control, provider, monitors, Finalize
<1>37. CASE Metadata
  BY <1>37 DEF Metadata, control, provider, monitors
<1> QED
  BY <1>1, <1>2, <1>3, <1>4, <1>5, <1>6, <1>7, <1>8, <1>9, <1>10, <1>11, <1>12, <1>13, <1>14,
     <1>15, <1>16, <1>17, <1>18, <1>19, <1>20, <1>21, <1>22, <1>23, <1>24, <1>25, <1>26, <1>27,
     <1>28, <1>29, <1>30, <1>31, <1>32, <1>33, <1>34, <1>35, <1>36, <1>37 DEF Next, CallStep,
     Begin, MonitorStep, EndStep, HookStep

\* A step that gives the goal no carrier it has not had, and one that gives it one.
NoNew  == \A c \in Call : Carries(c)' => Carries(c)
OneNew == Resumable /\ Held' /\ \E d \in Call : \A c \in Call : Carries(c)' => Carries(c) \/ c = d

\* What a resume writes of the record: the run, the lease and what has been
\* interrupted stay as they are.
LEMMA ResumeFields ==
  ASSUME goal \in Goal, NEW c \in Call, NEW from, NEW to, NEW s, Resume(c, from, to, s)
  PROVE  /\ goal'.run = goal.run /\ goal'.from = goal.from /\ goal'.lease = goal.lease
         /\ \/ goal' = goal /\ Goto(c, "done") /\ mishap' = mishap
            \/ /\ ~Ended /\ goal'.status = s /\ ~goal'.recovery /\ (s = "running" => ~goal'.ended)
               /\ Orderly' => Resumable /\ mishap' = mishap
<1> DEFINE e == IF s = "running" THEN FALSE ELSE goal.ended
           k == IF from = "restart" THEN goal.key ELSE KeyOf[c]
           g == [goal EXCEPT !.status = s, !.recovery = FALSE, !.ended = e, !.key = k]
<1>1. \/ goal' = goal /\ Goto(c, "done") /\ mishap' = mishap
      \/ goal' = g /\ ~Ended /\ (Orderly' => Resumable /\ mishap' = mishap)
  BY DEF Resume, Orderly
<1> HIDE DEF e, k
<1>2. g.run = goal.run /\ g.from = goal.from /\ g.lease = goal.lease
  BY DEF Goal
<1>3. g.status = s /\ ~g.recovery /\ g.ended = e
  BY DEF Goal
<1> HIDE DEF g
<1>4. s = "running" => ~e
  BY DEF e
<1> QED
  BY <1>1, <1>2, <1>3, <1>4

\* A recovery keeps the run and the lease, and no goal that has ended waits again.
LEMMA RecoverFields ==
  ASSUME goal \in Goal, NEW c \in Call, Recover(c)
  PROVE  /\ goal'.run = goal.run /\ goal'.lease = goal.lease
         /\ goal' = goal \/ (~Ended /\ goal'.status \in {goal.status, "waiting_input"})
         /\ Orderly' => goal' = goal \/ ~AtWork
<1> DEFINE g == [goal EXCEPT !.recovery = TRUE, !.from = want[c]]
           h == [goal EXCEPT !.status = "waiting_input", !.recovery = TRUE, !.from = want[c]]
<1>1. goal' = goal \/ (~Ended /\ goal' \in {g, h})
  <2>1. "waiting_input" \notin Terminal
    BY DEF Terminal
  <2>2. Ended => goal' = goal
    BY <2>1, NotEnded DEF Recover, Patched
  <2> QED
    BY <2>2, RecoverWrites
<1>2. g.run = goal.run /\ g.lease = goal.lease /\ g.status = goal.status
  BY DEF Goal
<1>3. h.run = goal.run /\ h.lease = goal.lease /\ h.status = "waiting_input"
  BY DEF Goal
<1> HIDE DEF g, h
<1>4. Orderly' => goal' = goal \/ ~AtWork
  BY DEF Recover, Orderly
<1> QED
  BY <1>1, <1>2, <1>3, <1>4

\* What the monitor writes when the turn asks for the owner.
LEMMA HearAskFields ==
  ASSUME GoalInv, NEW p \in Proc, HearAsk(p)
  PROVE  /\ goal'.run = goal.run /\ goal'.from = goal.from /\ goal'.lease = goal.lease
         /\ goal'.ended = goal.ended
         /\ goal' = goal \/ (Heeded(p) /\ goal'.status \in Waiting)
<1> DEFINE s == asked[watched[p]]
           g == [goal EXCEPT !.status = s, !.thread = TRUE]
<1>1. s \in Waiting /\ goal \in Goal
  BY DEF HearAsk, GoalInv, TypeOK, MonitorFollows, AtPc
<1>2. goal' = goal \/ (Heeded(p) /\ goal' = g)
  BY DEF HearAsk
<1> HIDE DEF s
<1>3. g.run = goal.run /\ g.from = goal.from /\ g.lease = goal.lease /\ g.ended = goal.ended
      /\ g.status = s
  BY <1>1 DEF Goal
<1> HIDE DEF g
<1> QED
  BY <1>1, <1>2, <1>3

\* What is written of a launch that lacks an authorization.
LEMMA AuthorizeFields ==
  ASSUME goal \in Goal, NEW c \in Call, Authorize(c)
  PROVE  /\ goal'.run = goal.run /\ goal'.from = goal.from /\ goal'.lease = goal.lease
         /\ goal' = goal \/ (~Ended /\ goal'.status = "waiting_approval" /\ goal'.ended)
<1> DEFINE k == goal.retry \/ ~goal.thread
           g == [goal EXCEPT !.status = "waiting_approval", !.recovery = TRUE, !.ended = TRUE,
                             !.retry = k]
<1>1. goal' = goal \/ (~Ended /\ goal' = g)
  <2>1. "waiting_approval" \notin Terminal
    BY DEF Terminal
  <2> QED
    BY <2>1, NotEnded DEF Authorize
<1> HIDE DEF k
<1>2. g.run = goal.run /\ g.from = goal.from /\ g.lease = goal.lease
      /\ g.status = "waiting_approval" /\ g.ended
  BY DEF Goal
<1> HIDE DEF g
<1> QED
  BY <1>1, <1>2

\* A step gives the goal no new carrier, or it gives it one when it can be resumed
\* and leaves it so that it cannot.
LEMMA CarriersStep ==
  GoalInv /\ PlaceInv /\ CarrierInv /\ Orderly' /\ [Next]_vars => NoNew \/ OneNew
<1> SUFFICES ASSUME GoalInv, PlaceInv, CarrierInv, Orderly', [Next]_vars PROVE NoNew \/ OneNew
  OBVIOUS
<1>c. /\ pc \in [Thread -> At] /\ want \in [Thread -> Status \cup {"none"}]
      /\ watched \in [Proc -> Call \cup {NoCall}]
      /\ turn \in [Call -> TurnState] /\ asked \in [Call -> Waiting \cup {"none"}]
      /\ heard \in [Proc -> SUBSET {"ask", "end", "again"}] /\ goal \in Goal
  BY DEF GoalInv, TypeOK
<1>p. /\ \A p \in Proc : watched[p] # NoCall => ProcOf[watched[p]] = p /\ pc[watched[p]] = "done"
      /\ \A p \in Proc : watched[p] = NoCall => heard[p] = {} /\ pc[p] = "idle"
      /\ \A c \in Call : pc[c] \in Launching \cup {"revalidate", "restart", "rerun"} \cup Concluding
                          => KindOf[c] \in {"start", "resume"} \/ want[c] = "cancelled"
      /\ \A c \in Call : pc[c] \in Launching \cup {"revalidate", "restart", "rerun", "validate",
                                                   "accept", "judge"}
                          => KindOf[c] \in {"start", "resume"}
      /\ \A c \in Call : KindOf[c] \notin {"start", "resume"}
                          => pc[c] \notin {"validate", "accept", "judge"}
  BY GoalAssumption DEF PlaceInv, GoalInv, MonitorFollows, Launching, Concluding, Kind
<1>o. goal'.status = goal.status /\ goal'.run = goal.run /\ goal'.ended = goal.ended
        => \A x \in Call : Open(x)' = Open(x)
  BY DEF Open, Ended
<1> USE <1>c, GoalAssumption DEF Thread, AtPc, Home, Asks, Goto, Alive, Carries, CallCarries,
        TurnCarries, MonitorCarries, Launching, Concluding
<1>1. ASSUME NEW c \in Call, Launch(c) PROVE NoNew \/ OneNew
  <2>1. \A x \in Call : Open(x)' => Open(x)
    BY <1>1, LaunchWrites DEF Goal, Open, Ended
  <2> QED
    BY <1>1, <2>1, <1>p DEF Launch, NoNew, provider, monitors
<1>2. ASSUME NEW c \in Call, PrepareFails(c) PROVE NoNew \/ OneNew
  BY <1>2, <1>o DEF PrepareFails, NoNew, control, provider, monitors, Finalize
<1>3. ASSUME NEW c \in Call, Grant(c) PROVE NoNew \/ OneNew
  <2>1. goal'.status = goal.status /\ goal'.run = goal.run /\ goal'.ended = goal.ended
    BY <1>3, GrantWrites DEF Goal
  <2> QED
    BY <1>3, <2>1, <1>o, <1>p DEF Grant, NoNew, provider, monitors
<1>4. ASSUME NEW c \in Call, AdmissionTimesOut(c) PROVE NoNew \/ OneNew
  BY <1>4, <1>o DEF AdmissionTimesOut, NoNew, control, provider, monitors, Finalize
<1>5. ASSUME NEW c \in Call, StartTurn(c) PROVE NoNew \/ OneNew
  <2>1. /\ UNCHANGED <<up, watched, heard, goal>> /\ pc[c] = "launch" /\ Alive(c)
        /\ \/ pc' = [pc EXCEPT ![c] = "done"] /\ turn' = turn
           \/ pc' = [pc EXCEPT ![c] = "attach"] /\ turn' = [turn EXCEPT ![c] = "working"]
    BY <1>5 DEF StartTurn, monitors
  <2>2. CallCarries(c)
    BY <2>1, <1>p
  <2>3. \A x \in Call : x # c => Carries(x)' = Carries(x)
    BY <2>1, <1>o
  <2> QED
    BY <2>2, <2>3 DEF NoNew
<1>6. ASSUME NEW c \in Call, LaunchFails(c) PROVE NoNew \/ OneNew
  BY <1>6, <1>o DEF LaunchFails, NoNew, control, provider, monitors, Finalize
<1>7. ASSUME NEW c \in Call, Authorize(c) PROVE NoNew \/ OneNew
  <2>1. \A x \in Call : Open(x)' => Open(x)
    BY <1>7, AuthorizeFields DEF Open, Ended, Waiting
  <2> QED
    BY <1>7, <2>1 DEF Authorize, NoNew, provider, monitors
<1>8. ASSUME NEW c \in Call, Attach(c) PROVE NoNew \/ OneNew
  <2>1. CallCarries(c)
    BY <1>8, <1>p DEF Attach
  <2>2. \A x \in Call : x # c => (Open(x)' => Open(x))
    BY <1>8, AttachFields DEF Open, Ended
  <2>3. /\ UNCHANGED <<up, turn, heard>>
        /\ \A x \in Call : x # c => pc'[x] = pc[x]
        /\ \A p \in Proc : (watched'[p] = watched[p] /\ pc'[p] = pc[p]) \/ watched'[p] = c
    BY <1>8 DEF Attach, Follow, provider
  <2>4. \A x \in Call : x # c => (Carries(x)' => Carries(x))
    BY <2>2, <2>3
  <2> QED
    BY <2>1, <2>4 DEF NoNew
<1>9. ASSUME NEW c \in Call, Recover(c) PROVE NoNew \/ OneNew
  <2>1. goal' = goal \/ ~AtWork
    BY <1>9, RecoverFields
  <2>2. /\ UNCHANGED <<up, turn, watched, heard>> /\ KindOf[c] = "recover"
        /\ \A t \in Thread : t # c => pc'[t] = pc[t]
    BY <1>9, <1>p DEF Recover, provider, monitors, PlaceInv, Kind
  <2>3. CASE goal' = goal
    BY <2>2, <2>3, <1>o DEF NoNew
  <2>4. CASE ~AtWork
    <3>1. \A p \in up : p \in Proc => pc[p] \in {"idle", "hooks", "done", "failed"}
      BY <2>4 DEF AtWork
    <3> QED
      BY <2>2, <3>1 DEF NoNew
  <2> QED
    BY <2>1, <2>3, <2>4
<1>10. ASSUME NEW c \in Call, RecoverHooks(c) PROVE NoNew \/ OneNew
  BY <1>10, <1>o DEF RecoverHooks, NoNew, control, provider, monitors, PlaceInv
<1>11. ASSUME NEW c \in Call, Revalidate(c) PROVE NoNew \/ OneNew
  <2>1. /\ mishap' = mishap
        /\ Resumable \/ pc' = [pc EXCEPT ![c] = "done"]
    BY <1>11, ResumeFields DEF Revalidate
  <2>2. /\ UNCHANGED <<up, turn, watched, heard>> /\ Alive(c)
        /\ \A t \in Thread : t # c => pc'[t] = pc[t]
    BY <1>11 DEF Revalidate, Resume, provider, monitors
  <2>3. \A x \in Call : MonitorCarries(x)' => MonitorCarries(x)
    <3>1. \A p \in up : pc[p] = "idle"
      <4>1. JudgedInv /\ pc[c] = "revalidate"
        BY <1>11, <2>1 DEF Revalidate, Resume, CarrierInv, Orderly
      <4> QED
        BY <2>2, <4>1 DEF JudgedInv
    <3> QED
      BY <2>2, <3>1
  <2>4. CASE pc'[c] = "done"
    BY <2>2, <2>3, <2>4 DEF NoNew
  <2>5. CASE pc'[c] # "done"
    <3>1. Held'
      <4>1. JudgedInv /\ pc[c] = "revalidate"
        BY <1>11, <2>1 DEF Revalidate, Resume, CarrierInv, Orderly
      <4>2. Judged
        BY <2>2, <4>1 DEF JudgedInv
      <4> QED
        BY <1>11, <2>5, <4>2, ResumeFields DEF Revalidate, Held, Judged
    <3> QED
      BY <2>1, <2>2, <2>3, <2>5, <3>1 DEF OneNew
  <2> QED
    BY <2>4, <2>5
<1>12. ASSUME NEW c \in Call, Restart(c) PROVE NoNew \/ OneNew
  <2>1. /\ mishap' = mishap
        /\ Resumable \/ pc' = [pc EXCEPT ![c] = "done"]
    BY <1>12, ResumeFields DEF Restart
  <2>2. /\ UNCHANGED <<up, turn, watched, heard>> /\ Alive(c)
        /\ \A t \in Thread : t # c => pc'[t] = pc[t]
    BY <1>12 DEF Restart, Resume, provider, monitors
  <2>3. \A x \in Call : MonitorCarries(x)' => MonitorCarries(x)
    <3>1. \A x \in Call : Open(x)' => Open(x)
      BY <1>12, ResumeFields DEF Restart, Open, Ended
    <3> QED
      BY <2>2, <3>1
  <2>4. CASE pc'[c] = "done"
    BY <2>2, <2>3, <2>4 DEF NoNew
  <2>5. CASE pc'[c] # "done"
    <3>1. Held'
      BY <1>12, <2>2, <2>5, ResumeFields DEF Restart, Held
    <3> QED
      BY <2>1, <2>2, <2>3, <2>5, <3>1 DEF OneNew
  <2> QED
    BY <2>4, <2>5
<1>13. ASSUME NEW c \in Call, Rerun(c) PROVE NoNew \/ OneNew
  <2>1. /\ mishap' = mishap
        /\ Resumable \/ pc' = [pc EXCEPT ![c] = "done"]
    BY <1>13, ResumeFields DEF Rerun
  <2>2. /\ UNCHANGED <<up, turn, watched, heard>> /\ Alive(c)
        /\ \A t \in Thread : t # c => pc'[t] = pc[t]
    BY <1>13 DEF Rerun, Resume, provider, monitors
  <2>3. \A x \in Call : MonitorCarries(x)' => MonitorCarries(x)
    <3>1. \A x \in Call : Open(x)' => Open(x)
      BY <1>13, ResumeFields DEF Rerun, Open, Ended
    <3> QED
      BY <2>2, <3>1
  <2>4. CASE pc'[c] = "done"
    BY <2>2, <2>3, <2>4 DEF NoNew
  <2>5. CASE pc'[c] # "done"
    <3>1. Held'
      BY <1>13, <2>2, <2>5, ResumeFields DEF Rerun, Held
    <3> QED
      BY <2>1, <2>2, <2>3, <2>5, <3>1 DEF OneNew
  <2> QED
    BY <2>4, <2>5
<1>14. ASSUME NEW c \in Call, RecoverReads(c) PROVE NoNew \/ OneNew
  BY <1>14, <1>o DEF RecoverReads, NoNew, control, provider, monitors, PlaceInv
<1>15. ASSUME NEW c \in Call, Cancel(c) PROVE NoNew \/ OneNew
  BY <1>15, <1>o DEF Cancel, NoNew, control, provider, monitors, Finalize
<1>16. ASSUME NEW c \in Call, ResumeReads(c) PROVE NoNew \/ OneNew
  BY <1>16, <1>o DEF ResumeReads, NoNew, control, provider, monitors, PlaceInv
<1>17. ASSUME NEW c \in Call, Ask(c) PROVE NoNew \/ OneNew
  BY <1>17, <1>o DEF Ask, NoNew, control, provider, monitors, PlaceInv
<1>18. ASSUME NEW c \in Call, TurnEnds(c) PROVE NoNew \/ OneNew
  BY <1>18, <1>o DEF TurnEnds, NoNew, control, provider, monitors, PlaceInv
<1>19. ASSUME NEW p \in Proc, HearAsk(p) PROVE NoNew \/ OneNew
  <2>1. /\ UNCHANGED <<up, turn, watched>> /\ pc[p] = "watch" /\ p \in up /\ "end" \notin heard[p]
        /\ watched[p] # NoCall
        /\ \A q \in Proc : q # p => heard'[q] = heard[q]
        /\ \A t \in Thread : t # p => pc'[t] = pc[t]
    BY <1>19, <1>p DEF HearAsk, provider, PlaceInv, Throw, Finalize, control
  <2>2. MonitorCarries(watched[p]) /\ watched[p] \in Call
    BY <2>1, <1>p
  <2>3. \A x \in Call : x # watched[p] => (Open(x)' => Open(x))
    BY <1>19, HearAskFields DEF Heeded, Open, Ended
  <2>4. \A x \in Call : x # watched[p] => (Carries(x)' => Carries(x))
    BY <2>1, <2>3
  <2> QED
    BY <2>2, <2>4 DEF NoNew
<1>20. ASSUME NEW p \in Proc, HearEnd(p) PROVE NoNew \/ OneNew
  <2>1. /\ UNCHANGED <<up, turn, watched>> /\ pc[p] = "watch" /\ p \in up
        /\ watched[p] # NoCall
        /\ \A q \in Proc : q # p => heard'[q] = heard[q]
        /\ \A t \in Thread : t # p => pc'[t] = pc[t]
    BY <1>20, <1>p DEF HearEnd, provider, Finalize, control
  <2>2. \A x \in Call : Open(x)' = Open(x)
    BY <1>20, HearEndWrites, <1>o DEF Goal
  <2>3. PICK r \in Call : r = watched[p] /\ ProcOf[r] = p
    BY <2>1, <1>p
  <2>4. Carries(r)' => Carries(r)
    <3>1. CASE "end" \notin heard[p]
      BY <3>1, <2>1, <2>3
    <3>2. CASE "end" \in heard[p] /\ Heeded(p)
      <4>1. Open(r) /\ "again" \notin heard[p]
        BY <1>20, <3>2, <2>3 DEF HearEnd, Heeded, Open, Orderly
      <4> QED
        BY <4>1, <2>1, <2>3
    <3>3. CASE "end" \in heard[p] /\ ~Heeded(p)
      <4>1. pc' = pc /\ heard'[p] = heard[p] \cup {"again"}
        BY <1>20, <3>3 DEF HearEnd, control
      <4> QED
        BY <4>1, <3>3, <2>1, <2>2, <2>3
    <3> QED
      BY <3>1, <3>2, <3>3
  <2>5. \A x \in Call : x # r => (Carries(x)' => Carries(x))
    BY <2>1, <2>2, <2>3
  <2> QED
    BY <2>4, <2>5 DEF NoNew
<1>21. ASSUME NEW p \in Proc, TurnOver(p) PROVE NoNew \/ OneNew
  <2>1. \A x \in Call : Open(x)' => Open(x)
    BY <1>21, TurnOverWrites DEF Goal, Open, Ended
  <2> QED
    BY <1>21, <2>1, <1>p DEF TurnOver, Back, NoNew, provider, monitors
<1>22. ASSUME NEW p \in Proc, StopWatching(p) PROVE NoNew \/ OneNew
  BY <1>22, <1>o DEF StopWatching, NoNew, control, provider, monitors
<1>23. ASSUME NEW p \in Proc, Crash(p) PROVE NoNew \/ OneNew
  BY <1>23, <1>o DEF Crash, NoNew, control, provider, monitors, Dies
<1>24. ASSUME NEW t \in Thread, Validate(t) PROVE NoNew \/ OneNew
  <2>1. /\ UNCHANGED <<up, turn, watched, heard>> /\ Alive(t) /\ pc[t] = "validate"
        /\ \A x \in Thread : x # t => pc'[x] = pc[x]
        /\ mishap' = mishap
    BY <1>24 DEF Validate, Back, Throw, Finalize, provider, monitors
  <2>2. CASE t \in Call
    <3>1. \A p \in up : pc[p] = "idle"
      BY <2>1, <2>2 DEF CarrierInv, Orderly, JudgedInv, FollowsInv, Following
    <3> QED
      BY <2>1, <2>2, <3>1, <1>p DEF NoNew
  <2>3. CASE t \in Proc
    <3>1. watched[t] \in Call /\ ProcOf[watched[t]] = t
      BY <2>1, <2>3, <1>p
    <3>2. Ended \/ goal.run = watched[t]
      BY <2>1, <2>3 DEF CarrierInv, Orderly, JudgedInv, FollowsInv, Following
    <3>3. \A x \in Call : x # watched[t] => (Open(x)' => Open(x))
      BY <1>24, <3>2, ValidateWrites DEF Open, Ended, Goal, Validate
    <3>4. MonitorCarries(watched[t])
      BY <2>1, <2>3, <3>1
    <3>5. \A x \in Call : x # watched[t] => (Carries(x)' => Carries(x))
      BY <2>1, <2>3, <3>3
    <3> QED
      BY <3>4, <3>5 DEF NoNew
  <2> QED
    BY <2>2, <2>3
<1>25. ASSUME NEW t \in Thread, AcceptanceEnds(t) PROVE NoNew \/ OneNew
  BY <1>25, <1>o DEF AcceptanceEnds, NoNew, control, provider, monitors, Finalize
<1>26. ASSUME NEW t \in Thread, AcceptanceWaits(t) PROVE NoNew \/ OneNew
  BY <1>26, <1>o DEF AcceptanceWaits, NoNew, control, provider, monitors, Back
<1>27. ASSUME NEW t \in Thread, Review(t) PROVE NoNew \/ OneNew
  <2>1. /\ UNCHANGED <<up, turn, watched, heard>> /\ Alive(t) /\ pc[t] = "accept"
        /\ \A x \in Thread : x # t => pc'[x] = pc[x]
        /\ mishap' = mishap
    BY <1>27 DEF Review, Back, Throw, Finalize, provider, monitors
  <2>2. CASE t \in Call
    <3>1. \A p \in up : pc[p] = "idle"
      BY <2>1, <2>2 DEF CarrierInv, Orderly, JudgedInv, FollowsInv, Following
    <3> QED
      BY <2>1, <2>2, <3>1, <1>p DEF NoNew
  <2>3. CASE t \in Proc
    <3>1. watched[t] \in Call /\ ProcOf[watched[t]] = t
      BY <2>1, <2>3, <1>p
    <3>2. Ended \/ goal.run = watched[t]
      BY <2>1, <2>3 DEF CarrierInv, Orderly, JudgedInv, FollowsInv, Following
    <3>3. \A x \in Call : x # watched[t] => (Open(x)' => Open(x))
      BY <1>27, <3>2, ReviewWrites DEF Open, Ended, Goal, Review
    <3>4. MonitorCarries(watched[t])
      BY <2>1, <2>3, <3>1
    <3>5. \A x \in Call : x # watched[t] => (Carries(x)' => Carries(x))
      BY <2>1, <2>3, <3>3
    <3> QED
      BY <3>4, <3>5 DEF NoNew
  <2> QED
    BY <2>2, <2>3
<1>28. ASSUME NEW t \in Thread, Judge(t) PROVE NoNew \/ OneNew
  BY <1>28, <1>o DEF Judge, NoNew, control, provider, monitors, Finalize
<1>29. ASSUME NEW t \in Thread, End(t) PROVE NoNew \/ OneNew
  BY <1>29, <1>o DEF End, NoNew, control, provider, monitors, Back
<1>30. ASSUME NEW t \in Thread, Settle(t) PROVE NoNew \/ OneNew
  <2>1. \A x \in Call : Open(x)' => Open(x)
    BY <1>30 DEF Settle, Open, Ended, GoalInv, EndsInTerminal, Goal
  <2>2. UNCHANGED <<up, turn, watched, heard>> /\ Alive(t) /\ pc[t] = "settle"
    BY <1>30 DEF Settle, provider, monitors
  <2>3. \/ pc' = [pc EXCEPT ![t] = IF t \in Proc THEN "watch" ELSE "done"]
        \/ pc' = [pc EXCEPT ![t] = "end"]
    BY <1>30 DEF Settle, Back, Finalize
  <2> QED
    BY <2>1, <2>2, <2>3, <1>p DEF NoNew
<1>31. ASSUME NEW t \in Thread, SettleTorn(t) PROVE NoNew \/ OneNew
  BY <1>31, <1>o DEF SettleTorn, NoNew, control, provider, monitors, Dies
<1>32. ASSUME NEW d \in pending, Claim(d) PROVE NoNew \/ OneNew
  BY <1>32, <1>o DEF Claim, NoNew, control, provider, monitors, PlaceInv
<1>33. ASSUME NEW d \in pending, Deliver(d) PROVE NoNew \/ OneNew
  BY <1>33, <1>o DEF Deliver, NoNew, control, provider, monitors, PlaceInv
<1>34. ASSUME NEW d \in pending, Finish(d) PROVE NoNew \/ OneNew
  BY <1>34, <1>o DEF Finish, NoNew, control, provider, monitors, PlaceInv
<1>35. CASE UNCHANGED vars
  BY <1>35, <1>o DEF vars, NoNew, control, provider, monitors, PlaceInv
<1>36. ASSUME NEW c \in Call, AttachFails(c) PROVE NoNew \/ OneNew
  <2>1. CallCarries(c)
    BY <1>36, <1>p DEF AttachFails
  <2>2. \A x \in Call : x # c => (Open(x)' => Open(x))
    BY <1>36, AttachFields DEF Open, Ended
  <2>3. UNCHANGED <<up, turn, heard, watched>> /\ \A t \in Thread : t # c => pc'[t] = pc[t]
    BY <1>36 DEF AttachFails, Finalize, provider, monitors
  <2>4. \A x \in Call : x # c => (Carries(x)' => Carries(x))
    BY <2>2, <2>3
  <2> QED
    BY <2>1, <2>4 DEF NoNew
<1>37. CASE Metadata
  BY <1>37, <1>o DEF Metadata, NoNew, control, provider, monitors, PlaceInv
<1> QED
  BY <1>1, <1>2, <1>3, <1>4, <1>5, <1>6, <1>7, <1>8, <1>9, <1>10, <1>11, <1>12, <1>13, <1>14,
     <1>15, <1>16, <1>17, <1>18, <1>19, <1>20, <1>21, <1>22, <1>23, <1>24, <1>25, <1>26, <1>27,
     <1>28, <1>29, <1>30, <1>31, <1>32, <1>33, <1>34, <1>35, <1>36, <1>37 DEF Next, CallStep,
     Begin, MonitorStep, EndStep, HookStep

\* At first the call that starts the goal is all there is.
LEMMA InitCarrier == Init => CarrierInv
BY GoalAssumption DEF Init, CarrierInv, OneCarrier, CarriedHeld, JudgedInv, FollowsInv, Following,
   Carries, CallCarries, TurnCarries, MonitorCarries, Held, Judged, Launching, Concluding, Thread

\* What has gone wrong stays on the list.
LEMMA MishapGrows == [Next]_vars => mishap \subseteq mishap'
<1> SUFFICES ASSUME [Next]_vars PROVE mishap \subseteq mishap'
  BY DEF Orderly
<1>1. ASSUME NEW c \in Call, Launch(c) PROVE mishap \subseteq mishap'
  BY <1>1 DEF Launch
<1>2. ASSUME NEW c \in Call, PrepareFails(c) PROVE mishap \subseteq mishap'
  BY <1>2 DEF PrepareFails
<1>3. ASSUME NEW c \in Call, Grant(c) PROVE mishap \subseteq mishap'
  BY <1>3 DEF Grant
<1>4. ASSUME NEW c \in Call, AdmissionTimesOut(c) PROVE mishap \subseteq mishap'
  BY <1>4 DEF AdmissionTimesOut
<1>5. ASSUME NEW c \in Call, StartTurn(c) PROVE mishap \subseteq mishap'
  BY <1>5 DEF StartTurn
<1>6. ASSUME NEW c \in Call, LaunchFails(c) PROVE mishap \subseteq mishap'
  BY <1>6 DEF LaunchFails
<1>7. ASSUME NEW c \in Call, Authorize(c) PROVE mishap \subseteq mishap'
  BY <1>7 DEF Authorize
<1>8. ASSUME NEW c \in Call, Attach(c) PROVE mishap \subseteq mishap'
  BY <1>8 DEF Attach, Follow
<1>9. ASSUME NEW c \in Call, Recover(c) PROVE mishap \subseteq mishap'
  BY <1>9 DEF Recover
<1>10. ASSUME NEW c \in Call, RecoverHooks(c) PROVE mishap \subseteq mishap'
  BY <1>10 DEF RecoverHooks
<1>11. ASSUME NEW c \in Call, Revalidate(c) PROVE mishap \subseteq mishap'
  BY <1>11 DEF Revalidate, Resume
<1>12. ASSUME NEW c \in Call, Restart(c) PROVE mishap \subseteq mishap'
  BY <1>12 DEF Restart, Resume
<1>13. ASSUME NEW c \in Call, Rerun(c) PROVE mishap \subseteq mishap'
  BY <1>13 DEF Rerun, Resume
<1>14. ASSUME NEW c \in Call, RecoverReads(c) PROVE mishap \subseteq mishap'
  BY <1>14 DEF RecoverReads
<1>15. ASSUME NEW c \in Call, Cancel(c) PROVE mishap \subseteq mishap'
  BY <1>15 DEF Cancel
<1>16. ASSUME NEW c \in Call, ResumeReads(c) PROVE mishap \subseteq mishap'
  BY <1>16 DEF ResumeReads
<1>17. ASSUME NEW c \in Call, Ask(c) PROVE mishap \subseteq mishap'
  BY <1>17 DEF Ask
<1>18. ASSUME NEW c \in Call, TurnEnds(c) PROVE mishap \subseteq mishap'
  BY <1>18 DEF TurnEnds
<1>19. ASSUME NEW p \in Proc, HearAsk(p) PROVE mishap \subseteq mishap'
  BY <1>19 DEF HearAsk
<1>20. ASSUME NEW p \in Proc, HearEnd(p) PROVE mishap \subseteq mishap'
  BY <1>20 DEF HearEnd
<1>21. ASSUME NEW p \in Proc, TurnOver(p) PROVE mishap \subseteq mishap'
  BY <1>21 DEF TurnOver
<1>22. ASSUME NEW p \in Proc, StopWatching(p) PROVE mishap \subseteq mishap'
  BY <1>22 DEF StopWatching
<1>23. ASSUME NEW p \in Proc, Crash(p) PROVE mishap \subseteq mishap'
  BY <1>23 DEF Crash
<1>24. ASSUME NEW t \in Thread, Validate(t) PROVE mishap \subseteq mishap'
  BY <1>24 DEF Validate
<1>25. ASSUME NEW t \in Thread, AcceptanceEnds(t) PROVE mishap \subseteq mishap'
  BY <1>25 DEF AcceptanceEnds
<1>26. ASSUME NEW t \in Thread, AcceptanceWaits(t) PROVE mishap \subseteq mishap'
  BY <1>26 DEF AcceptanceWaits
<1>27. ASSUME NEW t \in Thread, Review(t) PROVE mishap \subseteq mishap'
  BY <1>27 DEF Review
<1>28. ASSUME NEW t \in Thread, Judge(t) PROVE mishap \subseteq mishap'
  BY <1>28 DEF Judge
<1>29. ASSUME NEW t \in Thread, End(t) PROVE mishap \subseteq mishap'
  BY <1>29 DEF End
<1>30. ASSUME NEW t \in Thread, Settle(t) PROVE mishap \subseteq mishap'
  BY <1>30 DEF Settle
<1>31. ASSUME NEW t \in Thread, SettleTorn(t) PROVE mishap \subseteq mishap'
  BY <1>31 DEF SettleTorn
<1>32. ASSUME NEW d \in pending, Claim(d) PROVE mishap \subseteq mishap'
  BY <1>32 DEF Claim
<1>33. ASSUME NEW d \in pending, Deliver(d) PROVE mishap \subseteq mishap'
  BY <1>33 DEF Deliver
<1>34. ASSUME NEW d \in pending, Finish(d) PROVE mishap \subseteq mishap'
  BY <1>34 DEF Finish
<1>35. CASE UNCHANGED vars
  BY <1>35 DEF vars
<1>36. ASSUME NEW c \in Call, AttachFails(c) PROVE mishap \subseteq mishap'
  BY <1>36 DEF AttachFails, Attached
<1>37. CASE Metadata
  BY <1>37 DEF Metadata
<1> QED
  BY <1>1, <1>2, <1>3, <1>4, <1>5, <1>6, <1>7, <1>8, <1>9, <1>10, <1>11, <1>12, <1>13, <1>14,
     <1>15, <1>16, <1>17, <1>18, <1>19, <1>20, <1>21, <1>22, <1>23, <1>24, <1>25, <1>26, <1>27,
     <1>28, <1>29, <1>30, <1>31, <1>32, <1>33, <1>34, <1>35, <1>36, <1>37 DEF Next, CallStep,
     Begin, MonitorStep, EndStep, HookStep

\* Validations of a goal that was interrupted are made by calls, and only those are.
LEMMA JudgedStep == GoalInv /\ PlaceInv /\ JudgedInv /\ Orderly' /\ [Next]_vars => JudgedInv'
<1> SUFFICES ASSUME GoalInv, PlaceInv, JudgedInv, Orderly', [Next]_vars PROVE JudgedInv'
  OBVIOUS
<1>c. /\ pc \in [Thread -> At] /\ want \in [Thread -> Status \cup {"none"}]
      /\ watched \in [Proc -> Call \cup {NoCall}] /\ turn \in [Call -> TurnState]
      /\ goal \in Goal /\ up \in SUBSET Proc
      /\ \A p \in Proc : pc[p] \in {"idle", "watch", "turnOver"} \cup Concluding
      /\ \A c \in Call : KindOf[c] = "recover" =>
           pc[c] \in {"idle", "recover", "hooks", "done", "failed"}
  BY DEF GoalInv, TypeOK, PlaceInv
<1>f. goal'.from = goal.from => (Judged' <=> Judged)
  BY DEF Judged
<1> USE <1>c, GoalAssumption DEF Thread, AtPc, Home, Asks, Goto, Alive, Launching, Concluding,
   JudgedInv
<1>1. ASSUME NEW c \in Call, Launch(c) PROVE JudgedInv'
  <2>1. goal'.from = goal.from
    BY <1>1 DEF Launch, Patched, Resume, Goal
  <2> QED
    BY <1>1, <2>1, <1>f DEF Launch, control, provider, monitors
<1>2. ASSUME NEW c \in Call, PrepareFails(c) PROVE JudgedInv'
  BY <1>2, <1>f DEF PrepareFails, control, provider, monitors, Finalize
<1>3. ASSUME NEW c \in Call, Grant(c) PROVE JudgedInv'
  <2>1. goal'.from = goal.from
    BY <1>3 DEF Grant, Patched, Resume, Goal
  <2> QED
    BY <1>3, <2>1, <1>f DEF Grant, control, provider, monitors
<1>4. ASSUME NEW c \in Call, AdmissionTimesOut(c) PROVE JudgedInv'
  BY <1>4, <1>f DEF AdmissionTimesOut, control, provider, monitors, Finalize
<1>5. ASSUME NEW c \in Call, StartTurn(c) PROVE JudgedInv'
  BY <1>5, <1>f DEF StartTurn, control, provider, monitors
<1>6. ASSUME NEW c \in Call, LaunchFails(c) PROVE JudgedInv'
  BY <1>6, <1>f DEF LaunchFails, control, provider, monitors, Finalize
<1>7. ASSUME NEW c \in Call, Authorize(c) PROVE JudgedInv'
  <2>1. goal'.from = goal.from
    BY <1>7 DEF Authorize, Patched, Resume, Goal
  <2> QED
    BY <1>7, <2>1, <1>f DEF Authorize, control, provider, monitors
<1>8. ASSUME NEW c \in Call, Attach(c) PROVE JudgedInv'
  <2>1. goal'.from = goal.from
    BY <1>8, AttachFields
  <2> QED
    BY <1>8, <2>1, <1>f DEF Attach, control, provider, monitors, Follow
<1>9. ASSUME NEW c \in Call, Recover(c) PROVE JudgedInv'
  <2>1. goal' = goal \/ ~AtWork
    BY <1>9, RecoverFields
  <2>2. /\ UNCHANGED <<up, turn>> /\ KindOf[c] = "recover"
        /\ \A t \in Thread : t # c => pc'[t] = pc[t]
        /\ pc'[c] \in {"hooks", "failed"}
    BY <1>9 DEF Recover, provider, Kind, PlaceInv
  <2>3. CASE goal' = goal
    BY <2>2, <2>3, <1>f
  <2>4. CASE ~AtWork
    <3>1. /\ \A p \in up : pc[p] = "idle"
          /\ \A x \in Call : Alive(x) => turn[x] # "working"
                                         /\ (x # c => pc[x] \notin Launching \cup Concluding
                                                         \cup {"restart", "rerun", "revalidate"})
      BY <2>4, <2>2 DEF AtWork
    <3> QED
      BY <2>2, <3>1
  <2> QED
    BY <2>1, <2>3, <2>4
<1>10. ASSUME NEW c \in Call, RecoverHooks(c) PROVE JudgedInv'
  BY <1>10, <1>f DEF RecoverHooks, control, provider, monitors
<1>11. ASSUME NEW c \in Call, Revalidate(c) PROVE JudgedInv'
  <2>1. goal'.from = goal.from
    BY <1>11, ResumeFields DEF Revalidate
  <2> QED
    BY <1>11, <2>1, <1>f DEF Revalidate, control, provider, monitors, Resume
<1>12. ASSUME NEW c \in Call, Restart(c) PROVE JudgedInv'
  <2>1. goal'.from = goal.from
    BY <1>12, ResumeFields DEF Restart
  <2> QED
    BY <1>12, <2>1, <1>f DEF Restart, control, provider, monitors, Resume
<1>13. ASSUME NEW c \in Call, Rerun(c) PROVE JudgedInv'
  <2>1. goal'.from = goal.from
    BY <1>13, ResumeFields DEF Rerun
  <2> QED
    BY <1>13, <2>1, <1>f DEF Rerun, control, provider, monitors, Resume
<1>14. ASSUME NEW c \in Call, RecoverReads(c) PROVE JudgedInv'
  BY <1>14, <1>f DEF RecoverReads, control, provider, monitors
<1>15. ASSUME NEW c \in Call, Cancel(c) PROVE JudgedInv'
  BY <1>15, <1>f DEF Cancel, control, provider, monitors, Finalize
<1>16. ASSUME NEW c \in Call, ResumeReads(c) PROVE JudgedInv'
  BY <1>16, <1>f DEF ResumeReads, control, provider, monitors, Judged
<1>17. ASSUME NEW c \in Call, Ask(c) PROVE JudgedInv'
  BY <1>17, <1>f DEF Ask, control, provider, monitors
<1>18. ASSUME NEW c \in Call, TurnEnds(c) PROVE JudgedInv'
  BY <1>18, <1>f DEF TurnEnds, control, provider, monitors
<1>19. ASSUME NEW p \in Proc, HearAsk(p) PROVE JudgedInv'
  <2>1. goal'.from = goal.from
    BY <1>19, HearAskFields
  <2> QED
    BY <1>19, <2>1, <1>f DEF HearAsk, control, provider, monitors, Finalize, Throw
<1>20. ASSUME NEW p \in Proc, HearEnd(p) PROVE JudgedInv'
  <2>1. goal'.from = goal.from
    BY <1>20 DEF HearEnd, Patched, Resume, Goal
  <2> QED
    BY <1>20, <2>1, <1>f DEF HearEnd, control, provider, monitors, Finalize
<1>21. ASSUME NEW p \in Proc, TurnOver(p) PROVE JudgedInv'
  <2>1. goal'.from = goal.from
    BY <1>21 DEF TurnOver, Patched, Resume, Goal
  <2> QED
    BY <1>21, <2>1, <1>f DEF TurnOver, control, provider, monitors, Back
<1>22. ASSUME NEW p \in Proc, StopWatching(p) PROVE JudgedInv'
  BY <1>22, <1>f DEF StopWatching, control, provider, monitors
<1>23. ASSUME NEW p \in Proc, Crash(p) PROVE JudgedInv'
  BY <1>23, <1>f DEF Crash, control, provider, monitors, Dies
<1>24. ASSUME NEW t \in Thread, Validate(t) PROVE JudgedInv'
  <2>1. goal'.from = goal.from
    BY <1>24 DEF Validate, Patched, Resume, Goal
  <2> QED
    BY <1>24, <2>1, <1>f DEF Validate, control, provider, monitors, Back, Finalize, Throw
<1>25. ASSUME NEW t \in Thread, AcceptanceEnds(t) PROVE JudgedInv'
  BY <1>25, <1>f DEF AcceptanceEnds, control, provider, monitors, Finalize
<1>26. ASSUME NEW t \in Thread, AcceptanceWaits(t) PROVE JudgedInv'
  BY <1>26, <1>f DEF AcceptanceWaits, control, provider, monitors, Back
<1>27. ASSUME NEW t \in Thread, Review(t) PROVE JudgedInv'
  <2>1. goal'.from = goal.from
    BY <1>27 DEF Review, Patched, Resume, Goal
  <2> QED
    BY <1>27, <2>1, <1>f DEF Review, control, provider, monitors, Back, Finalize
<1>28. ASSUME NEW t \in Thread, Judge(t) PROVE JudgedInv'
  BY <1>28, <1>f DEF Judge, control, provider, monitors, Finalize
<1>29. ASSUME NEW t \in Thread, End(t) PROVE JudgedInv'
  BY <1>29, <1>f DEF End, control, provider, monitors, Back
<1>30. ASSUME NEW t \in Thread, Settle(t) PROVE JudgedInv'
  <2>1. goal'.from = goal.from
    BY <1>30 DEF Settle, Patched, Resume, Goal
  <2> QED
    BY <1>30, <2>1, <1>f DEF Settle, control, provider, monitors, Back, Finalize
<1>31. ASSUME NEW t \in Thread, SettleTorn(t) PROVE JudgedInv'
  BY <1>31, <1>f DEF SettleTorn, control, provider, monitors, Dies
<1>32. ASSUME NEW d \in pending, Claim(d) PROVE JudgedInv'
  BY <1>32, <1>f DEF Claim, control, provider, monitors
<1>33. ASSUME NEW d \in pending, Deliver(d) PROVE JudgedInv'
  BY <1>33, <1>f DEF Deliver, control, provider, monitors
<1>34. ASSUME NEW d \in pending, Finish(d) PROVE JudgedInv'
  BY <1>34, <1>f DEF Finish, control, provider, monitors
<1>35. CASE UNCHANGED vars
  BY <1>35, <1>f DEF vars, control, provider, monitors
<1>36. ASSUME NEW c \in Call, AttachFails(c) PROVE JudgedInv'
  <2>1. goal'.from = goal.from
    BY <1>36, AttachFields
  <2> QED
    BY <1>36, <2>1, <1>f DEF AttachFails, provider, monitors, Finalize
<1>37. CASE Metadata
  BY <1>37, <1>f DEF Metadata, control, provider, monitors
<1> QED
  BY <1>1, <1>2, <1>3, <1>4, <1>5, <1>6, <1>7, <1>8, <1>9, <1>10, <1>11, <1>12, <1>13, <1>14,
     <1>15, <1>16, <1>17, <1>18, <1>19, <1>20, <1>21, <1>22, <1>23, <1>24, <1>25, <1>26, <1>27,
     <1>28, <1>29, <1>30, <1>31, <1>32, <1>33, <1>34, <1>35, <1>36, <1>37 DEF Next, CallStep,
     Begin, MonitorStep, EndStep, HookStep

\* Nobody finds a goal resumable that is being carried.
LEMMA HeldStep == GoalInv /\ PlaceInv /\ CarrierInv /\ Orderly' /\ [Next]_vars => CarriedHeld'
<1> SUFFICES ASSUME GoalInv, PlaceInv, CarrierInv, Orderly', [Next]_vars PROVE CarriedHeld'
  OBVIOUS
<1>c. /\ pc \in [Thread -> At] /\ watched \in [Proc -> Call \cup {NoCall}]
      /\ want \in [Thread -> Status \cup {"none"}]
      /\ turn \in [Call -> TurnState] /\ goal \in Goal /\ up \in SUBSET Proc /\ PlaceInv
  BY DEF GoalInv, TypeOK
<1>o. Orderly /\ OneCarrier /\ CarriedHeld /\ JudgedInv /\ FollowsInv
  BY MishapGrows DEF CarrierInv, Orderly
<1>h. (Held => Held') => CarriedHeld'
  BY <1>o, CarriersStep DEF NoNew, OneNew, CarriedHeld
<1>g. /\ goal'.status = goal.status /\ goal'.ended = goal.ended /\ goal'.from = goal.from
      /\ goal'.recovery = goal.recovery
      => CarriedHeld'
  BY <1>h DEF Held, Ended, Judged
<1>z. (\A c \in Call : ~Carries(c)') => CarriedHeld'
  BY DEF CarriedHeld
<1>d. ASSUME ~(Held => Held'), NEW d \in Call, Carries(d), ~Carries(d)' PROVE CarriedHeld'
  <2>1. NoNew
    BY <1>d, CarriersStep DEF OneNew
  <2> QED
    BY <1>d, <1>o, <1>z, <2>1 DEF NoNew, OneCarrier
<1>1. ASSUME NEW c \in Call, Launch(c) PROVE CarriedHeld'
  <2>1. CallCarries(c)
    BY <1>1, <1>c, GoalAssumption DEF Launch, AtPc, CallCarries, Launching, PlaceInv, Kind
  <2>2. ~Judged
    BY <1>1, <1>o, <1>c DEF Launch, AtPc, JudgedInv, Launching
  <2>3. Held
    BY <2>1, <1>o DEF CarriedHeld, Carries
  <2>4. goal' = goal \/ ~Ended
    BY <1>1, NotEnded DEF Launch, Terminal
  <2>5. Held'
    BY <1>1, <2>2, <2>3, <2>4, <1>c, LaunchWrites DEF Held, Judged, Goal, Ended
  <2> QED
    BY <2>5, <1>h
<1>2. ASSUME NEW c \in Call, PrepareFails(c) PROVE CarriedHeld'
  BY <1>2, <1>g DEF PrepareFails
<1>3. ASSUME NEW c \in Call, Grant(c) PROVE CarriedHeld'
  BY <1>3, <1>c, <1>g DEF Grant, Patched, Goal
<1>4. ASSUME NEW c \in Call, AdmissionTimesOut(c) PROVE CarriedHeld'
  BY <1>4, <1>g DEF AdmissionTimesOut
<1>5. ASSUME NEW c \in Call, StartTurn(c) PROVE CarriedHeld'
  BY <1>5, <1>g DEF StartTurn
<1>6. ASSUME NEW c \in Call, LaunchFails(c) PROVE CarriedHeld'
  BY <1>6, <1>g DEF LaunchFails
<1>7. ASSUME NEW c \in Call, Authorize(c) PROVE CarriedHeld'
  <2>1. /\ CallCarries(c) /\ pc[c] = "authorize" /\ pc'[c] = "done"
        /\ UNCHANGED <<turn, watched>>
    BY <1>7, <1>c, GoalAssumption DEF Authorize, AtPc, CallCarries, Launching, PlaceInv, Kind,
       Goto, Asks, Thread, provider, monitors
  <2>2. turn'[c] = "none" /\ watched'[ProcOf[c]] # c
    BY <2>1, <1>c, GoalAssumption DEF PlaceInv
  <2>3. Carries(c) /\ ~Carries(c)'
    BY <2>1, <2>2 DEF Carries, CallCarries, TurnCarries, MonitorCarries, Launching, Concluding
  <2> QED
    BY <2>3, <1>d, <1>h
<1>8. ASSUME NEW c \in Call, Attach(c) PROVE CarriedHeld'
  BY <1>8, <1>c, <1>g, AttachFields
<1>9. ASSUME NEW c \in Call, Recover(c) PROVE CarriedHeld'
  <2>1. goal' = goal \/ ~AtWork
    BY <1>9, <1>c, RecoverFields
  <2>2. /\ UNCHANGED <<up, turn, watched, heard>> /\ KindOf[c] = "recover"
        /\ \A t \in Thread : t # c => pc'[t] = pc[t]
    BY <1>9, <1>c, GoalAssumption DEF Recover, provider, monitors, PlaceInv, Kind, Goto, Asks,
       Thread, AtPc
  <2>3. ASSUME ~AtWork, NEW x \in Call PROVE ~Carries(x)'
    BY <2>3, <2>2, <1>c, GoalAssumption DEF AtWork, Carries, CallCarries, TurnCarries,
       MonitorCarries,
       Launching, Concluding, Alive, Home, Thread
  <2> QED
    BY <2>1, <2>3, <1>g, <1>z
<1>10. ASSUME NEW c \in Call, RecoverHooks(c) PROVE CarriedHeld'
  BY <1>10, <1>g DEF RecoverHooks
<1>11. ASSUME NEW c \in Call, Revalidate(c) PROVE CarriedHeld'
  <2>1. Judged
    BY <1>11, <1>o, <1>c DEF Revalidate, Resume, AtPc, JudgedInv
  <2>2. goal' = goal \/ Held'
    BY <1>11, <2>1, <1>c, RevalidateWrites DEF Held, Judged, Goal
  <2> QED
    BY <2>2, <1>g, <1>h
<1>12. ASSUME NEW c \in Call, Restart(c) PROVE CarriedHeld'
  <2>1. goal' = goal \/ Held'
    BY <1>12, <1>c, RestartWrites DEF Held, Goal
  <2> QED
    BY <2>1, <1>g, <1>h
<1>13. ASSUME NEW c \in Call, Rerun(c) PROVE CarriedHeld'
  <2>1. goal' = goal \/ Held'
    BY <1>13, <1>c, RerunWrites DEF Held, Goal
  <2> QED
    BY <2>1, <1>g, <1>h
<1>14. ASSUME NEW c \in Call, RecoverReads(c) PROVE CarriedHeld'
  BY <1>14, <1>g DEF RecoverReads
<1>15. ASSUME NEW c \in Call, Cancel(c) PROVE CarriedHeld'
  BY <1>15, <1>g DEF Cancel
<1>16. ASSUME NEW c \in Call, ResumeReads(c) PROVE CarriedHeld'
  BY <1>16, <1>g DEF ResumeReads
<1>17. ASSUME NEW c \in Call, Ask(c) PROVE CarriedHeld'
  BY <1>17, <1>g DEF Ask
<1>18. ASSUME NEW c \in Call, TurnEnds(c) PROVE CarriedHeld'
  BY <1>18, <1>g DEF TurnEnds
<1>19. ASSUME NEW p \in Proc, HearAsk(p) PROVE CarriedHeld'
  <2>1. ~Judged
    BY <1>19, <1>o, <1>c, GoalAssumption DEF HearAsk, AtPc, JudgedInv, Alive, Home
  <2>2. \/ goal' = goal
        \/ ~Ended /\ goal'.ended = goal.ended /\ goal'.recovery = goal.recovery
    BY <1>19, <1>c DEF HearAsk, Heeded, Goal
  <2>3. CASE goal' = goal
    BY <2>3, <1>g
  <2>4. CASE ~Ended /\ goal'.ended = goal.ended /\ goal'.recovery = goal.recovery
    <3>1. Held => Held'
      BY <2>1, <2>4 DEF Held
    <3> QED
      BY <3>1, <1>h
  <2> QED
    BY <2>2, <2>3, <2>4
<1>20. ASSUME NEW p \in Proc, HearEnd(p) PROVE CarriedHeld'
  BY <1>20, <1>c, <1>g DEF HearEnd, Patched, Goal
<1>21. ASSUME NEW p \in Proc, TurnOver(p) PROVE CarriedHeld'
  <2>1. PICK r \in Call : r = watched[p] /\ ProcOf[r] = p
    BY <1>21, <1>c DEF TurnOver, AtPc, GoalInv, MonitorFollows, PlaceInv
  <2>2. /\ p \in up /\ pc[p] = "turnOver" /\ pc'[p] = "watch" /\ "end" \in heard[p]
        /\ turn[r] # "working" /\ pc[r] = "done" /\ pc'[r] = pc[r]
        /\ UNCHANGED <<up, turn, watched, heard>>
    BY <1>21, <2>1, <1>c, GoalAssumption DEF TurnOver, AtPc, Alive, Home, Goto, Asks, Back,
       Thread,
       PlaceInv, provider, monitors
  <2>3. ~Open(r)'
    BY <1>21, <2>2, <1>o, <1>c, TurnOverWrites DEF FollowsInv, TurnOver, Patched, Open, Ended,
       Goal
  <2>4. Carries(r)
    BY <2>1, <2>2, GoalAssumption DEF Carries, MonitorCarries, Alive, Home, Concluding
  <2>5. ~Carries(r)'
    BY <2>1, <2>2, <2>3 DEF Carries, CallCarries, TurnCarries, MonitorCarries, Launching,
       Concluding
  <2> QED
    BY <2>4, <2>5, <1>d, <1>h
<1>22. ASSUME NEW p \in Proc, StopWatching(p) PROVE CarriedHeld'
  BY <1>22, <1>g DEF StopWatching
<1>23. ASSUME NEW p \in Proc, Crash(p) PROVE CarriedHeld'
  BY <1>23, <1>g DEF Crash
<1>24. ASSUME NEW t \in Thread, Validate(t) PROVE CarriedHeld'
  <2>1. CASE t \in Call
    <3>1. Judged
      BY <1>24, <2>1, <1>o, <1>c DEF Validate, AtPc, JudgedInv
    <3>2. Held => Held'
      BY <1>24, <3>1, <1>c, ValidateWrites DEF Held, Judged, Goal, Validate, Ended
    <3> QED
      BY <3>2, <1>h
  <2>2. CASE t \in Proc
    <3>1. ~Judged
      BY <1>24, <2>2, <1>o, <1>c DEF Validate, AtPc, Alive, Home, JudgedInv
    <3>2. Held => Held'
      BY <1>24, <3>1, <1>c, ValidateWrites DEF Held, Judged, Goal, Validate, Ended
    <3> QED
      BY <3>2, <1>h
  <2> QED
    BY <2>1, <2>2 DEF Thread
<1>25. ASSUME NEW t \in Thread, AcceptanceEnds(t) PROVE CarriedHeld'
  BY <1>25, <1>g DEF AcceptanceEnds
<1>26. ASSUME NEW t \in Thread, AcceptanceWaits(t) PROVE CarriedHeld'
  BY <1>26, <1>g DEF AcceptanceWaits
<1>27. ASSUME NEW t \in Thread, Review(t) PROVE CarriedHeld'
  <2>1. CASE t \in Call
    <3>1. Judged
      BY <1>27, <2>1, <1>o, <1>c DEF Review, AtPc, JudgedInv
    <3>2. Held => Held'
      BY <1>27, <3>1, <1>c, ReviewWrites DEF Held, Judged, Goal, Review, Ended
    <3> QED
      BY <3>2, <1>h
  <2>2. CASE t \in Proc
    <3>1. ~Judged
      BY <1>27, <2>2, <1>o, <1>c DEF Review, AtPc, Alive, Home, JudgedInv
    <3>2. Held => Held'
      BY <1>27, <3>1, <1>c, ReviewWrites DEF Held, Judged, Goal, Review, Ended
    <3> QED
      BY <3>2, <1>h
  <2> QED
    BY <2>1, <2>2 DEF Thread
<1>28. ASSUME NEW t \in Thread, Judge(t) PROVE CarriedHeld'
  BY <1>28, <1>g DEF Judge
<1>29. ASSUME NEW t \in Thread, End(t) PROVE CarriedHeld'
  BY <1>29, <1>g DEF End
<1>30. ASSUME NEW t \in Thread, Settle(t) PROVE CarriedHeld'
  <2>1. goal' = goal \/ Held'
    BY <1>30, <1>c DEF Settle, AtPc, GoalInv, EndsInTerminal, Held, Ended, Goal
  <2> QED
    BY <2>1, <1>g, <1>h
<1>31. ASSUME NEW t \in Thread, SettleTorn(t) PROVE CarriedHeld'
  BY <1>31, <1>g DEF SettleTorn
<1>32. ASSUME NEW d \in pending, Claim(d) PROVE CarriedHeld'
  BY <1>32, <1>g DEF Claim
<1>33. ASSUME NEW d \in pending, Deliver(d) PROVE CarriedHeld'
  BY <1>33, <1>g DEF Deliver
<1>34. ASSUME NEW d \in pending, Finish(d) PROVE CarriedHeld'
  BY <1>34, <1>g DEF Finish
<1>35. CASE UNCHANGED vars
  BY <1>35, <1>g DEF vars
<1>36. ASSUME NEW c \in Call, AttachFails(c) PROVE CarriedHeld'
  BY <1>36, <1>c, <1>g, AttachFields
<1>37. CASE Metadata
  BY <1>37, <1>g DEF Metadata
<1> QED
  BY <1>1, <1>2, <1>3, <1>4, <1>5, <1>6, <1>7, <1>8, <1>9, <1>10, <1>11, <1>12, <1>13, <1>14,
     <1>15, <1>16, <1>17, <1>18, <1>19, <1>20, <1>21, <1>22, <1>23, <1>24, <1>25, <1>26, <1>27,
     <1>28, <1>29, <1>30, <1>31, <1>32, <1>33, <1>34, <1>35, <1>36, <1>37 DEF Next, CallStep,
     Begin, MonitorStep, EndStep, HookStep

\* A monitor at work goes on with the run of the record.
LEMMA FollowsStep == GoalInv /\ PlaceInv /\ CarrierInv /\ Orderly' /\ [Next]_vars => FollowsInv'
<1> SUFFICES ASSUME GoalInv, PlaceInv, CarrierInv, Orderly', [Next]_vars PROVE FollowsInv'
  OBVIOUS
<1>c. /\ pc \in [Thread -> At] /\ watched \in [Proc -> Call \cup {NoCall}]
      /\ want \in [Thread -> Status \cup {"none"}]
      /\ heard \in [Proc -> SUBSET {"ask", "end", "again"}]
      /\ turn \in [Call -> TurnState] /\ goal \in Goal /\ up \in SUBSET Proc /\ PlaceInv
      /\ \A c \in Call : c \notin Proc
  BY GoalAssumption DEF GoalInv, TypeOK
<1>o. Orderly /\ OneCarrier /\ CarriedHeld /\ JudgedInv /\ FollowsInv
  BY MishapGrows DEF CarrierInv, Orderly
<1>w. ASSUME NEW p \in up, Following(p)
      PROVE  /\ watched[p] \in Call /\ MonitorCarries(watched[p]) /\ pc[watched[p]] = "done"
             /\ ProcOf[watched[p]] = p
  <2>1. watched[p] \in Call
    BY <1>w, <1>c DEF Following, Concluding, GoalInv, MonitorFollows
  <2> QED
    BY <1>w, <2>1, <1>c, GoalAssumption DEF Following, Concluding, PlaceInv, MonitorCarries,
       Alive, Home
<1>a. ASSUME NEW c \in Call, CallCarries(c), NEW p \in up PROVE ~Following(p)
  BY <1>a, <1>w, <1>o DEF OneCarrier, Carries, CallCarries, Launching, Concluding
<1>k. ASSUME NEW c \in Call, pc[c] \in Launching \cup {"validate", "accept", "judge"}, Alive(c)
      PROVE  CallCarries(c)
  BY <1>k, <1>c, GoalAssumption DEF CallCarries, PlaceInv, Kind, Launching, Concluding
<1>r. Resumable => \A p \in up : ~Following(p)
  <2>1. Resumable => ~Held
    BY DEF Resumable, Held, Ended, Waiting, Terminal
  <2> QED
    BY <2>1, <1>w, <1>o DEF CarriedHeld, Carries
<1>e. Ended' => FollowsInv'
  BY DEF FollowsInv
<1>q. ASSUME up' = up, \A p \in up : Following(p)' => Following(p),
             \A p \in up : ~Following(p)
      PROVE  FollowsInv'
  BY <1>q, <1>c DEF FollowsInv, Following
<1> USE <1>c, GoalAssumption DEF Thread, AtPc, Home, Asks, Goto, Alive
<1>1. ASSUME NEW c \in Call, Launch(c) PROVE FollowsInv'
  <2>1. /\ UNCHANGED <<up, watched, heard>> /\ Alive(c) /\ pc[c] = "snapshot"
        /\ \A p \in Proc : pc'[p] = pc[p]
    BY <1>1 DEF Launch, Resume, monitors
  <2>2. \A p \in up : ~Following(p)
    BY <2>1, <1>k, <1>a DEF Launching
  <2> QED
    BY <2>1, <2>2, <1>q DEF Following
<1>2. ASSUME NEW c \in Call, PrepareFails(c) PROVE FollowsInv'
  BY <1>2, <1>o DEF PrepareFails, control, provider, monitors, FollowsInv, Following,
     Concluding, Ended, Finalize
<1>3. ASSUME NEW c \in Call, Grant(c) PROVE FollowsInv'
  <2>1. goal'.status = goal.status /\ goal'.run = goal.run
    BY <1>3, GrantWrites DEF Goal
  <2> QED
    BY <1>3, <2>1, <1>o DEF Grant, monitors, FollowsInv, Following, Concluding, Ended
<1>4. ASSUME NEW c \in Call, AdmissionTimesOut(c) PROVE FollowsInv'
  BY <1>4, <1>o DEF AdmissionTimesOut, control, provider, monitors, FollowsInv, Following,
     Concluding, Ended, Finalize
<1>5. ASSUME NEW c \in Call, StartTurn(c) PROVE FollowsInv'
  BY <1>5, <1>o DEF StartTurn, control, provider, monitors, FollowsInv, Following, Concluding,
     Ended
<1>6. ASSUME NEW c \in Call, LaunchFails(c) PROVE FollowsInv'
  BY <1>6, <1>o DEF LaunchFails, control, provider, monitors, FollowsInv, Following, Concluding,
     Ended, Finalize
<1>7. ASSUME NEW c \in Call, Authorize(c) PROVE FollowsInv'
  <2>1. /\ UNCHANGED <<up, watched, heard>> /\ Alive(c) /\ pc[c] = "authorize"
        /\ \A p \in Proc : pc'[p] = pc[p]
    BY <1>7 DEF Authorize, Resume, monitors
  <2>2. \A p \in up : ~Following(p)
    BY <2>1, <1>k, <1>a DEF Launching
  <2> QED
    BY <2>1, <2>2, <1>q DEF Following
<1>8. ASSUME NEW c \in Call, Attach(c) PROVE FollowsInv'
  <2>1. \A p \in up : ~Following(p)
    BY <1>8, <1>k, <1>a DEF Attach, Launching
  <2>2. /\ up' = up /\ heard' = heard
        /\ \A p \in Proc : (watched'[p] = watched[p] /\ pc'[p] = pc[p])
                           \/ (watched'[p] = c /\ pc'[p] = "watch")
    BY <1>8 DEF Attach, Follow
  <2>3. Ended' \/ goal'.run = c
    BY <1>8 DEF Attach, Attached, Patched, Ended, Goal
  <2> QED
    BY <2>1, <2>2, <2>3, <1>e DEF FollowsInv, Following, Concluding
<1>9. ASSUME NEW c \in Call, Recover(c) PROVE FollowsInv'
  <2>1. goal' = goal \/ ~AtWork
    BY <1>9, RecoverFields
  <2>2. ASSUME ~AtWork PROVE \A p \in up : ~Following(p)
    BY <2>2 DEF AtWork, Following, Concluding
  <2>3. /\ UNCHANGED <<up, watched, heard>> /\ \A p \in Proc : pc'[p] = pc[p]
    BY <1>9 DEF Recover, monitors
  <2>4. CASE goal' = goal
    BY <2>3, <2>4, <1>o DEF FollowsInv, Following, Concluding, Ended
  <2> QED
    BY <2>1, <2>2, <2>3, <2>4, <1>q DEF Following
<1>10. ASSUME NEW c \in Call, RecoverHooks(c) PROVE FollowsInv'
  BY <1>10, <1>o DEF RecoverHooks, control, provider, monitors, FollowsInv, Following,
     Concluding, Ended
<1>11. ASSUME NEW c \in Call, Revalidate(c) PROVE FollowsInv'
  <2>1. /\ UNCHANGED <<up, watched, heard>> /\ Alive(c) /\ pc[c] = "revalidate"
        /\ \A p \in Proc : pc'[p] = pc[p]
    BY <1>11 DEF Revalidate, Resume, monitors
  <2>2. CASE Resumable
    BY <2>1, <2>2, <1>r, <1>q DEF Following
  <2>3. CASE goal' = goal
    BY <2>1, <2>3, <1>o DEF FollowsInv, Following, Concluding, Ended
  <2> QED
    BY <1>11, <2>2, <2>3, ResumeFields DEF Revalidate
<1>12. ASSUME NEW c \in Call, Restart(c) PROVE FollowsInv'
  <2>1. /\ UNCHANGED <<up, watched, heard>> /\ Alive(c) /\ pc[c] = "restart"
        /\ \A p \in Proc : pc'[p] = pc[p]
    BY <1>12 DEF Restart, Resume, monitors
  <2>2. CASE Resumable
    BY <2>1, <2>2, <1>r, <1>q DEF Following
  <2>3. CASE goal' = goal
    BY <2>1, <2>3, <1>o DEF FollowsInv, Following, Concluding, Ended
  <2> QED
    BY <1>12, <2>2, <2>3, ResumeFields DEF Restart
<1>13. ASSUME NEW c \in Call, Rerun(c) PROVE FollowsInv'
  <2>1. /\ UNCHANGED <<up, watched, heard>> /\ Alive(c) /\ pc[c] = "rerun"
        /\ \A p \in Proc : pc'[p] = pc[p]
    BY <1>13 DEF Rerun, Resume, monitors
  <2>2. CASE Resumable
    BY <2>1, <2>2, <1>r, <1>q DEF Following
  <2>3. CASE goal' = goal
    BY <2>1, <2>3, <1>o DEF FollowsInv, Following, Concluding, Ended
  <2> QED
    BY <1>13, <2>2, <2>3, ResumeFields DEF Rerun
<1>14. ASSUME NEW c \in Call, RecoverReads(c) PROVE FollowsInv'
  BY <1>14, <1>o DEF RecoverReads, control, provider, monitors, FollowsInv, Following,
     Concluding, Ended
<1>15. ASSUME NEW c \in Call, Cancel(c) PROVE FollowsInv'
  BY <1>15, <1>o DEF Cancel, control, provider, monitors, FollowsInv, Following, Concluding,
     Ended, Finalize
<1>16. ASSUME NEW c \in Call, ResumeReads(c) PROVE FollowsInv'
  BY <1>16, <1>o DEF ResumeReads, control, provider, monitors, FollowsInv, Following,
     Concluding, Ended
<1>17. ASSUME NEW c \in Call, Ask(c) PROVE FollowsInv'
  BY <1>17, <1>o DEF Ask, control, provider, monitors, FollowsInv, Following, Concluding, Ended
<1>18. ASSUME NEW c \in Call, TurnEnds(c) PROVE FollowsInv'
  BY <1>18, <1>o DEF TurnEnds, control, provider, monitors, FollowsInv, Following, Concluding,
     Ended
<1>19. ASSUME NEW p \in Proc, HearAsk(p) PROVE FollowsInv'
  <2>1. /\ goal'.run = goal.run /\ (goal'.status = goal.status \/ goal'.status \in Waiting)
        /\ Ended => goal' = goal
    BY <1>19, HearAskFields DEF Heeded
  <2>0. Ended => Ended'
    BY <2>1 DEF Ended
  <2>2. /\ UNCHANGED <<up, watched>>
        /\ \A r \in Proc : r # p => heard'[r] = heard[r] /\ pc'[r] = pc[r]
    BY <1>19 DEF HearAsk, Throw, Finalize, control
  <2>3. /\ pc[p] = "watch" /\ pc'[p] \in {"watch", "end"}
        /\ "end" \in heard[p] <=> "end" \in heard'[p]
        /\ pc'[p] = "end" => Heeded(p)
    BY <1>19 DEF HearAsk, Throw, Finalize, control
  <2>4. ASSUME NEW r \in up, Following(r)' PROVE Ended' \/ goal'.run = watched'[r]
    <3>1. CASE r = p
      <4>1. Following(p) \/ Heeded(p)
        BY <3>1, <2>3, <2>4 DEF Following, Concluding
      <4>2. Ended \/ goal.run = watched[p]
        BY <3>1, <4>1, <1>o DEF FollowsInv, Heeded
      <4> QED
        BY <3>1, <4>2, <2>0, <2>1, <2>2
    <3>2. CASE r # p
      <4>1. Following(r)
        BY <3>2, <2>2, <2>4 DEF Following
      <4>2. Ended \/ goal.run = watched[r]
        BY <4>1, <1>o DEF FollowsInv
      <4> QED
        BY <4>2, <2>0, <2>1, <2>2
    <3> QED
      BY <3>1, <3>2
  <2>5. ASSUME NEW r \in up, pc'[r] = "turnOver" PROVE Ended' \/ goal'.status \in Waiting
    BY <2>0, <2>1, <2>2, <2>3, <2>5, <1>o DEF FollowsInv
  <2> QED
    BY <2>2, <2>4, <2>5 DEF FollowsInv
<1>20. ASSUME NEW p \in Proc, HearEnd(p) PROVE FollowsInv'
  <2>1. goal'.status = goal.status /\ goal'.run = goal.run
    BY <1>20, HearEndWrites DEF Goal
  <2> QED
    BY <1>20, <2>1, <1>o DEF HearEnd, Heeded, Finalize, control, FollowsInv, Following,
       Concluding, Ended
<1>21. ASSUME NEW p \in Proc, TurnOver(p) PROVE FollowsInv'
  <2>1. goal'.status = goal.status /\ goal'.run = goal.run
    BY <1>21, TurnOverWrites DEF Goal
  <2> QED
    BY <1>21, <2>1, <1>o DEF TurnOver, Back, monitors, FollowsInv, Following, Concluding, Ended
<1>22. ASSUME NEW p \in Proc, StopWatching(p) PROVE FollowsInv'
  BY <1>22, <1>o DEF StopWatching, control, provider, monitors, FollowsInv, Following,
     Concluding, Ended
<1>23. ASSUME NEW p \in Proc, Crash(p) PROVE FollowsInv'
  BY <1>23, <1>o DEF Crash, control, provider, monitors, FollowsInv, Following, Concluding,
     Ended, Dies
<1>24. ASSUME NEW t \in Thread, Validate(t) PROVE FollowsInv'
  <2>1. CASE t \in Call
    <3>1. \A p \in up : ~Following(p)
      BY <1>24, <2>1, <1>k, <1>a DEF Validate
    <3>2. /\ UNCHANGED <<up, watched, heard>> /\ \A p \in Proc : pc'[p] = pc[p]
      BY <1>24, <2>1 DEF Validate, Back, Throw, Finalize, monitors
    <3> QED
      BY <3>1, <3>2, <1>q DEF Following
  <2>2. CASE t \in Proc
    <3>1. t \in up /\ Following(t)
      BY <1>24, <2>2 DEF Validate, Following, Concluding
    <3>2. \A p \in up : p # t => ~Following(p)
      BY <3>1, <1>w, <1>o DEF OneCarrier, Carries
    <3>3. /\ UNCHANGED <<up, watched, heard>> /\ \A p \in Proc : p # t => pc'[p] = pc[p]
          /\ pc'[t] # "turnOver"
      BY <1>24, <2>2 DEF Validate, Back, Throw, Finalize, monitors
    <3>4. goal'.run = goal.run
      BY <1>24, ValidateWrites DEF Goal
    <3>5. Ended => Ended'
      BY <1>24 DEF Validate, Ended
    <3> QED
      BY <3>1, <3>2, <3>3, <3>4, <3>5, <1>o DEF FollowsInv, Following
  <2> QED
    BY <2>1, <2>2
<1>25. ASSUME NEW t \in Thread, AcceptanceEnds(t) PROVE FollowsInv'
  BY <1>25, <1>o DEF AcceptanceEnds, control, provider, monitors, FollowsInv, Following,
     Concluding, Ended, Finalize
<1>26. ASSUME NEW t \in Thread, AcceptanceWaits(t) PROVE FollowsInv'
  BY <1>26, <1>o DEF AcceptanceWaits, control, provider, monitors, FollowsInv, Following,
     Concluding, Ended, Back
<1>27. ASSUME NEW t \in Thread, Review(t) PROVE FollowsInv'
  <2>1. CASE t \in Call
    <3>1. \A p \in up : ~Following(p)
      BY <1>27, <2>1, <1>k, <1>a DEF Review
    <3>2. /\ UNCHANGED <<up, watched, heard>> /\ \A p \in Proc : pc'[p] = pc[p]
      BY <1>27, <2>1 DEF Review, Back, Throw, Finalize, monitors
    <3> QED
      BY <3>1, <3>2, <1>q DEF Following
  <2>2. CASE t \in Proc
    <3>1. t \in up /\ Following(t)
      BY <1>27, <2>2 DEF Review, Following, Concluding
    <3>2. \A p \in up : p # t => ~Following(p)
      BY <3>1, <1>w, <1>o DEF OneCarrier, Carries
    <3>3. /\ UNCHANGED <<up, watched, heard>> /\ \A p \in Proc : p # t => pc'[p] = pc[p]
          /\ pc'[t] # "turnOver"
      BY <1>27, <2>2 DEF Review, Back, Throw, Finalize, monitors
    <3>4. goal'.run = goal.run
      BY <1>27, ReviewWrites DEF Goal
    <3>5. Ended => Ended'
      BY <1>27 DEF Review, Ended
    <3> QED
      BY <3>1, <3>2, <3>3, <3>4, <3>5, <1>o DEF FollowsInv, Following
  <2> QED
    BY <2>1, <2>2
<1>28. ASSUME NEW t \in Thread, Judge(t) PROVE FollowsInv'
  BY <1>28, <1>o DEF Judge, control, provider, monitors, FollowsInv, Following, Concluding,
     Ended, Finalize
<1>29. ASSUME NEW t \in Thread, End(t) PROVE FollowsInv'
  BY <1>29, <1>o DEF End, control, provider, monitors, FollowsInv, Following, Concluding, Ended,
     Back
<1>30. ASSUME NEW t \in Thread, Settle(t) PROVE FollowsInv'
  <2>1. goal' = goal \/ Ended'
    BY <1>30 DEF Settle, GoalInv, EndsInTerminal, Ended, Goal
  <2>2. CASE goal' = goal
    BY <1>30, <2>2, <1>o DEF Settle, Back, Finalize, monitors, FollowsInv, Following,
       Concluding, Ended
  <2> QED
    BY <2>1, <2>2, <1>e
<1>31. ASSUME NEW t \in Thread, SettleTorn(t) PROVE FollowsInv'
  BY <1>31, <1>o DEF SettleTorn, control, provider, monitors, FollowsInv, Following, Concluding,
     Ended, Dies
<1>32. ASSUME NEW d \in pending, Claim(d) PROVE FollowsInv'
  BY <1>32, <1>o DEF Claim, control, provider, monitors, FollowsInv, Following, Concluding,
     Ended
<1>33. ASSUME NEW d \in pending, Deliver(d) PROVE FollowsInv'
  BY <1>33, <1>o DEF Deliver, control, provider, monitors, FollowsInv, Following, Concluding,
     Ended
<1>34. ASSUME NEW d \in pending, Finish(d) PROVE FollowsInv'
  BY <1>34, <1>o DEF Finish, control, provider, monitors, FollowsInv, Following, Concluding,
     Ended
<1>35. CASE UNCHANGED vars
  BY <1>35, <1>o DEF vars, control, provider, monitors, FollowsInv, Following, Concluding, Ended
<1>36. ASSUME NEW c \in Call, AttachFails(c) PROVE FollowsInv'
  <2>1. /\ UNCHANGED <<up, watched, heard>> /\ Alive(c) /\ pc[c] = "attach"
        /\ \A p \in Proc : pc'[p] = pc[p]
    BY <1>36 DEF AttachFails, Finalize, monitors
  <2>2. \A p \in up : ~Following(p)
    BY <2>1, <1>k, <1>a DEF Launching
  <2> QED
    BY <2>1, <2>2, <1>q DEF Following
<1>37. CASE Metadata
  BY <1>37, <1>o DEF Metadata, control, provider, monitors, FollowsInv, Following, Concluding, Ended
<1> QED
  BY <1>1, <1>2, <1>3, <1>4, <1>5, <1>6, <1>7, <1>8, <1>9, <1>10, <1>11, <1>12, <1>13, <1>14,
     <1>15, <1>16, <1>17, <1>18, <1>19, <1>20, <1>21, <1>22, <1>23, <1>24, <1>25, <1>26, <1>27,
     <1>28, <1>29, <1>30, <1>31, <1>32, <1>33, <1>34, <1>35, <1>36, <1>37 DEF Next, CallStep,
     Begin, MonitorStep, EndStep, HookStep

\* One thread or turn carries the goal at a time: a step that gives it a new carrier
\* finds it with none (Resume of a goal that is Resumable).
LEMMA CarrierStep == GoalInv /\ PlaceInv /\ CarrierInv /\ [Next]_vars => CarrierInv'
<1> SUFFICES ASSUME GoalInv, PlaceInv, CarrierInv, [Next]_vars, Orderly' PROVE CarrierInv'
  BY DEF CarrierInv
<1>1. Orderly /\ OneCarrier /\ CarriedHeld /\ JudgedInv
  BY MishapGrows DEF CarrierInv, Orderly
<1>2. OneCarrier'
  <2>1. Resumable => \A c \in Call : ~Carries(c)
    BY <1>1 DEF CarriedHeld, Held, Resumable, Ended, Waiting, Terminal
  <2>2. CASE NoNew
    BY <1>1, <2>2 DEF NoNew, OneCarrier
  <2>3. CASE OneNew
    BY <2>1, <2>3 DEF OneNew, OneCarrier
  <2> QED
    BY <2>2, <2>3, CarriersStep
<1> QED
  BY <1>1, <1>2, HeldStep, JudgedStep, FollowsStep DEF CarrierInv

\* What is so in every state of the places of threads and of who carries the goal.
LEMMA CarrierInvariant == Spec => [](GoalInv /\ PlaceInv /\ CarrierInv)
<1> QED
  BY InitGoal, InitPlace, InitCarrier, StepGoal, PlaceStep, CarrierStep, PTL DEF Spec

\* Never do two turns of a goal work in live processes (resume, recover and Codex
\* adapters), unless a resume acts on a stale record or a manager recovers a goal
\* that is still at work, with any number of calls and of processes.
THEOREM GoalOneTurn == Spec => []OneTurn
<1>1. GoalInv /\ CarrierInv => OneTurn
  <2> SUFFICES ASSUME GoalInv, CarrierInv, Orderly
               PROVE  Cardinality({c \in Call : Alive(c) /\ turn[c] = "working"}) <= 1
    BY DEF OneTurn, Orderly
  <2> DEFINE W == {c \in Call : Alive(c) /\ turn[c] = "working"}
  <2>1. \A c, d \in W : c = d
    BY DEF CarrierInv, OneCarrier, Carries, TurnCarries
  <2>2. CASE W = {}
    BY <2>2, FS_EmptySet
  <2>3. CASE W # {}
    <3>1. PICK c \in W : W = {c}
      BY <2>1, <2>3
    <3>2. Cardinality({c}) = 1
      BY FS_Singleton
    <3>3. Cardinality(W) = 1
      BY <3>1, <3>2
    <3> QED
      BY <3>3
  <2> QED
    BY <2>2, <2>3
<1> QED
  BY <1>1, CarrierInvariant, PTL
-----------------------------------------------------------------------------
(* The notice of the end.                                                  *)

NoticeOf(how) == IF how = "succeeded" THEN "task.succeeded" ELSE "task.failed"
Sent == sent["task.succeeded"] + sent["task.failed"]

\* A thread that may yet give notice of the end.
Finalizing(t) == AtPc(t, "settle") /\ want[t] # "cancelled"

Undisturbed == mishap \cap {"twice", "raced", "seized"} = {}

\* All deliveries have one event key, so one of them is claimed and sent at most.
DeliveryInv ==
  /\ claimed = {} => Sent = 0 /\ \A d \in pending : d.stage = "queued"
  /\ \A d \in pending : claimed \subseteq {d.key}
  /\ \A d, e \in pending : d.key = e.key /\ (d.stage # "queued" /\ e.stage # "queued" => d = e)
  /\ \A d \in pending : d.stage = "claimed" => Sent = 0
  /\ Sent <= 1

\* They are of how the goal has ended; one that was cancelled may get the notice of
\* the thread that came too late to end it.
EndingInv ==
  /\ claimed # {} \/ pending # {} => Ended
  /\ \A d \in pending : goal.status # "cancelled" => d.type = NoticeOf(goal.status)
  /\ \A t \in Thread : Finalizing(t) /\ Ended =>
       goal.status = "cancelled" /\ claimed = {} /\ pending = {}

NoticeInv == Undisturbed => DeliveryInv /\ EndingInv

\* At first there is nothing to tell.
LEMMA InitNotice == Init => NoticeInv
BY DEF Init, NoticeInv, DeliveryInv, EndingInv, Sent, Notice, Finalizing, AtPc, Ended, Terminal

\* Not two threads finalize the goal, unless to cancel it.
LEMMA OneFinalizer ==
  ASSUME GoalInv, PlaceInv, CarrierInv, Orderly, NEW t \in Thread, NEW u \in Thread,
         Finalizing(t), Finalizing(u)
  PROVE  t = u
<1>1. ASSUME NEW x \in Thread, Finalizing(x)
      PROVE  \/ x \in Call /\ CallCarries(x)
             \/ x \in Proc /\ watched[x] \in Call /\ MonitorCarries(watched[x])
                /\ ProcOf[watched[x]] = x /\ pc[watched[x]] = "done"
  <2>1. CASE x \in Call
    BY <1>1, <2>1, GoalAssumption DEF Finalizing, AtPc, CallCarries, Concluding, PlaceInv, Kind
  <2>2. CASE x \in Proc
    <3>1. watched[x] \in Call
      BY <1>1, <2>2 DEF Finalizing, AtPc, GoalInv, TypeOK, MonitorFollows
    <3> QED
      BY <1>1, <2>2, <3>1, GoalAssumption
         DEF Finalizing, AtPc, Alive, Home, PlaceInv, MonitorCarries, Concluding
  <2> QED
    BY <2>1, <2>2 DEF Thread
<1>2. OneCarrier
  BY DEF CarrierInv
<1>3. pc[t] = "settle" /\ pc[u] = "settle"
  BY DEF Finalizing, AtPc
<1> QED
  BY <1>1, <1>2, <1>3 DEF OneCarrier, Carries

\* What a delivery says but its stage does not change.
LEMMA Stages ==
  ASSUME NEW d \in Delivery, NEW s \in {"queued", "claimed", "sent", "unsent"}
  PROVE  \E e \in Delivery : /\ e = [d EXCEPT !.stage = s]
                             /\ e.type = d.type /\ e.key = d.key /\ e.stage = s
<1> DEFINE new == [d EXCEPT !.stage = s]
<1>1. new \in Delivery
  BY DEF Delivery
<1>2. new.type = d.type /\ new.key = d.key /\ new.stage = s
  BY DEF Delivery
<1> QED
  BY <1>1, <1>2

\* A delivery that has been tried keeps what it says and its key.
LEMMA Delivered ==
  ASSUME NEW d \in Delivery, Deliver(d)
  PROVE  \E e \in Delivery : /\ e.type = d.type /\ e.key = d.key /\ e.stage \in {"sent", "unsent"}
                             /\ pending' = (pending \ {d}) \cup {e}
<1>1. PICK s \in {"sent", "unsent"} : pending' = (pending \ {d}) \cup {[d EXCEPT !.stage = s]}
  BY DEF Deliver, Staged
<1>2. s \in {"queued", "claimed", "sent", "unsent"}
  BY <1>1
<1>3. PICK e \in Delivery : /\ e = [d EXCEPT !.stage = s]
                            /\ e.type = d.type /\ e.key = d.key /\ e.stage = s
  BY <1>2, Stages
<1> QED
  BY <1>1, <1>3

\* A step that leaves the deliveries alone, and does not end the goal.
LEMMA QuietNotice ==
  ASSUME GoalInv, DeliveryInv, EndingInv, [Next]_vars, UNCHANGED hooks, Ended' => Ended,
         \A t \in Thread : Finalizing(t)' => Finalizing(t) \/ ~Ended'
  PROVE  (DeliveryInv /\ EndingInv)'
<1>1. Ended => Ended' /\ goal'.status = goal.status
  BY EndKeptStep DEF EndKept, Ended
<1>2. UNCHANGED <<pending, claimed, later, sent>>
  BY DEF hooks
<1>3. DeliveryInv'
  BY <1>2 DEF DeliveryInv, Sent
<1>4. EndingInv'
  BY <1>1, <1>2 DEF EndingInv
<1> QED
  BY <1>3, <1>4

\* Two threads never give notice of different ends, nor one notice under two keys.
LEMMA NoticeStep == GoalInv /\ PlaceInv /\ CarrierInv /\ NoticeInv /\ [Next]_vars => NoticeInv'
<1> SUFFICES ASSUME GoalInv, PlaceInv, CarrierInv, DeliveryInv, EndingInv, Undisturbed', [Next]_vars
             PROVE  (DeliveryInv /\ EndingInv)'
  BY MishapGrows DEF NoticeInv, Undisturbed
<1>c. /\ pc \in [Thread -> At] /\ watched \in [Proc -> Call \cup {NoCall}]
      /\ want \in [Thread -> Status \cup {"none"}] /\ goal \in Goal /\ up \in SUBSET Proc
      /\ pending \subseteq Delivery /\ claimed \in SUBSET EventKey /\ later \in Nat
      /\ sent \in [Notice -> Nat]
      /\ EndsInTerminal /\ MonitorFollows /\ asked \in [Call -> Waiting \cup {"none"}]
  BY DEF GoalInv, TypeOK
<1>o. Orderly
  BY MishapGrows DEF Undisturbed, Orderly
<1>w. \A s \in {"running", "waiting_input", "waiting_approval", "validating", "reviewing"} :
        s \notin Terminal
  BY DEF Terminal
<1>k. EndKept
  BY EndKeptStep
<1> USE <1>c DEF Thread, AtPc, Asks, Goto, Finalizing, Ended
<1>1. ASSUME NEW c \in Call, Launch(c) PROVE (DeliveryInv /\ EndingInv)'
  <2>1. goal' = goal \/ goal'.status \notin Terminal \/ goal'.status = goal.status
    BY <1>1, <1>w DEF Launch, Goal, Patched
  <2>2. UNCHANGED hooks /\ \A u \in Thread : Finalizing(u)' => Finalizing(u) \/ ~Ended'
    BY <1>1, <2>1 DEF Launch, Alive, control
  <2> QED
    BY <2>1, <2>2, QuietNotice
<1>2. ASSUME NEW c \in Call, PrepareFails(c) PROVE (DeliveryInv /\ EndingInv)'
  <2>1. /\ goal' = goal /\ UNCHANGED hooks
        /\ \A u \in Thread : Finalizing(u)' => Finalizing(u) \/ ~Ended'
    BY <1>2 DEF PrepareFails, Alive, control, Finalize
  <2> QED
    BY <2>1, QuietNotice
<1>3. ASSUME NEW c \in Call, Grant(c) PROVE (DeliveryInv /\ EndingInv)'
  <2>1. goal' = goal \/ goal'.status \notin Terminal \/ goal'.status = goal.status
    BY <1>3, <1>w DEF Grant, Goal, Patched
  <2>2. UNCHANGED hooks /\ \A u \in Thread : Finalizing(u)' => Finalizing(u) \/ ~Ended'
    BY <1>3, <2>1 DEF Grant, Alive, control
  <2> QED
    BY <2>1, <2>2, QuietNotice
<1>4. ASSUME NEW c \in Call, AdmissionTimesOut(c) PROVE (DeliveryInv /\ EndingInv)'
  <2>1. /\ goal' = goal /\ UNCHANGED hooks
        /\ \A u \in Thread : Finalizing(u)' => Finalizing(u) \/ ~Ended'
    BY <1>4 DEF AdmissionTimesOut, Alive, control, Finalize
  <2> QED
    BY <2>1, QuietNotice
<1>5. ASSUME NEW c \in Call, StartTurn(c) PROVE (DeliveryInv /\ EndingInv)'
  <2>1. /\ goal' = goal /\ UNCHANGED hooks
        /\ \A u \in Thread : Finalizing(u)' => Finalizing(u) \/ ~Ended'
    BY <1>5 DEF StartTurn, Alive, control
  <2> QED
    BY <2>1, QuietNotice
<1>6. ASSUME NEW c \in Call, LaunchFails(c) PROVE (DeliveryInv /\ EndingInv)'
  <2>1. /\ goal' = goal /\ UNCHANGED hooks
        /\ \A u \in Thread : Finalizing(u)' => Finalizing(u) \/ ~Ended'
    BY <1>6 DEF LaunchFails, Alive, control, Finalize
  <2> QED
    BY <2>1, QuietNotice
<1>7. ASSUME NEW c \in Call, Authorize(c) PROVE (DeliveryInv /\ EndingInv)'
  <2>1. goal' = goal \/ goal'.status \notin Terminal \/ goal'.status = goal.status
    BY <1>7, <1>w DEF Authorize, Goal, Patched
  <2>2. UNCHANGED hooks /\ \A u \in Thread : Finalizing(u)' => Finalizing(u) \/ ~Ended'
    BY <1>7, <2>1 DEF Authorize, Alive, control
  <2> QED
    BY <2>1, <2>2, QuietNotice
<1>8. ASSUME NEW c \in Call, Attach(c) PROVE (DeliveryInv /\ EndingInv)'
  <2>1. goal' = goal \/ goal'.status \notin Terminal \/ goal'.status = goal.status
    BY <1>8, <1>w, AttachFields
  <2>2. UNCHANGED hooks /\ \A u \in Thread : Finalizing(u)' => Finalizing(u) \/ ~Ended'
    BY <1>8, <2>1 DEF Attach, Alive, control, Follow
  <2> QED
    BY <2>1, <2>2, QuietNotice
<1>9. ASSUME NEW c \in Call, Recover(c) PROVE (DeliveryInv /\ EndingInv)'
  <2>1. goal' = goal \/ goal'.status \notin Terminal \/ goal'.status = goal.status
    BY <1>9, RecoverFields DEF Terminal
  <2>2. UNCHANGED hooks /\ \A u \in Thread : Finalizing(u)' => Finalizing(u) \/ ~Ended'
    BY <1>9, <2>1 DEF Recover, Alive, control
  <2> QED
    BY <2>1, <2>2, QuietNotice
<1>10. ASSUME NEW c \in Call, RecoverHooks(c) PROVE (DeliveryInv /\ EndingInv)'
  <2> DEFINE n == IF goal.status = "succeeded" THEN "task.succeeded" ELSE "task.failed"
             new == [home |-> ProcOf[c], type |-> n, key |-> <<n, later>>, stage |-> "queued"]
  <2>1. /\ goal' = goal /\ UNCHANGED <<claimed, later, sent, up>>
        /\ \A u \in Thread : Finalizing(u)' => Finalizing(u)
    BY <1>10 DEF RecoverHooks, Alive
  <2>2. CASE pending' = pending
    BY <2>1, <2>2 DEF DeliveryInv, EndingInv, Sent
  <2>3. CASE pending' # pending
    <3>1. /\ Ended /\ goal.status # "cancelled" /\ KeysInUse \subseteq {<<n, later>>}
          /\ pending' = pending \cup {new}
      BY <1>10, <2>3 DEF RecoverHooks, Dispatch, Undisturbed
    <3>2. n = NoticeOf(goal.status) /\ new.type = n /\ new.key = <<n, later>>
          /\ new.stage = "queued"
      BY DEF NoticeOf
    <3> HIDE DEF n, new
    <3>3. claimed \subseteq {new.key} /\ \A d \in pending : d.key = new.key
      BY <3>1, <3>2 DEF KeysInUse
    <3>4. DeliveryInv'
      BY <2>1, <3>1, <3>2, <3>3 DEF DeliveryInv, Sent
    <3>5. EndingInv'
      BY <2>1, <3>1, <3>2, <3>3 DEF EndingInv, NoticeOf
    <3> QED
      BY <3>4, <3>5
  <2> QED
    BY <2>2, <2>3
<1>11. ASSUME NEW c \in Call, Revalidate(c) PROVE (DeliveryInv /\ EndingInv)'
  <2>1. goal' = goal \/ goal'.status \notin Terminal \/ goal'.status = goal.status
    BY <1>11, <1>w DEF Revalidate, Goal, Patched, Resume
  <2>2. UNCHANGED hooks /\ \A u \in Thread : Finalizing(u)' => Finalizing(u) \/ ~Ended'
    BY <1>11, <2>1 DEF Revalidate, Alive, control, Resume
  <2> QED
    BY <2>1, <2>2, QuietNotice
<1>12. ASSUME NEW c \in Call, Restart(c) PROVE (DeliveryInv /\ EndingInv)'
  <2>1. goal' = goal \/ goal'.status \notin Terminal \/ goal'.status = goal.status
    BY <1>12, <1>w DEF Restart, Goal, Patched, Resume
  <2>2. UNCHANGED hooks /\ \A u \in Thread : Finalizing(u)' => Finalizing(u) \/ ~Ended'
    BY <1>12, <2>1 DEF Restart, Alive, control, Resume
  <2> QED
    BY <2>1, <2>2, QuietNotice
<1>13. ASSUME NEW c \in Call, Rerun(c) PROVE (DeliveryInv /\ EndingInv)'
  <2>1. goal' = goal \/ goal'.status \notin Terminal \/ goal'.status = goal.status
    BY <1>13, <1>w DEF Rerun, Goal, Patched, Resume
  <2>2. UNCHANGED hooks /\ \A u \in Thread : Finalizing(u)' => Finalizing(u) \/ ~Ended'
    BY <1>13, <2>1 DEF Rerun, Alive, control, Resume
  <2> QED
    BY <2>1, <2>2, QuietNotice
<1>14. ASSUME NEW c \in Call, RecoverReads(c) PROVE (DeliveryInv /\ EndingInv)'
  <2>1. /\ goal' = goal /\ UNCHANGED hooks
        /\ \A u \in Thread : Finalizing(u)' => Finalizing(u) \/ ~Ended'
    BY <1>14 DEF RecoverReads, Alive, control
  <2> QED
    BY <2>1, QuietNotice
<1>15. ASSUME NEW c \in Call, Cancel(c) PROVE (DeliveryInv /\ EndingInv)'
  <2>1. /\ goal' = goal /\ UNCHANGED hooks
        /\ \A u \in Thread : Finalizing(u)' => Finalizing(u) \/ ~Ended'
    BY <1>15 DEF Cancel, Alive, control, Finalize
  <2> QED
    BY <2>1, QuietNotice
<1>16. ASSUME NEW c \in Call, ResumeReads(c) PROVE (DeliveryInv /\ EndingInv)'
  <2>1. /\ goal' = goal /\ UNCHANGED hooks
        /\ \A u \in Thread : Finalizing(u)' => Finalizing(u) \/ ~Ended'
    BY <1>16 DEF ResumeReads, Alive, control
  <2> QED
    BY <2>1, QuietNotice
<1>17. ASSUME NEW c \in Call, Ask(c) PROVE (DeliveryInv /\ EndingInv)'
  <2>1. /\ goal' = goal /\ UNCHANGED hooks
        /\ \A u \in Thread : Finalizing(u)' => Finalizing(u) \/ ~Ended'
    BY <1>17 DEF Ask, Alive, control
  <2> QED
    BY <2>1, QuietNotice
<1>18. ASSUME NEW c \in Call, TurnEnds(c) PROVE (DeliveryInv /\ EndingInv)'
  <2>1. /\ goal' = goal /\ UNCHANGED hooks
        /\ \A u \in Thread : Finalizing(u)' => Finalizing(u) \/ ~Ended'
    BY <1>18 DEF TurnEnds, Alive, control
  <2> QED
    BY <2>1, QuietNotice
<1>19. ASSUME NEW p \in Proc, HearAsk(p) PROVE (DeliveryInv /\ EndingInv)'
  <2>1. goal' = goal \/ goal'.status \notin Terminal \/ goal'.status = goal.status
    BY <1>19, HearAskFields DEF Waiting, Terminal
  <2>2. UNCHANGED hooks /\ \A u \in Thread : Finalizing(u)' => Finalizing(u) \/ ~Ended'
    BY <1>19, <2>1 DEF HearAsk, Alive, control, Throw, Finalize
  <2> QED
    BY <2>1, <2>2, QuietNotice
<1>20. ASSUME NEW p \in Proc, HearEnd(p) PROVE (DeliveryInv /\ EndingInv)'
  <2>1. goal' = goal \/ goal'.status \notin Terminal \/ goal'.status = goal.status
    BY <1>20, <1>w DEF HearEnd, Goal, Patched
  <2>2. UNCHANGED hooks /\ \A u \in Thread : Finalizing(u)' => Finalizing(u) \/ ~Ended'
    BY <1>20, <2>1 DEF HearEnd, Alive, control, Finalize
  <2> QED
    BY <2>1, <2>2, QuietNotice
<1>21. ASSUME NEW p \in Proc, TurnOver(p) PROVE (DeliveryInv /\ EndingInv)'
  <2>1. goal' = goal \/ goal'.status \notin Terminal \/ goal'.status = goal.status
    BY <1>21, <1>w DEF TurnOver, Goal, Patched
  <2>2. UNCHANGED hooks /\ \A u \in Thread : Finalizing(u)' => Finalizing(u) \/ ~Ended'
    BY <1>21, <2>1 DEF TurnOver, Alive, control, Back
  <2> QED
    BY <2>1, <2>2, QuietNotice
<1>22. ASSUME NEW p \in Proc, StopWatching(p) PROVE (DeliveryInv /\ EndingInv)'
  <2>1. /\ goal' = goal /\ UNCHANGED hooks
        /\ \A u \in Thread : Finalizing(u)' => Finalizing(u) \/ ~Ended'
    BY <1>22 DEF StopWatching, Alive, control
  <2> QED
    BY <2>1, QuietNotice
<1>23. ASSUME NEW p \in Proc, Crash(p) PROVE (DeliveryInv /\ EndingInv)'
  <2>1. /\ goal' = goal /\ pending' \subseteq pending
        /\ UNCHANGED <<claimed, later, sent, pc, want>>
        /\ \A u \in Thread : Finalizing(u)' => Finalizing(u)
    BY <1>23 DEF Crash, Dies, control, Alive
  <2> QED
    BY <2>1 DEF DeliveryInv, EndingInv, Sent
<1>24. ASSUME NEW t \in Thread, Validate(t) PROVE (DeliveryInv /\ EndingInv)'
  <2>1. goal' = goal \/ goal'.status \notin Terminal \/ goal'.status = goal.status
    BY <1>24, <1>w DEF Validate, Goal, Patched
  <2>2. UNCHANGED hooks /\ \A u \in Thread : Finalizing(u)' => Finalizing(u) \/ ~Ended'
    BY <1>24, <2>1 DEF Validate, Alive, control, Back, Throw, Finalize
  <2> QED
    BY <2>1, <2>2, QuietNotice
<1>25. ASSUME NEW t \in Thread, AcceptanceEnds(t) PROVE (DeliveryInv /\ EndingInv)'
  <2>1. /\ goal' = goal /\ UNCHANGED hooks
        /\ \A u \in Thread : Finalizing(u)' => Finalizing(u) \/ ~Ended'
    BY <1>25 DEF AcceptanceEnds, Alive, control, Finalize
  <2> QED
    BY <2>1, QuietNotice
<1>26. ASSUME NEW t \in Thread, AcceptanceWaits(t) PROVE (DeliveryInv /\ EndingInv)'
  <2>1. /\ goal' = goal /\ UNCHANGED hooks
        /\ \A u \in Thread : Finalizing(u)' => Finalizing(u) \/ ~Ended'
    BY <1>26 DEF AcceptanceWaits, Alive, control, Back
  <2> QED
    BY <2>1, QuietNotice
<1>27. ASSUME NEW t \in Thread, Review(t) PROVE (DeliveryInv /\ EndingInv)'
  <2>1. goal' = goal \/ goal'.status \notin Terminal \/ goal'.status = goal.status
    BY <1>27, <1>w DEF Review, Goal, Patched
  <2>2. UNCHANGED hooks /\ \A u \in Thread : Finalizing(u)' => Finalizing(u) \/ ~Ended'
    BY <1>27, <2>1 DEF Review, Alive, control, Back, Finalize
  <2> QED
    BY <2>1, <2>2, QuietNotice
<1>28. ASSUME NEW t \in Thread, Judge(t) PROVE (DeliveryInv /\ EndingInv)'
  <2>1. /\ goal' = goal /\ UNCHANGED hooks
        /\ \A u \in Thread : Finalizing(u)' => Finalizing(u) \/ ~Ended'
    BY <1>28 DEF Judge, Alive, control, Finalize
  <2> QED
    BY <2>1, QuietNotice
<1>29. ASSUME NEW t \in Thread, End(t) PROVE (DeliveryInv /\ EndingInv)'
  <2>1. /\ goal' = goal /\ UNCHANGED hooks
        /\ \A u \in Thread : Finalizing(u)' => Finalizing(u) \/ ~Ended'
    BY <1>29 DEF End, Alive, control, Back
  <2> QED
    BY <2>1, QuietNotice
<1>30. ASSUME NEW t \in Thread, Settle(t) PROVE (DeliveryInv /\ EndingInv)'
  <2> DEFINE n == IF want[t] = "succeeded" THEN "task.succeeded" ELSE "task.failed"
             new == [home |-> Home(t), type |-> n, key |-> <<n, later>>, stage |-> "queued"]
  <2>1. /\ UNCHANGED <<claimed, later, sent, up>>
        /\ pc[t] = "settle" /\ want[t] \in Terminal
        /\ \A u \in Thread : Finalizing(u)' => u # t /\ Finalizing(u)
    BY <1>30 DEF Settle, Back, Finalize, Alive, EndsInTerminal
  <2>2. CASE want[t] = "cancelled" \/ (~Ended /\ ~CanBe(want[t]))
    <3>1. pending' = pending /\ (goal' = goal \/ (~Ended /\ goal'.status = "cancelled"))
      BY <1>30, <2>2 DEF Settle, Notify, Goal
    <3>2. DeliveryInv'
      BY <2>1, <3>1 DEF DeliveryInv, Sent
    <3>3. EndingInv'
      BY <2>1, <3>1 DEF EndingInv, Terminal
    <3> QED
      BY <3>2, <3>3
  <2>3. CASE want[t] # "cancelled" /\ (Ended \/ CanBe(want[t]))
    <3>1. Finalizing(t)
      BY <1>30, <2>3 DEF Settle
    <3>2. pending = {} /\ claimed = {}
      BY <3>1 DEF EndingInv
    <3>3. pending' \subseteq {new}
      BY <1>30, <2>3, <3>2 DEF Settle, Notify, Dispatch
    <3>4. \A u \in Thread : ~Finalizing(u)'
      BY <2>1, <3>1, <1>o, OneFinalizer
    <3>5. new.type = n /\ new.stage = "queued"
      OBVIOUS
    <3>6. Ended' /\ (goal'.status # "cancelled" => n = NoticeOf(goal'.status))
      BY <1>30, <2>1, <2>3, <3>1 DEF Settle, NoticeOf, Goal, EndingInv
    <3> HIDE DEF n, new
    <3>7. DeliveryInv'
      BY <2>1, <3>2, <3>3, <3>5 DEF DeliveryInv, Sent
    <3>8. EndingInv'
      BY <2>1, <3>2, <3>3, <3>4, <3>5, <3>6 DEF EndingInv, NoticeOf
    <3> QED
      BY <3>7, <3>8
  <2> QED
    BY <2>2, <2>3
<1>31. ASSUME NEW t \in Thread, SettleTorn(t) PROVE (DeliveryInv /\ EndingInv)'
  <2>1. /\ goal' = goal /\ pending' \subseteq pending
        /\ UNCHANGED <<claimed, later, sent, pc, want>>
        /\ \A u \in Thread : Finalizing(u)' => Finalizing(u)
    BY <1>31 DEF SettleTorn, Dies, control, Alive
  <2> QED
    BY <2>1 DEF DeliveryInv, EndingInv, Sent
<1>32. ASSUME NEW d \in pending, Claim(d) PROVE (DeliveryInv /\ EndingInv)'
  <2>1. /\ goal' = goal /\ \A u \in Thread : Finalizing(u)' <=> Finalizing(u)
        /\ d \in Delivery
    BY <1>32 DEF Claim, control, Alive
  <2>2. CASE pending' = pending \ {d} /\ UNCHANGED <<claimed, later, sent>>
    BY <2>1, <2>2 DEF DeliveryInv, EndingInv, Sent
  <2>3. CASE d.key \notin claimed /\ claimed' = claimed \cup {d.key} /\ Staged(d, "claimed")
    <3>1. claimed = {} /\ Sent = 0 /\ \A e \in pending : e.stage = "queued" /\ e.key = d.key
      BY <2>3 DEF DeliveryInv
    <3>2. PICK e \in Delivery : /\ e = [d EXCEPT !.stage = "claimed"]
                                /\ e.type = d.type /\ e.key = d.key /\ e.stage = "claimed"
      BY <2>1, Stages
    <3>3. e.type = d.type /\ e.key = d.key /\ e.stage = "claimed"
      BY <3>2
    <3>4. claimed' = {d.key} /\ sent' = sent /\ pending' = (pending \ {d}) \cup {e}
      BY <1>32, <2>3, <3>1, <3>2 DEF Claim, Staged
    <3>5. DeliveryInv'
      BY <3>1, <3>3, <3>4 DEF DeliveryInv, Sent
    <3>6. EndingInv'
      BY <2>1, <3>3, <3>4 DEF EndingInv
    <3> QED
      BY <3>5, <3>6
  <2> QED
    BY <1>32, <2>2, <2>3 DEF Claim
<1>33. ASSUME NEW d \in pending, Deliver(d) PROVE (DeliveryInv /\ EndingInv)'
  <2>1. /\ goal' = goal /\ \A u \in Thread : Finalizing(u)' <=> Finalizing(u)
        /\ d \in Delivery
    BY <1>33 DEF Deliver, control, Alive
  <2>2. /\ d.stage = "claimed" /\ Sent = 0 /\ claimed # {} /\ UNCHANGED <<claimed, later>>
    BY <1>33 DEF Deliver, DeliveryInv
  <2>3. PICK e \in Delivery :
          /\ e.type = d.type /\ e.key = d.key /\ e.stage \in {"sent", "unsent"}
          /\ pending' = (pending \ {d}) \cup {e}
    BY <1>33, <2>1, Delivered
  <2>4. Sent' <= 1
    <3>1. d.type \in Notice
      BY <2>1 DEF Delivery
    <3>2. sent' = sent \/ sent' = [sent EXCEPT ![d.type] = @ + 1]
      BY <1>33 DEF Deliver
    <3>3. sent["task.succeeded"] = 0 /\ sent["task.failed"] = 0
      BY <2>2 DEF Sent, Notice
    <3> QED
      BY <3>1, <3>2, <3>3 DEF Sent, Notice
  <2>5. \A x \in pending : x # d => x.stage = "queued"
    BY <2>2 DEF DeliveryInv
  <2>6. DeliveryInv'
    BY <2>2, <2>3, <2>4, <2>5 DEF DeliveryInv
  <2>7. EndingInv'
    BY <2>1, <2>2, <2>3 DEF EndingInv
  <2> QED
    BY <2>6, <2>7
<1>34. ASSUME NEW d \in pending, Finish(d) PROVE (DeliveryInv /\ EndingInv)'
  <2>1. /\ goal' = goal /\ \A u \in Thread : Finalizing(u)' <=> Finalizing(u)
        /\ d \in Delivery
    BY <1>34 DEF Finish, control, Alive
  <2>2. /\ claimed # {} /\ UNCHANGED <<claimed, sent>> /\ pending' = pending \ {d}
    BY <1>34 DEF Finish, DeliveryInv
  <2> QED
    BY <2>1, <2>2 DEF DeliveryInv, EndingInv, Sent
<1>35. CASE UNCHANGED vars
  <2>1. /\ goal' = goal /\ UNCHANGED hooks
        /\ \A u \in Thread : Finalizing(u)' => Finalizing(u)
    BY <1>35 DEF vars, control, Alive
  <2> QED
    BY <2>1, QuietNotice
<1>36. ASSUME NEW c \in Call, AttachFails(c) PROVE (DeliveryInv /\ EndingInv)'
  <2>1. goal'.status = goal.status
    BY <1>36, <1>w, AttachFields
  <2>2. UNCHANGED hooks /\ \A u \in Thread : Finalizing(u)' => Finalizing(u) \/ ~Ended'
    BY <1>36, <2>1 DEF AttachFails, Alive, Finalize
  <2> QED
    BY <2>1, <2>2, QuietNotice DEF Ended
<1>37. CASE Metadata
  <2>1. /\ goal' = goal /\ UNCHANGED <<claimed, sent, pending>>
        /\ \A u \in Thread : Finalizing(u)' <=> Finalizing(u)
    BY <1>37 DEF Metadata, control, Alive
  <2> QED
    BY <2>1 DEF DeliveryInv, EndingInv, Sent
<1> QED
  BY <1>1, <1>2, <1>3, <1>4, <1>5, <1>6, <1>7, <1>8, <1>9, <1>10, <1>11, <1>12, <1>13, <1>14,
     <1>15, <1>16, <1>17, <1>18, <1>19, <1>20, <1>21, <1>22, <1>23, <1>24, <1>25, <1>26, <1>27,
     <1>28, <1>29, <1>30, <1>31, <1>32, <1>33, <1>34, <1>35, <1>36, <1>37 DEF Next, CallStep,
     Begin, MonitorStep, EndStep, HookStep

\* What is so of the deliveries of the notice too.
LEMMA NoticeInvariant == Spec => [](GoalInv /\ PlaceInv /\ CarrierInv /\ NoticeInv)
<1> QED
  BY InitGoal, InitPlace, InitCarrier, InitNotice, StepGoal, PlaceStep, CarrierStep, NoticeStep,
     PTL DEF Spec

\* The owner gets at most one final notice (claimHookDelivery, recoverHookDeliveries),
\* unless a manager starts and gives it an event key of its own beside a delivery that
\* is under way or claimed (twice), calls race (raced) or a goal at work is recovered
\* (seized).
THEOREM GoalNotifiedOnce == Spec => []NotifiedOnce
<1>1. NoticeInv => NotifiedOnce
  BY DEF NoticeInv, DeliveryInv, Sent, NotifiedOnce, Undisturbed
<1> QED
  BY <1>1, NoticeInvariant, PTL

-----------------------------------------------------------------------------
(* The lease of the governor.                                              *)

\* The lease l is held for a live process.
Live(l) == l \in leases /\ Alive(l)

Tidy == mishap \cap {"late", "raced", "seized", "deaf"} = {}

\* A call or the monitor of process p will give its lease back, when the work that
\* the lease is for is over.
InUse(p) ==
  \/ \E c \in Call : CallCarries(c) /\ ProcOf[c] = p /\ pc[c] \in {"launch", "attach", "end"}
  \/ pc[p] = "watch" /\ "end" \notin heard[p]
  \/ pc[p] = "end"

LeaseKept == \A l \in Call : Live(l) => kept[ProcOf[l]] = l
LeaseUsed == ~Ended => \A p \in up : kept[p] # NoCall => InUse(p)
LeaseRecorded == ~Ended => \A l \in Call : Live(l) => goal.lease = l
LeaseFreed == (\E t \in Thread : AtPc(t, "settle")) => \A l \in Call : ~Live(l)
LeaseLast == Ended => \A l \in Call : Live(l) =>
               \E c \in Call : AtPc(c, "launch") /\ ProcOf[c] = ProcOf[l]

Leased == LeaseKept /\ LeaseUsed /\ LeaseRecorded /\ LeaseFreed /\ LeaseLast
LeaseInv == Tidy => Leased

\* At first nothing is leased.
LEMMA InitLease == Init => LeaseInv
BY GoalAssumption DEF Init, LeaseInv, Leased, LeaseKept, LeaseUsed, LeaseRecorded, LeaseFreed,
   LeaseLast, Live, Alive, AtPc, Thread, Ended, Terminal

\* The user of a lease carries the goal.
LEMMA UserCarries ==
  ASSUME GoalInv, PlaceInv, NEW p \in up, InUse(p)
  PROVE  \E c \in Call : Carries(c) /\ ProcOf[c] = p
<1>1. p \in Proc /\ watched[p] \in Call \cup {NoCall}
  BY DEF GoalInv, TypeOK
<1>2. CASE \E c \in Call : CallCarries(c) /\ ProcOf[c] = p
  BY <1>2 DEF Carries
<1>3. CASE pc[p] = "end" \/ (pc[p] = "watch" /\ "end" \notin heard[p])
  <2>1. watched[p] \in Call /\ ProcOf[watched[p]] = p
    BY <1>1, <1>3 DEF GoalInv, MonitorFollows, PlaceInv
  <2> QED
    BY <1>1, <1>3, <2>1, GoalAssumption DEF Carries, MonitorCarries, Concluding, Alive, Home
<1> QED
  BY <1>2, <1>3 DEF InUse

\* Who uses a lease still does, while its threads stay where they are.
LEMMA UserStays ==
  ASSUME up' = up, NEW p \in Proc, InUse(p),
         \A t \in Thread : Home(t) = p /\ pc[t] \in {"launch", "attach", "end", "watch"}
                            => pc'[t] = pc[t],
         "end" \in heard'[p] => "end" \in heard[p]
  PROVE  InUse(p)'
<1>1. ASSUME NEW c \in Call, CallCarries(c), ProcOf[c] = p, pc[c] \in {"launch", "attach", "end"}
      PROVE  InUse(p)'
  <2>1. Home(c) = p /\ pc'[c] = pc[c]
    BY <1>1, GoalAssumption DEF Home, Thread
  <2> QED
    BY <1>1, <2>1 DEF InUse, CallCarries, Alive
<1>2. CASE pc[p] = "end" \/ (pc[p] = "watch" /\ "end" \notin heard[p])
  <2>1. Home(p) = p /\ pc'[p] = pc[p]
    BY <1>2 DEF Home, Thread
  <2> QED
    BY <1>2, <2>1 DEF InUse
<1> QED
  BY <1>1, <1>2 DEF InUse

\* A step that leaves the leases and their users alone.
LEMMA QuietLease ==
  ASSUME GoalInv, Leased, UNCHANGED <<up, kept, leases>>, goal'.lease = goal.lease,
         Ended' <=> Ended,
         \A p \in up : "end" \in heard'[p] => "end" \in heard[p],
         \A t \in Thread : /\ pc[t] \in {"launch", "attach", "end", "watch"} => pc'[t] = pc[t]
                           /\ pc'[t] = "settle" => pc[t] = "settle"
  PROVE  Leased'
<1>1. \A l \in Call : Live(l)' <=> Live(l)
  BY DEF Live, Alive
<1>2. \A p \in up : InUse(p) => InUse(p)'
  BY UserStays DEF GoalInv, TypeOK
<1>3. LeaseKept' /\ LeaseRecorded'
  BY <1>1 DEF Leased, LeaseKept, LeaseRecorded
<1>4. LeaseUsed'
  BY <1>2 DEF Leased, LeaseUsed
<1>5. LeaseFreed'
  BY <1>1 DEF Leased, LeaseFreed, AtPc, Alive
<1>6. LeaseLast'
  BY <1>1 DEF Leased, LeaseLast, AtPc, Alive, Thread
<1> QED
  BY <1>3, <1>4, <1>5, <1>6 DEF Leased

\* A step that gives the lease of process p back.
LEMMA FreeLease ==
  ASSUME GoalInv, Leased, NEW p \in Proc, Release(p), up' = up, goal'.lease = goal.lease,
         Ended' <=> Ended,
         \A q \in up : "end" \in heard'[q] /\ q # p => "end" \in heard[q],
         \A t \in Thread : Home(t) # p => pc'[t] = pc[t],
         LeaseFreed'
  PROVE  Leased'
<1>k. kept \in [Proc -> Call \cup {NoCall}] /\ leases \subseteq Call /\ up \subseteq Proc
  BY DEF GoalInv, TypeOK
<1>1. /\ kept' = [kept EXCEPT ![p] = NoCall] /\ leases' \subseteq leases
      /\ kept[p] # NoCall => leases' = leases \ {kept[p]}
  BY DEF Release
<1>2. \A l \in Call : Live(l)' => Live(l) /\ ProcOf[l] # p
  <2> SUFFICES ASSUME NEW l \in Call, Live(l)' PROVE Live(l) /\ ProcOf[l] # p
    OBVIOUS
  <2>1. Live(l)
    BY <1>1 DEF Live, Alive
  <2>2. kept[ProcOf[l]] = l /\ l # NoCall
    BY <2>1, GoalAssumption DEF Leased, LeaseKept
  <2>3. ProcOf[l] # p
    BY <1>1, <2>2 DEF Live
  <2> QED
    BY <2>1, <2>3
<1>3. LeaseKept' /\ LeaseRecorded'
  BY <1>k, <1>1, <1>2, GoalAssumption DEF Leased, LeaseKept, LeaseRecorded
<1>4. LeaseUsed'
  <2> SUFFICES ASSUME ~Ended, NEW q \in up, kept'[q] # NoCall PROVE InUse(q)'
    BY DEF LeaseUsed
  <2>1. q # p /\ kept[q] # NoCall
    BY <1>k, <1>1
  <2>2. InUse(q)
    BY <2>1 DEF Leased, LeaseUsed
  <2> QED
    BY <1>k, <2>1, <2>2, UserStays
<1>5. LeaseLast'
  <2> SUFFICES ASSUME Ended, NEW l \in Call, Live(l)'
               PROVE  \E c \in Call : AtPc(c, "launch")' /\ ProcOf[c] = ProcOf[l]
    BY DEF LeaseLast
  <2>1. PICK c \in Call : AtPc(c, "launch") /\ ProcOf[c] = ProcOf[l]
    BY <1>2 DEF Leased, LeaseLast
  <2>2. Home(c) = ProcOf[c] /\ ProcOf[c] # p
    BY <1>2, <2>1, GoalAssumption DEF Home
  <2> QED
    BY <2>1, <2>2 DEF AtPc, Alive, Thread
<1> QED
  BY <1>3, <1>4, <1>5 DEF Leased

\* Whoever ends a goal has given its leases back.
LEMMA LeaseStep == GoalInv /\ PlaceInv /\ CarrierInv /\ LeaseInv /\ [Next]_vars => LeaseInv'
<1> SUFFICES ASSUME GoalInv, PlaceInv, CarrierInv, Leased, Tidy', [Next]_vars PROVE Leased'
  BY MishapGrows DEF LeaseInv, Tidy
<1>c. /\ pc \in [Thread -> At] /\ watched \in [Proc -> Call \cup {NoCall}]
      /\ want \in [Thread -> Status \cup {"none"}] /\ goal \in Goal /\ up \in SUBSET Proc
      /\ kept \in [Proc -> Call \cup {NoCall}] /\ leases \subseteq Call
      /\ heard \in [Proc -> SUBSET {"ask", "end", "again"}]
      /\ asked \in [Call -> Waiting \cup {"none"}]
  BY DEF GoalInv, TypeOK
<1>o. /\ Tidy /\ OneCarrier /\ FollowsInv
      /\ mishap' \cap {"late", "deaf"} = {}
  BY MishapGrows DEF CarrierInv, Tidy, Orderly
<1>w. \A s \in {"running", "waiting_input", "waiting_approval", "validating", "reviewing"} :
        CanBe(s) => ~Ended /\ s \notin Terminal
  BY NotEnded DEF Terminal
<1>f. \A t \in Thread : Home(t) \in Proc
  BY GoalAssumption DEF Home, Thread
<1> USE <1>c DEF Thread, AtPc, Asks, Goto
<1>1. ASSUME NEW c \in Call, Launch(c) PROVE Leased'
  <2>1. goal'.lease = goal.lease /\ (Ended' <=> Ended)
    BY <1>1, <1>w DEF Launch, Goal, Ended
  <2>2. /\ UNCHANGED <<up, kept, leases, heard>>
        /\ \A u \in Thread : /\ pc[u] \in {"launch", "attach", "end", "watch"} => pc'[u] = pc[u]
                             /\ pc'[u] = "settle" => pc[u] = "settle"
    BY <1>1 DEF Launch, resource, monitors
  <2> QED
    BY <2>1, <2>2, QuietLease
<1>2. ASSUME NEW c \in Call, PrepareFails(c) PROVE Leased'
  <2>1. /\ goal' = goal /\ UNCHANGED <<up, kept, leases, heard>>
        /\ \A u \in Thread : /\ pc[u] \in {"launch", "attach", "end", "watch"} => pc'[u] = pc[u]
                             /\ pc'[u] = "settle" => pc[u] = "settle"
    BY <1>2 DEF PrepareFails, control, resource, monitors, Finalize
  <2> QED
    BY <2>1, QuietLease DEF Ended
<1>3. ASSUME NEW c \in Call, Grant(c) PROVE Leased'
  <2> DEFINE p == ProcOf[c]
  <2>1. /\ UNCHANGED <<up, heard>> /\ Alive(c) /\ pc[c] = "grant" /\ p \in up /\ p \in Proc
        /\ pc' = [pc EXCEPT ![c] = "launch"] /\ (Ended' <=> Ended)
    BY <1>3, GoalAssumption DEF Grant, monitors, Alive, Home, Patched, Goal, Ended
  <2>2. \A u \in Thread : /\ pc[u] \in {"launch", "attach", "end", "watch"} => pc'[u] = pc[u]
                          /\ pc'[u] = "settle" => pc[u] = "settle"
    BY <2>1
  <2>3. CASE kept[p] # NoCall
    BY <1>3, <2>1, <2>2, <2>3, QuietLease DEF Grant, resource
  <2>4. CASE kept[p] = NoCall
    <3>1. /\ kept' = [kept EXCEPT ![p] = c] /\ leases' = leases \cup {c}
          /\ goal'.lease = IF Ended THEN goal.lease ELSE c
          /\ \A u \in Thread : ~AtPc(u, "settle")
      BY <1>3, <2>4, <1>o DEF Grant, Patched, Goal
    <3>2. CallCarries(c)
      BY <2>1, GoalAssumption DEF CallCarries, PlaceInv, Launching, Kind
    <3>3. \A l \in Call : Live(l) => kept[ProcOf[l]] = l /\ ProcOf[l] # p /\ Ended
      <4> SUFFICES ASSUME NEW l \in Call, Live(l)
                   PROVE  kept[ProcOf[l]] = l /\ ProcOf[l] # p /\ Ended
        OBVIOUS
      <4>1. kept[ProcOf[l]] = l /\ l # NoCall
        BY GoalAssumption DEF Leased, LeaseKept
      <4>2. ProcOf[l] # p /\ ProcOf[l] \in up
        BY <2>4, <4>1, GoalAssumption DEF Live, Alive, Home
      <4>3. CASE ~Ended
        <5>1. InUse(ProcOf[l])
          BY <4>1, <4>2, <4>3 DEF Leased, LeaseUsed
        <5>2. PICK d \in Call : Carries(d) /\ ProcOf[d] = ProcOf[l]
          BY <4>2, <5>1, UserCarries
        <5> QED
          BY <3>2, <4>2, <5>2, <1>o DEF OneCarrier, Carries
      <4> QED
        BY <4>1, <4>2, <4>3
    <3>4. \A l \in Call : Live(l)' => Live(l) \/ l = c
      BY <2>1, <3>1 DEF Live, Alive
    <3>5. LeaseKept' /\ LeaseRecorded'
      BY <2>1, <3>1, <3>3, <3>4, GoalAssumption DEF LeaseKept, LeaseRecorded
    <3>6. LeaseUsed'
      <4> SUFFICES ASSUME ~Ended, NEW q \in up, kept'[q] # NoCall PROVE InUse(q)'
        BY <2>1 DEF LeaseUsed
      <4>1. CASE q = p
        BY <2>1, <3>2, <4>1 DEF InUse, CallCarries, Alive, Launching
      <4>2. CASE q # p
        <5>1. InUse(q)
          BY <3>1, <4>2 DEF Leased, LeaseUsed
        <5> QED
          BY <2>1, <2>2, <5>1, UserStays
      <4> QED
        BY <4>1, <4>2
    <3>7. LeaseFreed'
      BY <2>1, <2>2, <3>1 DEF LeaseFreed, Alive
    <3>8. LeaseLast'
      BY <2>1, <3>4, GoalAssumption DEF LeaseLast, Leased, Alive, Home
    <3> QED
      BY <3>5, <3>6, <3>7, <3>8 DEF Leased
  <2> QED
    BY <2>3, <2>4
<1>4. ASSUME NEW c \in Call, AdmissionTimesOut(c) PROVE Leased'
  <2>1. /\ goal' = goal /\ UNCHANGED <<up, kept, leases, heard>>
        /\ \A u \in Thread : /\ pc[u] \in {"launch", "attach", "end", "watch"} => pc'[u] = pc[u]
                             /\ pc'[u] = "settle" => pc[u] = "settle"
    BY <1>4 DEF AdmissionTimesOut, control, resource, monitors, Finalize
  <2> QED
    BY <2>1, QuietLease DEF Ended
<1>5. ASSUME NEW c \in Call, StartTurn(c) PROVE Leased'
  <2>a. c \in Thread /\ Home(c) = ProcOf[c] /\ ProcOf[c] \in Proc
    BY GoalAssumption DEF Home
  <2>c. CASE Ended
    <3>1. /\ Release(ProcOf[c]) /\ UNCHANGED <<up, goal, heard>> /\ pc' = [pc EXCEPT ![c] = "done"]
      BY <1>5, <2>c DEF StartTurn, monitors
    <3>2. LeaseFreed'
      BY <3>1 DEF Release, Leased, LeaseFreed, Live, Alive
    <3>3. \A u \in Thread : Home(u) # ProcOf[c] => pc'[u] = pc[u]
      BY <2>a, <3>1
    <3> QED
      BY <2>a, <3>1, <3>2, <3>3, FreeLease DEF Ended
  <2>d. CASE ~Ended
    <3>1. /\ UNCHANGED <<up, kept, leases, goal, heard>> /\ pc[c] = "launch" /\ Alive(c)
          /\ pc' = [pc EXCEPT ![c] = "attach"]
      BY <1>5, <2>d DEF StartTurn, resource, monitors
    <3>2. \A l \in Call : Live(l)' <=> Live(l)
      BY <3>1 DEF Live, Alive
    <3>3. LeaseUsed'
      <4> SUFFICES ASSUME NEW q \in up, kept[q] # NoCall PROVE InUse(q)'
        BY <3>1 DEF LeaseUsed
      <4>1. InUse(q)
        BY <2>d DEF Leased, LeaseUsed
      <4>2. c # q
        BY GoalAssumption
      <4> QED
        BY <3>1, <4>1, <4>2 DEF InUse, CallCarries, Launching, Alive
    <3>4. LeaseKept' /\ LeaseRecorded' /\ LeaseFreed' /\ LeaseLast'
      BY <2>d, <3>1, <3>2 DEF Leased, LeaseKept, LeaseRecorded, LeaseFreed, LeaseLast, Ended,
         Alive
    <3> QED
      BY <3>3, <3>4 DEF Leased
  <2> QED
    BY <2>c, <2>d
<1>6. ASSUME NEW c \in Call, LaunchFails(c) PROVE Leased'
  <2>a. c \in Thread /\ Home(c) = ProcOf[c] /\ ProcOf[c] \in Proc
    BY GoalAssumption DEF Home
  <2>1. /\ Release(ProcOf[c]) /\ UNCHANGED <<up, goal, heard>>
        /\ pc' = [pc EXCEPT ![c] = "end"] \/ pc' = [pc EXCEPT ![c] = "authorize"]
    BY <1>6 DEF LaunchFails, Finalize, monitors
  <2>2. LeaseFreed'
    BY <2>1 DEF Release, Leased, LeaseFreed, Live, Alive
  <2>3. \A u \in Thread : Home(u) # ProcOf[c] => pc'[u] = pc[u]
    BY <2>a, <2>1
  <2> QED
    BY <2>a, <2>1, <2>2, <2>3, FreeLease DEF Ended
<1>7. ASSUME NEW c \in Call, Authorize(c) PROVE Leased'
  <2>1. goal'.lease = goal.lease /\ (Ended' <=> Ended)
    BY <1>7, <1>w DEF Authorize, Goal, Ended
  <2>2. /\ UNCHANGED <<up, kept, leases, heard>>
        /\ \A u \in Thread : /\ pc[u] \in {"launch", "attach", "end", "watch"} => pc'[u] = pc[u]
                             /\ pc'[u] = "settle" => pc[u] = "settle"
    BY <1>7 DEF Authorize, resource, monitors
  <2> QED
    BY <2>1, <2>2, QuietLease
<1>8. ASSUME NEW c \in Call, Attach(c) PROVE Leased'
  <2> DEFINE p == ProcOf[c]
  <2>1. /\ UNCHANGED <<up, kept, leases, heard>> /\ p \in Proc /\ p \in up /\ pc[c] = "attach"
        /\ watched[p] = NoCall /\ pc' = [pc EXCEPT ![p] = "watch", ![c] = "done"]
    BY <1>8, <1>o, GoalAssumption DEF Attach, Follow, resource, Alive, Home
  <2>2. goal'.lease = goal.lease /\ (Ended' <=> Ended)
    BY <1>8, <1>c, AttachFields DEF Ended
  <2>3. pc[p] = "idle" /\ heard[p] = {} /\ c # p
    BY <2>1, GoalAssumption DEF PlaceInv, GoalInv, MonitorFollows
  <2>4. \A l \in Call : Live(l)' <=> Live(l)
    BY <2>1 DEF Live, Alive
  <2>5. LeaseUsed'
    <3> SUFFICES ASSUME ~Ended, NEW q \in up, kept[q] # NoCall PROVE InUse(q)'
      BY <2>1, <2>2 DEF LeaseUsed
    <3>1. CASE q = p
      BY <2>1, <2>3, <3>1 DEF InUse
    <3>2. CASE q # p
      <4>1. InUse(q)
        BY DEF Leased, LeaseUsed
      <4>2. \A u \in Thread : Home(u) = q => pc'[u] = pc[u]
        BY <2>1, <3>2, GoalAssumption DEF Home
      <4> QED
        BY <2>1, <4>1, <4>2, UserStays
    <3> QED
      BY <3>1, <3>2
  <2>6. LeaseKept' /\ LeaseRecorded' /\ LeaseFreed' /\ LeaseLast'
    BY <2>1, <2>2, <2>3, <2>4, GoalAssumption
       DEF Leased, LeaseKept, LeaseRecorded, LeaseFreed, LeaseLast, Alive
  <2> QED
    BY <2>5, <2>6 DEF Leased
<1>9. ASSUME NEW c \in Call, Recover(c) PROVE Leased'
  <2>1. goal'.lease = goal.lease /\ (Ended' <=> Ended)
    <3>1. goal'.lease = goal.lease /\ (goal'.status = goal.status \/ goal'.status \notin Terminal)
      BY <1>9, RecoverFields DEF Terminal
    <3>2. Ended => goal' = goal
      BY <1>9, <1>w DEF Recover, Patched
    <3> QED
      BY <3>1, <3>2 DEF Ended
  <2>2. /\ UNCHANGED <<up, kept, leases, heard>>
        /\ \A u \in Thread : /\ pc[u] \in {"launch", "attach", "end", "watch"} => pc'[u] = pc[u]
                             /\ pc'[u] = "settle" => pc[u] = "settle"
    BY <1>9 DEF Recover, resource, monitors
  <2> QED
    BY <2>1, <2>2, QuietLease
<1>10. ASSUME NEW c \in Call, RecoverHooks(c) PROVE Leased'
  <2>1. /\ goal' = goal /\ UNCHANGED <<up, kept, leases, heard>>
        /\ \A u \in Thread : /\ pc[u] \in {"launch", "attach", "end", "watch"} => pc'[u] = pc[u]
                             /\ pc'[u] = "settle" => pc[u] = "settle"
    BY <1>10 DEF RecoverHooks, control, resource, monitors
  <2> QED
    BY <2>1, QuietLease DEF Ended
<1>11. ASSUME NEW c \in Call, Revalidate(c) PROVE Leased'
  <2>1. goal'.lease = goal.lease /\ (Ended' <=> Ended)
    <3>1. goal'.lease = goal.lease /\ (goal'.status = goal.status \/ goal'.status \notin Terminal)
      BY <1>11, ResumeFields DEF Revalidate, Terminal
    <3>2. Ended => goal' = goal
      BY <1>11, <1>w DEF Revalidate, Resume
    <3> QED
      BY <3>1, <3>2 DEF Ended
  <2>2. /\ UNCHANGED <<up, kept, leases, heard>>
        /\ \A u \in Thread : /\ pc[u] \in {"launch", "attach", "end", "watch"} => pc'[u] = pc[u]
                             /\ pc'[u] = "settle" => pc[u] = "settle"
    BY <1>11 DEF Revalidate, resource, monitors, Resume
  <2> QED
    BY <2>1, <2>2, QuietLease
<1>12. ASSUME NEW c \in Call, Restart(c) PROVE Leased'
  <2>1. goal'.lease = goal.lease /\ (Ended' <=> Ended)
    <3>1. goal'.lease = goal.lease /\ (goal'.status = goal.status \/ goal'.status \notin Terminal)
      BY <1>12, ResumeFields DEF Restart, Terminal
    <3>2. Ended => goal' = goal
      BY <1>12, <1>w DEF Restart, Resume
    <3> QED
      BY <3>1, <3>2 DEF Ended
  <2>2. /\ UNCHANGED <<up, kept, leases, heard>>
        /\ \A u \in Thread : /\ pc[u] \in {"launch", "attach", "end", "watch"} => pc'[u] = pc[u]
                             /\ pc'[u] = "settle" => pc[u] = "settle"
    BY <1>12 DEF Restart, resource, monitors, Resume
  <2> QED
    BY <2>1, <2>2, QuietLease
<1>13. ASSUME NEW c \in Call, Rerun(c) PROVE Leased'
  <2>1. goal'.lease = goal.lease /\ (Ended' <=> Ended)
    <3>1. goal'.lease = goal.lease /\ (goal'.status = goal.status \/ goal'.status \notin Terminal)
      BY <1>13, ResumeFields DEF Rerun, Terminal
    <3>2. Ended => goal' = goal
      BY <1>13, <1>w DEF Rerun, Resume
    <3> QED
      BY <3>1, <3>2 DEF Ended
  <2>2. /\ UNCHANGED <<up, kept, leases, heard>>
        /\ \A u \in Thread : /\ pc[u] \in {"launch", "attach", "end", "watch"} => pc'[u] = pc[u]
                             /\ pc'[u] = "settle" => pc[u] = "settle"
    BY <1>13 DEF Rerun, resource, monitors, Resume
  <2> QED
    BY <2>1, <2>2, QuietLease
<1>14. ASSUME NEW c \in Call, RecoverReads(c) PROVE Leased'
  <2>1. /\ goal' = goal /\ UNCHANGED <<up, kept, leases, heard>>
        /\ \A u \in Thread : /\ pc[u] \in {"launch", "attach", "end", "watch"} => pc'[u] = pc[u]
                             /\ pc'[u] = "settle" => pc[u] = "settle"
    BY <1>14 DEF RecoverReads, control, resource, monitors
  <2> QED
    BY <2>1, QuietLease DEF Ended
<1>15. ASSUME NEW c \in Call, Cancel(c) PROVE Leased'
  <2>1. /\ goal' = goal /\ UNCHANGED <<up, kept, leases, heard>>
        /\ \A u \in Thread : /\ pc[u] \in {"launch", "attach", "end", "watch"} => pc'[u] = pc[u]
                             /\ pc'[u] = "settle" => pc[u] = "settle"
    BY <1>15 DEF Cancel, control, resource, monitors, Finalize
  <2> QED
    BY <2>1, QuietLease DEF Ended
<1>16. ASSUME NEW c \in Call, ResumeReads(c) PROVE Leased'
  <2>1. /\ goal' = goal /\ UNCHANGED <<up, kept, leases, heard>>
        /\ \A u \in Thread : /\ pc[u] \in {"launch", "attach", "end", "watch"} => pc'[u] = pc[u]
                             /\ pc'[u] = "settle" => pc[u] = "settle"
    BY <1>16 DEF ResumeReads, control, resource, monitors
  <2> QED
    BY <2>1, QuietLease DEF Ended
<1>17. ASSUME NEW c \in Call, Ask(c) PROVE Leased'
  <2>1. /\ goal' = goal /\ UNCHANGED <<up, kept, leases, heard>>
        /\ \A u \in Thread : /\ pc[u] \in {"launch", "attach", "end", "watch"} => pc'[u] = pc[u]
                             /\ pc'[u] = "settle" => pc[u] = "settle"
    BY <1>17 DEF Ask, control, resource, monitors
  <2> QED
    BY <2>1, QuietLease DEF Ended
<1>18. ASSUME NEW c \in Call, TurnEnds(c) PROVE Leased'
  <2>1. /\ goal' = goal /\ UNCHANGED <<up, kept, leases, heard>>
        /\ \A u \in Thread : /\ pc[u] \in {"launch", "attach", "end", "watch"} => pc'[u] = pc[u]
                             /\ pc'[u] = "settle" => pc[u] = "settle"
    BY <1>18 DEF TurnEnds, control, resource, monitors
  <2> QED
    BY <2>1, QuietLease DEF Ended
<1>19. ASSUME NEW p \in Proc, HearAsk(p) PROVE Leased'
  <2>1. asked[watched[p]] \in Waiting /\ pc[p] = "watch"
    BY <1>19 DEF HearAsk, GoalInv, MonitorFollows
  <2>2. CASE ~Heeded(p)
    <3>1. /\ UNCHANGED <<up, goal, kept, leases, pc>>
          /\ \A q \in up : "end" \in heard'[q] => "end" \in heard[q]
      BY <1>19, <2>2 DEF HearAsk, resource, control
    <3> QED
      BY <3>1, QuietLease DEF Ended
  <2>3. CASE Heeded(p) /\ CanBe(asked[watched[p]])
    <3>1. /\ Release(p) /\ UNCHANGED up
          /\ \A q \in up : q # p => heard'[q] = heard[q]
          /\ \A u \in Thread : u # p => pc'[u] = pc[u]
          /\ pc'[p] # "settle"
      BY <1>19, <2>1, <2>3 DEF HearAsk, control, Throw, Finalize
    <3>2. goal'.lease = goal.lease /\ (Ended' <=> Ended)
      BY <1>19, <2>3, HearAskFields DEF Ended, Waiting, Terminal, Heeded
    <3>3. \A u \in Thread : Home(u) # p => pc'[u] = pc[u]
      BY <3>1 DEF Home
    <3>4. LeaseFreed'
      BY <3>1 DEF Release, Leased, LeaseFreed, Live, Alive
    <3> QED
      BY <3>1, <3>2, <3>3, <3>4, FreeLease
  <2>4. CASE Heeded(p) /\ ~CanBe(asked[watched[p]])
    <3>1. /\ UNCHANGED <<up, goal, kept, leases>> /\ pc' = [pc EXCEPT ![p] = "end"]
          /\ \A q \in up : q # p => heard'[q] = heard[q]
      BY <1>19, <2>4 DEF HearAsk, Throw, Finalize, resource
    <3>2. \A l \in Call : Live(l)' <=> Live(l)
      BY <3>1 DEF Live, Alive
    <3>3. LeaseUsed'
      <4> SUFFICES ASSUME ~Ended, NEW q \in up, kept[q] # NoCall PROVE InUse(q)'
        BY <3>1 DEF LeaseUsed, Ended
      <4>1. CASE q = p
        BY <3>1, <4>1 DEF InUse
      <4>2. CASE q # p
        <5>1. InUse(q)
          BY DEF Leased, LeaseUsed
        <5>2. \A u \in Thread : Home(u) = q => pc'[u] = pc[u]
          BY <3>1, <4>2 DEF Home
        <5> QED
          BY <3>1, <4>2, <5>1, <5>2, UserStays
      <4> QED
        BY <4>1, <4>2
    <3>4. LeaseKept' /\ LeaseRecorded' /\ LeaseFreed' /\ LeaseLast'
      BY <3>1, <3>2, GoalAssumption
         DEF Leased, LeaseKept, LeaseRecorded, LeaseFreed, LeaseLast, Ended, Alive
    <3> QED
      BY <3>3, <3>4 DEF Leased
  <2> QED
    BY <2>2, <2>3, <2>4
<1>20. ASSUME NEW p \in Proc, HearEnd(p) PROVE Leased'
  <2>1. pc[p] = "watch" /\ p \in up
    BY <1>20 DEF HearEnd, Alive, Home
  <2>2. CASE ~Heeded(p)
    <3>1. /\ UNCHANGED <<up, goal, kept, leases, pc>>
          /\ \A q \in up : q # p => heard'[q] = heard[q]
          /\ ~Ended /\ "end" \notin heard'[p] => "end" \notin heard[p]
      BY <1>20, <2>2 DEF HearEnd, resource, control
    <3>2. \A l \in Call : Live(l)' <=> Live(l)
      BY <3>1 DEF Live, Alive
    <3>3. LeaseUsed'
      <4> SUFFICES ASSUME ~Ended, NEW q \in up, kept[q] # NoCall PROVE InUse(q)'
        BY <3>1 DEF LeaseUsed, Ended
      <4>1. InUse(q)
        BY DEF Leased, LeaseUsed
      <4>2. "end" \in heard[p]
        BY <2>1, <2>2, <1>o DEF FollowsInv, Following, Heeded
      <4> QED
        BY <3>1, <4>1, <4>2, UserStays
    <3>4. LeaseKept' /\ LeaseRecorded' /\ LeaseFreed' /\ LeaseLast'
      BY <3>1, <3>2 DEF Leased, LeaseKept, LeaseRecorded, LeaseFreed, LeaseLast, Ended, Alive
    <3> QED
      BY <3>3, <3>4 DEF Leased
  <2>3. CASE Heeded(p) /\ turn[watched[p]] = "succeeded"
    <3>1. /\ Release(p) /\ UNCHANGED up
          /\ \A q \in up : q # p => heard'[q] = heard[q]
          /\ \A u \in Thread : u # p => pc'[u] = pc[u]
          /\ pc'[p] # "settle"
      BY <1>20, <2>3 DEF HearEnd, control
    <3>2. goal'.lease = goal.lease /\ (Ended' <=> Ended)
      BY <1>20, <2>3, <1>w DEF HearEnd, Goal, Ended, Waiting, Terminal, Heeded
    <3>3. \A u \in Thread : Home(u) # p => pc'[u] = pc[u]
      BY <3>1 DEF Home
    <3>4. LeaseFreed'
      BY <3>1 DEF Release, Leased, LeaseFreed, Live, Alive
    <3> QED
      BY <3>1, <3>2, <3>3, <3>4, FreeLease
  <2>4. CASE Heeded(p) /\ turn[watched[p]] # "succeeded"
    <3>1. /\ UNCHANGED <<up, goal, kept, leases>> /\ pc' = [pc EXCEPT ![p] = "end"]
          /\ \A q \in up : q # p => heard'[q] = heard[q]
      BY <1>20, <2>4 DEF HearEnd, Throw, Finalize, resource
    <3>2. \A l \in Call : Live(l)' <=> Live(l)
      BY <3>1 DEF Live, Alive
    <3>3. LeaseUsed'
      <4> SUFFICES ASSUME ~Ended, NEW q \in up, kept[q] # NoCall PROVE InUse(q)'
        BY <3>1 DEF LeaseUsed, Ended
      <4>1. CASE q = p
        BY <3>1, <4>1 DEF InUse
      <4>2. CASE q # p
        <5>1. InUse(q)
          BY DEF Leased, LeaseUsed
        <5>2. \A u \in Thread : Home(u) = q => pc'[u] = pc[u]
          BY <3>1, <4>2 DEF Home
        <5> QED
          BY <3>1, <4>2, <5>1, <5>2, UserStays
      <4> QED
        BY <4>1, <4>2
    <3>4. LeaseKept' /\ LeaseRecorded' /\ LeaseFreed' /\ LeaseLast'
      BY <3>1, <3>2, GoalAssumption
         DEF Leased, LeaseKept, LeaseRecorded, LeaseFreed, LeaseLast, Ended, Alive
    <3> QED
      BY <3>3, <3>4 DEF Leased
  <2> QED
    BY <2>2, <2>3, <2>4
<1>21. ASSUME NEW p \in Proc, TurnOver(p) PROVE Leased'
  <2>1. goal'.lease = goal.lease /\ (Ended' <=> Ended)
    BY <1>21, <1>w DEF TurnOver, Goal, Ended, Patched
  <2>2. /\ UNCHANGED <<up, kept, leases, heard>>
        /\ \A u \in Thread : /\ pc[u] \in {"launch", "attach", "end", "watch"} => pc'[u] = pc[u]
                             /\ pc'[u] = "settle" => pc[u] = "settle"
    BY <1>21 DEF TurnOver, resource, monitors, Back
  <2> QED
    BY <2>1, <2>2, QuietLease
<1>22. ASSUME NEW p \in Proc, StopWatching(p) PROVE Leased'
  <2>1. /\ UNCHANGED <<up, goal, kept, leases>> /\ pc[p] = "watch" /\ p \in up
        /\ pc' = [pc EXCEPT ![p] = "idle"] /\ (Ended \/ "end" \in heard[p])
        /\ \A q \in up : q # p => heard'[q] = heard[q]
    BY <1>22 DEF StopWatching, resource, Alive, Home
  <2>2. \A l \in Call : Live(l)' <=> Live(l)
    BY <2>1 DEF Live, Alive
  <2>3. LeaseUsed'
    <3> SUFFICES ASSUME ~Ended, NEW q \in up, kept[q] # NoCall PROVE InUse(q)'
      BY <2>1 DEF LeaseUsed, Ended
    <3>1. InUse(q)
      BY DEF Leased, LeaseUsed
    <3> QED
      BY <2>1, <3>1, GoalAssumption DEF InUse, CallCarries, Alive
  <2>4. LeaseKept' /\ LeaseRecorded' /\ LeaseFreed' /\ LeaseLast'
    BY <2>1, <2>2, GoalAssumption
       DEF Leased, LeaseKept, LeaseRecorded, LeaseFreed, LeaseLast, Ended, Alive
  <2> QED
    BY <2>3, <2>4 DEF Leased
<1>23. ASSUME NEW p \in Proc, Crash(p) PROVE Leased'
  <2>1. /\ UNCHANGED <<goal, leases, pc, heard>> /\ p \in Proc
        /\ up' = up \ {p} /\ kept' = [kept EXCEPT ![p] = NoCall]
    BY <1>23, <1>f DEF Crash, Dies, control, monitors
  <2>2. \A l \in Call : Live(l)' <=> Live(l) /\ ProcOf[l] # p
    BY <2>1, GoalAssumption DEF Live, Alive, Home
  <2>3. \A q \in up' : InUse(q) => InUse(q)'
    BY <2>1, GoalAssumption DEF InUse, CallCarries, Alive, Home
  <2>4. LeaseUsed'
    BY <2>1, <2>3 DEF Leased, LeaseUsed, Ended
  <2>5. LeaseKept' /\ LeaseRecorded' /\ LeaseFreed'
    BY <2>1, <2>2, GoalAssumption
       DEF Leased, LeaseKept, LeaseRecorded, LeaseFreed, Ended, Alive, Home
  <2>6. LeaseLast'
    BY <2>1, <2>2, GoalAssumption DEF Leased, LeaseLast, Ended, Alive, Home
  <2> QED
    BY <2>4, <2>5, <2>6 DEF Leased
<1>24. ASSUME NEW t \in Thread, Validate(t) PROVE Leased'
  <2>1. goal'.lease = goal.lease /\ (Ended' <=> Ended)
    BY <1>24, <1>w DEF Validate, Goal, Ended
  <2>2. /\ UNCHANGED <<up, kept, leases, heard>>
        /\ \A u \in Thread : /\ pc[u] \in {"launch", "attach", "end", "watch"} => pc'[u] = pc[u]
                             /\ pc'[u] = "settle" => pc[u] = "settle"
    BY <1>24 DEF Validate, resource, monitors, Back, Throw, Finalize
  <2> QED
    BY <2>1, <2>2, QuietLease
<1>25. ASSUME NEW t \in Thread, AcceptanceEnds(t) PROVE Leased'
  <2>1. /\ goal' = goal /\ UNCHANGED <<up, kept, leases, heard>>
        /\ \A u \in Thread : /\ pc[u] \in {"launch", "attach", "end", "watch"} => pc'[u] = pc[u]
                             /\ pc'[u] = "settle" => pc[u] = "settle"
    BY <1>25 DEF AcceptanceEnds, control, resource, monitors, Finalize
  <2> QED
    BY <2>1, QuietLease DEF Ended
<1>26. ASSUME NEW t \in Thread, AcceptanceWaits(t) PROVE Leased'
  <2>1. /\ goal' = goal /\ UNCHANGED <<up, kept, leases, heard>>
        /\ \A u \in Thread : /\ pc[u] \in {"launch", "attach", "end", "watch"} => pc'[u] = pc[u]
                             /\ pc'[u] = "settle" => pc[u] = "settle"
    BY <1>26 DEF AcceptanceWaits, control, resource, monitors, Back
  <2> QED
    BY <2>1, QuietLease DEF Ended
<1>27. ASSUME NEW t \in Thread, Review(t) PROVE Leased'
  <2>1. goal'.lease = goal.lease /\ (Ended' <=> Ended)
    BY <1>27, <1>w DEF Review, Goal, Ended
  <2>2. /\ UNCHANGED <<up, kept, leases, heard>>
        /\ \A u \in Thread : /\ pc[u] \in {"launch", "attach", "end", "watch"} => pc'[u] = pc[u]
                             /\ pc'[u] = "settle" => pc[u] = "settle"
    BY <1>27 DEF Review, resource, monitors, Back, Finalize
  <2> QED
    BY <2>1, <2>2, QuietLease
<1>28. ASSUME NEW t \in Thread, Judge(t) PROVE Leased'
  <2>1. /\ goal' = goal /\ UNCHANGED <<up, kept, leases, heard>>
        /\ \A u \in Thread : /\ pc[u] \in {"launch", "attach", "end", "watch"} => pc'[u] = pc[u]
                             /\ pc'[u] = "settle" => pc[u] = "settle"
    BY <1>28 DEF Judge, control, resource, monitors, Finalize
  <2> QED
    BY <2>1, QuietLease DEF Ended
<1>29. ASSUME NEW t \in Thread, End(t) PROVE Leased'
  <2> DEFINE p == Home(t)
  <2>1. /\ Release(p) /\ UNCHANGED <<up, goal, heard>> /\ p \in Proc /\ p \in up /\ pc[t] = "end"
        /\ \A u \in Thread : u # t => pc'[u] = pc[u]
        /\ Ended => pc'[t] # "settle"
    BY <1>29, <1>f DEF End, Back, monitors, Alive
  <2>2. \A u \in Thread : Home(u) # p => pc'[u] = pc[u]
    BY <2>1
  <2>3. LeaseFreed'
    <3>1. \A l \in Call : Live(l)' => Live(l)
      BY <2>1 DEF Release, Live, Alive
    <3>2. CASE Ended
      <4>1. \A u \in Thread : AtPc(u, "settle")' => AtPc(u, "settle")
        BY <2>1, <3>2 DEF Alive
      <4> QED
        BY <3>1, <4>1 DEF Leased, LeaseFreed
    <3>3. CASE ~Ended
      <4> SUFFICES ASSUME NEW l \in Call, Live(l)' PROVE FALSE
        BY DEF LeaseFreed
      <4>1. Live(l) /\ goal.lease = l /\ kept[ProcOf[l]] = l /\ l # NoCall /\ ProcOf[l] \in up
        BY <3>1, <3>3, GoalAssumption
           DEF Leased, LeaseRecorded, LeaseKept, Live, Alive, Home
      <4>2. kept[p] # NoCall /\ kept[p] # l
        BY <2>1, <4>1 DEF Release, Live
      <4>3. InUse(p) /\ InUse(ProcOf[l])
        BY <2>1, <3>3, <4>1, <4>2 DEF Leased, LeaseUsed
      <4>4. PICK c \in Call : Carries(c) /\ ProcOf[c] = p
        BY <2>1, <4>3, UserCarries
      <4>5. PICK d \in Call : Carries(d) /\ ProcOf[d] = ProcOf[l]
        BY <4>1, <4>3, UserCarries
      <4> QED
        BY <4>1, <4>2, <4>4, <4>5, <1>o DEF OneCarrier
    <3> QED
      BY <3>2, <3>3
  <2> QED
    BY <2>1, <2>2, <2>3, FreeLease DEF Ended
<1>30. ASSUME NEW t \in Thread, Settle(t) PROVE Leased'
  <2>1. /\ UNCHANGED <<up, kept, leases, heard>> /\ AtPc(t, "settle")
        /\ pc'[t] # "settle" /\ \A u \in Thread : u # t => pc'[u] = pc[u]
        /\ goal'.lease = goal.lease /\ (Ended => goal' = goal)
    BY <1>30 DEF Settle, resource, monitors, Back, Finalize, Goal
  <2>2. \A l \in Call : ~Live(l)
    BY <2>1 DEF Leased, LeaseFreed
  <2>3. \A l \in Call : ~Live(l)'
    BY <2>1, <2>2 DEF Live, Alive
  <2>4. LeaseUsed'
    <3> SUFFICES ASSUME ~Ended, NEW q \in up, kept[q] # NoCall PROVE InUse(q)'
      BY <2>1 DEF LeaseUsed, Ended
    <3>1. InUse(q)
      BY DEF Leased, LeaseUsed
    <3> QED
      BY <2>1, <3>1, UserStays
  <2>5. LeaseKept' /\ LeaseRecorded' /\ LeaseFreed' /\ LeaseLast'
    BY <2>3 DEF LeaseKept, LeaseRecorded, LeaseFreed, LeaseLast
  <2> QED
    BY <2>4, <2>5 DEF Leased
<1>31. ASSUME NEW t \in Thread, SettleTorn(t) PROVE Leased'
  <2> DEFINE p == Home(t)
  <2>1. /\ UNCHANGED <<goal, leases, pc, heard>> /\ p \in Proc
        /\ up' = up \ {p} /\ kept' = [kept EXCEPT ![p] = NoCall]
    BY <1>31, <1>f DEF SettleTorn, Dies, control, monitors
  <2>2. \A l \in Call : Live(l)' <=> Live(l) /\ ProcOf[l] # p
    BY <2>1, GoalAssumption DEF Live, Alive, Home
  <2>3. \A q \in up' : InUse(q) => InUse(q)'
    BY <2>1, GoalAssumption DEF InUse, CallCarries, Alive, Home
  <2>4. LeaseUsed'
    BY <2>1, <2>3 DEF Leased, LeaseUsed, Ended
  <2>5. LeaseKept' /\ LeaseRecorded' /\ LeaseFreed'
    BY <2>1, <2>2, GoalAssumption
       DEF Leased, LeaseKept, LeaseRecorded, LeaseFreed, Ended, Alive, Home
  <2>6. LeaseLast'
    BY <2>1, <2>2, GoalAssumption DEF Leased, LeaseLast, Ended, Alive, Home
  <2> QED
    BY <2>4, <2>5, <2>6 DEF Leased
<1>32. ASSUME NEW d \in pending, Claim(d) PROVE Leased'
  <2>1. /\ goal' = goal /\ UNCHANGED <<up, kept, leases, heard>>
        /\ \A u \in Thread : /\ pc[u] \in {"launch", "attach", "end", "watch"} => pc'[u] = pc[u]
                             /\ pc'[u] = "settle" => pc[u] = "settle"
    BY <1>32 DEF Claim, control, resource, monitors
  <2> QED
    BY <2>1, QuietLease DEF Ended
<1>33. ASSUME NEW d \in pending, Deliver(d) PROVE Leased'
  <2>1. /\ goal' = goal /\ UNCHANGED <<up, kept, leases, heard>>
        /\ \A u \in Thread : /\ pc[u] \in {"launch", "attach", "end", "watch"} => pc'[u] = pc[u]
                             /\ pc'[u] = "settle" => pc[u] = "settle"
    BY <1>33 DEF Deliver, control, resource, monitors
  <2> QED
    BY <2>1, QuietLease DEF Ended
<1>34. ASSUME NEW d \in pending, Finish(d) PROVE Leased'
  <2>1. /\ goal' = goal /\ UNCHANGED <<up, kept, leases, heard>>
        /\ \A u \in Thread : /\ pc[u] \in {"launch", "attach", "end", "watch"} => pc'[u] = pc[u]
                             /\ pc'[u] = "settle" => pc[u] = "settle"
    BY <1>34 DEF Finish, control, resource, monitors
  <2> QED
    BY <2>1, QuietLease DEF Ended
<1>35. CASE UNCHANGED vars
  <2>1. /\ goal' = goal /\ UNCHANGED <<up, kept, leases, heard>>
        /\ \A u \in Thread : /\ pc[u] \in {"launch", "attach", "end", "watch"} => pc'[u] = pc[u]
                             /\ pc'[u] = "settle" => pc[u] = "settle"
    BY <1>35 DEF vars, control, resource, monitors
  <2> QED
    BY <2>1, QuietLease DEF Ended
<1>36. ASSUME NEW c \in Call, AttachFails(c) PROVE Leased'
  <2>a. c \in Thread /\ Home(c) = ProcOf[c] /\ ProcOf[c] \in Proc
    BY GoalAssumption DEF Home
  <2>1. /\ Release(ProcOf[c]) /\ UNCHANGED <<up, heard>> /\ pc' = [pc EXCEPT ![c] = "end"]
    BY <1>36 DEF AttachFails, Finalize, monitors
  <2>2. goal'.lease = goal.lease /\ (Ended' <=> Ended)
    BY <1>36, <1>c, AttachFields DEF Ended
  <2>3. LeaseFreed'
    BY <2>1 DEF Release, Leased, LeaseFreed, Live, Alive
  <2>4. \A u \in Thread : Home(u) # ProcOf[c] => pc'[u] = pc[u]
    BY <2>a, <2>1
  <2> QED
    BY <2>a, <2>1, <2>2, <2>3, <2>4, FreeLease
<1>37. CASE Metadata
  <2>1. /\ goal' = goal /\ UNCHANGED <<up, kept, leases, heard>>
        /\ \A u \in Thread : /\ pc[u] \in {"launch", "attach", "end", "watch"} => pc'[u] = pc[u]
                             /\ pc'[u] = "settle" => pc[u] = "settle"
    BY <1>37 DEF Metadata, control, resource, monitors
  <2> QED
    BY <2>1, QuietLease DEF Ended
<1> QED
  BY <1>1, <1>2, <1>3, <1>4, <1>5, <1>6, <1>7, <1>8, <1>9, <1>10, <1>11, <1>12, <1>13, <1>14,
     <1>15, <1>16, <1>17, <1>18, <1>19, <1>20, <1>21, <1>22, <1>23, <1>24, <1>25, <1>26, <1>27,
     <1>28, <1>29, <1>30, <1>31, <1>32, <1>33, <1>34, <1>35, <1>36, <1>37 DEF Next, CallStep,
     Begin, MonitorStep, EndStep, HookStep

\* What is so of the leases too.
LEMMA LeaseInvariant == Spec => [](GoalInv /\ PlaceInv /\ CarrierInv /\ LeaseInv)
<1> QED
  BY InitGoal, InitPlace, InitCarrier, InitLease, StepGoal, PlaceStep, CarrierStep, LeaseStep,
     PTL DEF Spec

\* A goal that has ended and is at rest holds no lease of the governor for a live
\* process (releaseGoalResourceLease), except where a grant came during a finalization
\* (late), calls raced (raced), a goal at work was recovered (seized), or a turn was
\* followed by nobody (deaf).
THEOREM GoalLeaseReturned == Spec => []LeaseReturned
<1>1. GoalInv /\ LeaseInv => LeaseReturned
  <2> SUFFICES ASSUME GoalInv, Ended, AtRest, Leased, NEW l \in leases, Alive(l) PROVE FALSE
    BY DEF LeaseInv, LeaseReturned, Tidy
  <2>1. l \in Call
    BY DEF GoalInv, TypeOK
  <2>2. PICK c \in Call : AtPc(c, "launch")
    BY <2>1 DEF Leased, LeaseLast, Live
  <2> QED
    BY <2>2 DEF AtRest, AtPc, Thread
<1> QED
  BY <1>1, LeaseInvariant, PTL

=============================================================================
