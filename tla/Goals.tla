------------------------------- MODULE Goals -------------------------------
(***************************************************************************)
(* One goal of src/goals: its record in the GoalStore, the calls of        *)
(* GoalManagers in several processes that move it, the monitors that       *)
(* follow the turns of the provider, the governor's lease for the work and *)
(* the delivery of the notice that the goal has ended.                     *)
(*                                                                         *)
(* A thread is a manager call, or a process, which stands for the one      *)
(* monitor that its manager has for the goal.  An action takes one write   *)
(* of the store together with the reads just before it; where a call acts  *)
(* on what it has read earlier, the read is an action of its own.  A turn  *)
(* and a lease are named by the call that has launched it, or asked for    *)
(* it.                                                                     *)
(***************************************************************************)
EXTENDS Integers, FiniteSets

CONSTANTS
  Call,    \* manager calls about the goal, each made once
  Proc,    \* server processes
  Mortal,  \* those that may die (a bound of the instance)
  KindOf,  \* what each call does; "recover" is the start of a manager
  ProcOf,  \* the process it runs in
  Key,     \* idempotency keys of resumes
  KeyOf,   \* that of each call
  MaxLater, \* events of other work on a goal that has ended (a bound of the instance)
  NoCall, NoKey

Kind == {"start", "resume", "cancel", "recover"}

ASSUME GoalAssumption ==
  /\ Call \cap Proc = {} /\ NoCall \notin Call \cup Proc /\ NoKey \notin Key
  /\ Mortal \subseteq Proc /\ MaxLater \in Nat
  /\ KindOf \in [Call -> Kind] /\ ProcOf \in [Call -> Proc] /\ KeyOf \in [Call -> Key]
  /\ \A c, d \in Call : KindOf[c] = "start" /\ KindOf[d] = "start" => c = d

Thread   == Call \cup Proc
Waiting  == {"waiting_input", "waiting_approval"}
Busy     == {"queued", "running", "validating", "reviewing"}
\* "blocked" counts as "failed": the same transitions lead to both, and the same
\* notice follows.
Terminal == {"succeeded", "failed", "cancelled"}
Status   == Waiting \cup Busy \cup Terminal

AllowedTransitions == [s \in Status |->
  CASE s = "queued"     -> {"running", "waiting_input", "failed", "cancelled"}
    [] s = "running"    -> Waiting \cup {"validating", "failed", "cancelled"}
    [] s = "waiting_input"    -> {"running", "validating", "failed", "cancelled"}
    [] s = "waiting_approval" -> {"running", "failed", "cancelled"}
    [] s = "validating" -> {"reviewing", "waiting_input"} \cup Terminal
    [] s = "reviewing"  -> {"waiting_input"} \cup Terminal
    [] OTHER -> {}]

\* A turn of the provider: not begun, at work, or how it has ended.
TurnState == {"none", "working", "succeeded", "failed", "cancelled"}
Notice == {"task.succeeded", "task.failed"}

\* The record: run is checkpoint.codex_run_id, thread whether there is a
\* codex_thread_id, ended is codex_turn_terminal, from is recovered_from_status,
\* retry says retry_launch_operation = "start", key is last_resume_idempotency_key
\* and lease the resource_lease of the checkpoint.
Goal == [status : Status, run : Call \cup {NoCall}, thread : BOOLEAN, ended : BOOLEAN,
         recovery : BOOLEAN, from : Status \cup {"none"}, retry : BOOLEAN,
         key : Key \cup {NoKey}, lease : Call \cup {NoCall}]

\* The hook_delivery part of the record: later counts its events since the end of
\* the goal (last_event_sequence), by which the event key of a new delivery differs
\* from an older one.
EventKey == Notice \X Nat
Delivery == [home : Proc, type : Notice, key : EventKey,
             stage : {"queued", "claimed", "sent", "unsent"}]

VARIABLES
  up,      \* live processes
  goal,    \* goal.json
  result,  \* the status in result.json, "none" without the file
  kept,    \* the resourceLeases entry of each process
  leases,  \* what the governor has granted and not got back
  pc,      \* where each thread is
  want,    \* the status that a thread has asked for, or read
  turn,    \* the turn that each call has launched
  asked,   \* what a turn asks its owner for
  watched, \* the run that the monitor of each process follows
  heard,   \* the events of it that have been handled
  pending, \* hook deliveries under way
  claimed, later, notified, hookError, \* what the record says of them
  sent,    \* the notices sent (history)
  mishap   \* which overlaps of calls there have been (history)

control  == <<pc, want>>
resource == <<kept, leases>>
provider == <<turn, asked>>
monitors == <<watched, heard>>
hooks    == <<pending, claimed, later, notified, hookError, sent>>
vars == <<up, goal, result, resource, control, provider, monitors, hooks, mishap>>

At == {"idle", "snapshot", "grant", "launch", "attach", "authorize", "watch", "turnOver",
       "validate", "accept", "judge", "end", "settle", "recover", "hooks", "revalidate",
       "restart", "rerun", "done", "failed"}
Mishap == {"raced", "seized", "late", "deaf", "twice", "left"}

\* The variables have their types, and a goal that has ended has a result.
TypeOK ==
  /\ up \in SUBSET Proc
  /\ goal \in Goal
  /\ result \in Terminal \cup {"none"}
  /\ goal.status \in Terminal => result # "none"
  /\ kept \in [Proc -> Call \cup {NoCall}]
  /\ leases \in SUBSET Call
  /\ pc \in [Thread -> At]
  /\ want \in [Thread -> Status \cup {"none"}]
  /\ turn \in [Call -> TurnState]
  /\ asked \in [Call -> Waiting \cup {"none"}]
  /\ watched \in [Proc -> Call \cup {NoCall}]
  /\ heard \in [Proc -> SUBSET {"ask", "end", "again"}]
  /\ pending \in SUBSET Delivery
  /\ claimed \in SUBSET EventKey
  /\ later \in Nat
  /\ notified \in BOOLEAN
  /\ hookError \in BOOLEAN
  /\ sent \in [Notice -> Nat]
  /\ mishap \in SUBSET Mishap

\* createGoal has written the record; the call that starts it goes on.
Init ==
  /\ up = Proc
  /\ goal = [status |-> "queued", run |-> NoCall, thread |-> FALSE, ended |-> FALSE,
             recovery |-> FALSE, from |-> "none", retry |-> FALSE, key |-> NoKey,
             lease |-> NoCall]
  /\ result = "none"
  /\ kept = [p \in Proc |-> NoCall] /\ leases = {}
  /\ pc = [t \in Thread |-> IF t \in Call /\ KindOf[t] = "start" THEN "snapshot" ELSE "idle"]
  /\ want = [t \in Thread |-> "none"]
  /\ turn = [c \in Call |-> "none"] /\ asked = [c \in Call |-> "none"]
  /\ watched = [p \in Proc |-> NoCall] /\ heard = [p \in Proc |-> {}]
  /\ pending = {} /\ claimed = {} /\ later = 0 /\ notified = FALSE /\ hookError = FALSE
  /\ sent = [n \in Notice |-> 0]
  /\ mishap = {}

-----------------------------------------------------------------------------
(* Threads.                                                                *)

Home(t)  == IF t \in Proc THEN t ELSE ProcOf[t]
Alive(t) == Home(t) \in up
AtPc(t, l) == Alive(t) /\ pc[t] = l

Asks(t, l, s) == pc' = [pc EXCEPT ![t] = l] /\ want' = [want EXCEPT ![t] = s]
Goto(t, l)    == Asks(t, l, "none")
Finalize(t, s) == Asks(t, "end", s)

\* A monitor goes on with its loop, a call returns.
Back(t) == Goto(t, IF t \in Proc THEN "watch" ELSE "done")

\* A rejected call returns its error; that of a monitor fails the goal.
Throw(t) == IF t \in Proc THEN Finalize(t, "failed") ELSE Goto(t, "done")

\* ready(): the recovery of the process has been carried through.
Ready(p) == \A c \in Call :
  KindOf[c] = "recover" /\ ProcOf[c] = p => pc[c] \in {"hooks", "done"}

Ended == goal.status \in Terminal

\* A status change that assertStatusChange lets pass.
CanBe(s) == goal.status = s \/ s \in AllowedTransitions[goal.status]

\* What a resume asks of the goal.
Resumable == goal.status \in Waiting /\ (goal.ended \/ goal.recovery)

\* patch: a goal that has ended is left alone.
Patched(g) == goal' = IF Ended THEN goal ELSE g

\* releaseGoalResourceLease, of the own lease or else of the recorded one.
Release(p) ==
  LET l == IF kept[p] # NoCall THEN kept[p] ELSE goal.lease IN
  leases' = leases \ {l} /\ kept' = [kept EXCEPT ![p] = NoCall]

-----------------------------------------------------------------------------
(* Launching a turn.                                                       *)

\* start, when the snapshot is made.  "left": the message of the hook cannot be
\* written, and start throws outside its try.
Launch(c) ==
  /\ AtPc(c, "snapshot")
  /\ \/ /\ CanBe("running")
        /\ goal' = [goal EXCEPT !.status = "running"]
        /\ \/ Goto(c, "grant") /\ UNCHANGED mishap
           \/ Goto(c, "done") /\ mishap' = mishap \cup {"left"}
     \/ /\ ~CanBe("running")
        /\ Goto(c, "done")
        /\ UNCHANGED <<goal, mishap>>
  /\ UNCHANGED <<up, result, resource, provider, monitors, hooks>>

\* The snapshot or the session tree cannot be made, or the subagents, who come
\* before the admission, report a failure.
PrepareFails(c) ==
  /\ KindOf[c] = "start" /\ (AtPc(c, "snapshot") \/ AtPc(c, "grant"))
  /\ Finalize(c, "failed")
  /\ UNCHANGED <<up, goal, result, resource, provider, monitors, hooks, mishap>>

\* acquireGoalResourceLease: a lease that the process has already is taken over.
\* "late": the lease comes when the goal is being finalized.
Grant(c) ==
  LET p == ProcOf[c] IN
  /\ AtPc(c, "grant")
  /\ Goto(c, "launch")
  /\ \/ /\ kept[p] # NoCall
        /\ UNCHANGED <<goal, resource, mishap>>
     \/ /\ kept[p] = NoCall
        /\ kept' = [kept EXCEPT ![p] = c]
        /\ leases' = leases \cup {c}
        /\ Patched([goal EXCEPT !.lease = c])
        /\ mishap' = IF \E t \in Thread : AtPc(t, "settle") THEN mishap \cup {"late"} ELSE mishap
  /\ UNCHANGED <<up, result, provider, monitors, hooks>>

\* waitForGrant gives up: handleLaunchFailure blocks the goal.
AdmissionTimesOut(c) ==
  /\ AtPc(c, "grant") /\ kept[ProcOf[c]] = NoCall
  /\ Finalize(c, "failed")
  /\ UNCHANGED <<up, goal, result, resource, provider, monitors, hooks, mishap>>

\* Bug: a goal that has ended meanwhile is left without giving the lease back.
LaunchKeepsLease(c) ==
  /\ AtPc(c, "launch")
  /\ IF Ended THEN Goto(c, "done") /\ UNCHANGED turn
     ELSE turn' = [turn EXCEPT ![c] = "working"] /\ Goto(c, "attach")
  /\ UNCHANGED <<up, goal, result, resource, asked, monitors, hooks, mishap>>

\* The goal is looked at after the admission; startTask or resumeTask begins a turn.
StartTurn(c) ==
  /\ AtPc(c, "launch")
  /\ \/ /\ Ended
        /\ Release(ProcOf[c])
        /\ Goto(c, "done")
        /\ UNCHANGED turn
     \/ /\ ~Ended
        /\ turn' = [turn EXCEPT ![c] = "working"]
        /\ Goto(c, "attach")
        /\ UNCHANGED resource
  /\ UNCHANGED <<up, goal, result, asked, monitors, hooks, mishap>>

\* No turn begins.
LaunchFails(c) ==
  /\ AtPc(c, "launch") /\ ~Ended
  /\ Release(ProcOf[c])
  /\ Finalize(c, "failed") \/ Goto(c, "authorize")
  /\ UNCHANGED <<up, goal, result, provider, monitors, hooks, mishap>>

\* The thread of the run may not be known yet.
Attached(c) == \E known \in {goal.thread, TRUE} : Patched([goal EXCEPT !.run = c, !.thread = known])

\* attachCodexRun finds that the run does not match the execution profile, or it has
\* recorded the run and cannot write the message of the hook.  The turn goes on.
AttachFails(c) ==
  /\ AtPc(c, "attach")
  /\ UNCHANGED goal \/ Attached(c)
  /\ Release(ProcOf[c])
  /\ Finalize(c, "failed")
  /\ UNCHANGED <<up, result, provider, monitors, hooks, mishap>>

\* handleLaunchFailure of an authorization that is missing.
Authorize(c) ==
  /\ AtPc(c, "authorize") /\ Goto(c, "done")
  /\ goal' = IF CanBe("waiting_approval")
               THEN [goal EXCEPT !.status = "waiting_approval", !.recovery = TRUE,
                                 !.ended = TRUE, !.retry = @ \/ ~goal.thread]
               ELSE goal
  /\ UNCHANGED <<up, result, resource, provider, monitors, hooks, mishap>>

\* monitor(): a process that follows a turn of the goal begins no second monitor.
\* "deaf": the new turn is then followed by nobody.
Follow(p, c) ==
  IF watched[p] = NoCall
    THEN /\ watched' = [watched EXCEPT ![p] = c]
         /\ pc' = [pc EXCEPT ![p] = "watch", ![c] = "done"]
         /\ UNCHANGED mishap
    ELSE /\ pc' = [pc EXCEPT ![c] = "done"]
         /\ mishap' = mishap \cup {"deaf"}
         /\ UNCHANGED watched

\* Bug: the attachment does not record the run.
AttachNoRun(c) ==
  /\ AtPc(c, "attach")
  /\ Patched([goal EXCEPT !.thread = TRUE])
  /\ Follow(ProcOf[c], c)
  /\ UNCHANGED <<up, result, resource, want, provider, heard, hooks>>

\* attachCodexRun, and the monitor.
Attach(c) ==
  /\ AtPc(c, "attach")
  /\ Attached(c)
  /\ Follow(ProcOf[c], c)
  /\ UNCHANGED <<up, result, resource, want, provider, heard, hooks>>

-----------------------------------------------------------------------------
(* The provider.                                                           *)

Ask(c) ==
  /\ Alive(c) /\ turn[c] = "working" /\ asked[c] = "none"
  /\ \E s \in Waiting : asked' = [asked EXCEPT ![c] = s]
  /\ UNCHANGED <<up, goal, result, resource, control, turn, monitors, hooks, mishap>>

TurnEnds(c) ==
  /\ Alive(c) /\ turn[c] = "working"
  /\ \E s \in {"succeeded", "failed"} : turn' = [turn EXCEPT ![c] = s]
  /\ UNCHANGED <<up, goal, result, resource, control, asked, monitors, hooks, mishap>>

-----------------------------------------------------------------------------
(* The monitor of a process p.                                             *)

\* handleCodexEvent works for the run that the goal is attached to.
Heeded(p) == ~Ended /\ goal.run = watched[p]

\* The goal waits for its owner; where the transition is refused, or the message of
\* the hook cannot be written, the monitor fails the goal.
HearAsk(p) ==
  LET r == watched[p] IN
  /\ AtPc(p, "watch") /\ asked[r] # "none" /\ "ask" \notin heard[p]
  /\ heard' = [heard EXCEPT ![p] = @ \cup {"ask"}]
  /\ \/ /\ ~Heeded(p)
        /\ UNCHANGED <<goal, resource, control>>
     \/ /\ Heeded(p) /\ CanBe(asked[r])
        /\ goal' = [goal EXCEPT !.status = asked[r], !.thread = TRUE]
        /\ Release(p)
        /\ UNCHANGED control \/ Throw(p)
     \/ /\ Heeded(p) /\ ~CanBe(asked[r])
        /\ Throw(p)
        /\ UNCHANGED <<goal, resource>>
  /\ UNCHANGED <<up, result, provider, watched, hooks, mishap>>

\* A terminal event, or the one that consumeCodexEvents makes up when the run has
\* ended and its event has left the goal as it was.  "raced": the goal has been
\* resumed by then.
HearEnd(p) ==
  LET r == watched[p] IN
  /\ AtPc(p, "watch") /\ turn[r] \in {"succeeded", "failed", "cancelled"}
  /\ asked[r] # "none" => "ask" \in heard[p]
  /\ \/ /\ "end" \notin heard[p]
        /\ heard' = [heard EXCEPT ![p] = @ \cup {"end"}]
        /\ UNCHANGED mishap
     \/ /\ "end" \in heard[p] /\ "again" \notin heard[p]
        /\ ~Ended /\ ~(goal.status \in Waiting /\ goal.ended)
        /\ heard' = [heard EXCEPT ![p] = @ \cup {"again"}]
        /\ mishap' = IF goal.status = "running" THEN mishap \cup {"raced"} ELSE mishap
  /\ \/ /\ ~Heeded(p)
        /\ UNCHANGED <<goal, resource, control>>
     \/ /\ Heeded(p) /\ turn[r] = "succeeded"
        /\ goal' = [goal EXCEPT !.thread = TRUE]
        /\ Release(p)
        /\ Goto(p, IF goal.status \in Waiting THEN "turnOver" ELSE "validate")
     \/ /\ Heeded(p) /\ turn[r] # "succeeded"
        /\ Finalize(p, turn[r])
        /\ UNCHANGED <<goal, resource>>
  /\ UNCHANGED <<up, result, provider, watched, hooks>>

\* The turn of a goal that waits is over: the goal may be resumed now.
TurnOver(p) ==
  /\ AtPc(p, "turnOver")
  /\ Patched([goal EXCEPT !.ended = TRUE])
  /\ Back(p)
  /\ UNCHANGED <<up, result, resource, provider, monitors, hooks, mishap>>

StopWatching(p) ==
  /\ AtPc(p, "watch") /\ (Ended \/ "end" \in heard[p])
  /\ Goto(p, "idle")
  /\ watched' = [watched EXCEPT ![p] = NoCall]
  /\ heard' = [heard EXCEPT ![p] = {}]
  /\ UNCHANGED <<up, goal, result, resource, provider, hooks, mishap>>

-----------------------------------------------------------------------------
(* Validation and review, by a monitor or by a call that resumes.          *)

Validate(t) ==
  /\ AtPc(t, "validate")
  /\ \/ Ended /\ Back(t) /\ UNCHANGED goal
     \/ /\ ~Ended /\ CanBe("validating")
        /\ goal' = [goal EXCEPT !.status = "validating"]
        /\ Goto(t, "accept")
     \/ /\ ~Ended /\ ~CanBe("validating")
        /\ Throw(t)
        /\ UNCHANGED goal
  /\ UNCHANGED <<up, result, resource, provider, monitors, hooks, mishap>>

\* The acceptance run, what the contract says of it, and a review without a model.
AcceptanceEnds(t) ==
  /\ AtPc(t, "accept")
  /\ \E s \in {"succeeded", "failed"} : Finalize(t, s)
  /\ UNCHANGED <<up, goal, result, resource, provider, monitors, hooks, mishap>>

\* resource_wait_timeout: the goal stays as it is.
AcceptanceWaits(t) ==
  /\ AtPc(t, "accept")
  /\ Back(t)
  /\ UNCHANGED <<up, goal, result, resource, provider, monitors, hooks, mishap>>

\* An accepted goal is reviewed; a refused transition fails it, in validate.
Review(t) ==
  /\ AtPc(t, "accept")
  /\ \/ Ended /\ Back(t) /\ UNCHANGED goal
     \/ /\ ~Ended /\ CanBe("reviewing")
        /\ goal' = [goal EXCEPT !.status = "reviewing"]
        /\ Goto(t, "judge")
     \/ /\ ~Ended /\ ~CanBe("reviewing")
        /\ Finalize(t, "failed")
        /\ UNCHANGED goal
  /\ UNCHANGED <<up, result, resource, provider, monitors, hooks, mishap>>

Judge(t) ==
  /\ AtPc(t, "judge")
  /\ \E s \in {"succeeded", "failed"} : Finalize(t, s)
  /\ UNCHANGED <<up, goal, result, resource, provider, monitors, hooks, mishap>>

-----------------------------------------------------------------------------
(* The end of a goal, and its notice.                                      *)

\* finalize: a success becomes a failure when the snapshot cannot be finished.
End(t) ==
  /\ AtPc(t, "end")
  /\ Release(Home(t))
  /\ \/ Ended /\ Back(t)
     \/ ~Ended /\ Asks(t, "settle", want[t])
     \/ ~Ended /\ want[t] = "succeeded" /\ Asks(t, "settle", "failed")
  /\ UNCHANGED <<up, goal, result, provider, monitors, hooks, mishap>>

\* dispatchHook of a final notice: its key names the notice and the event count,
\* which every event of the goal raises.
Dispatch(p, n) ==
  pending' = IF notified THEN pending
             ELSE pending \cup {[home |-> p, type |-> n, key |-> <<n, later>>, stage |-> "queued"]}

\* finalize dispatches by the status it was asked for.  A cancellation has no
\* notice: its hook sends nothing.
Notify(t) ==
  IF want[t] = "cancelled" THEN UNCHANGED pending
  ELSE Dispatch(Home(t), IF want[t] = "succeeded" THEN "task.succeeded" ELSE "task.failed")

\* Bug: finalizeGoal trusts the status that its caller has looked at.
SettleUnchecked(t) ==
  /\ AtPc(t, "settle")
  /\ result' = want[t]
  /\ goal' = [goal EXCEPT !.status = want[t]]
  /\ Notify(t) /\ Back(t)
  /\ UNCHANGED <<up, resource, provider, monitors, claimed, later, notified, hookError, sent,
                 mishap>>

\* finalizeGoal: the result is written and then the goal.
Settle(t) ==
  /\ AtPc(t, "settle")
  /\ \/ /\ ~Ended /\ CanBe(want[t])
        /\ result' = want[t]
        /\ goal' = [goal EXCEPT !.status = want[t]]
        /\ Notify(t) /\ Back(t)
     \/ /\ Ended
        /\ Notify(t) /\ Back(t)
        /\ UNCHANGED <<goal, result>>
     \/ /\ ~Ended /\ ~CanBe(want[t])
        /\ Finalize(t, "failed")
        /\ UNCHANGED <<goal, result, pending>>
  /\ UNCHANGED <<up, resource, provider, monitors, claimed, later, notified, hookError, sent,
                 mishap>>

\* What the death of a process leaves in its memory is nothing.
Dies(p) ==
  /\ up' = up \ {p}
  /\ kept' = [kept EXCEPT ![p] = NoCall]
  /\ pending' = {d \in pending : d.home # p}

\* Bug: the goal is written before its result.
SettleTornGoal(t) ==
  /\ AtPc(t, "settle") /\ ~Ended /\ CanBe(want[t]) /\ Home(t) \in Mortal
  /\ goal' = [goal EXCEPT !.status = want[t]]
  /\ Dies(Home(t))
  /\ UNCHANGED <<result, leases, control, provider, monitors, claimed, later, notified,
                 hookError, sent, mishap>>

\* The process dies between the two writes.
SettleTorn(t) ==
  /\ AtPc(t, "settle") /\ ~Ended /\ CanBe(want[t]) /\ Home(t) \in Mortal
  /\ result' = want[t]
  /\ Dies(Home(t))
  /\ UNCHANGED <<goal, leases, control, provider, monitors, claimed, later, notified,
                 hookError, sent, mishap>>

Crash(p) ==
  /\ p \in up \cap Mortal
  /\ Dies(p)
  /\ UNCHANGED <<goal, result, leases, control, provider, monitors, claimed, later, notified,
                 hookError, sent, mishap>>

Staged(d, s) == pending' = (pending \ {d}) \cup {[d EXCEPT !.stage = s]}

\* Bug: a key that has been claimed may be claimed again.
ClaimAlways(d) ==
  /\ d.home \in up /\ d.stage = "queued"
  /\ claimed' = claimed \cup {d.key} /\ later' = later + 1
  /\ hookError' = FALSE /\ Staged(d, "claimed")
  /\ UNCHANGED <<up, goal, result, resource, control, provider, monitors, notified, sent, mishap>>

\* claimHookDelivery; nothing is claimed twice, nor when the message of the delivery
\* cannot be written.
Claim(d) ==
  /\ d.home \in up /\ d.stage = "queued"
  /\ \/ /\ pending' = pending \ {d}
        /\ UNCHANGED <<claimed, later, hookError>>
     \/ /\ d.key \notin claimed
        /\ claimed' = claimed \cup {d.key} /\ later' = later + 1
        /\ hookError' = FALSE /\ Staged(d, "claimed")
  /\ UNCHANGED <<up, goal, result, resource, control, provider, monitors, notified, sent, mishap>>

\* The notification script has run, or has failed.
Deliver(d) ==
  /\ d.home \in up /\ d.stage = "claimed"
  /\ \/ sent' = [sent EXCEPT ![d.type] = @ + 1] /\ Staged(d, "sent")
     \/ UNCHANGED sent /\ Staged(d, "unsent")
  /\ UNCHANGED <<up, goal, result, resource, control, provider, monitors, claimed, later,
                 notified, hookError, mishap>>

\* completeHookDelivery and failHookDelivery.
Finish(d) ==
  /\ d.home \in up /\ d.stage \in {"sent", "unsent"}
  /\ pending' = pending \ {d} /\ later' = later + 1
  /\ notified' = (notified \/ d.stage = "sent")
  /\ hookError' = (d.stage = "unsent")
  /\ UNCHANGED <<up, goal, result, resource, control, provider, monitors, claimed, sent, mishap>>

\* Other work on a goal that has ended adds an event to it: the heartbeat of its run,
\* the failure of its acceptance, or a hook of another kind, which leaves its own
\* error or clears that of the notice.
Metadata ==
  /\ up # {} /\ Ended /\ later < MaxLater
  /\ later' = later + 1
  /\ hookError' \in BOOLEAN
  /\ UNCHANGED <<up, goal, result, resource, control, provider, monitors, pending, claimed,
                 notified, sent, mishap>>

-----------------------------------------------------------------------------
(* The start of a manager.                                                 *)

\* recoverPersistedGoals reads the goal.
RecoverReads(c) ==
  /\ KindOf[c] = "recover" /\ AtPc(c, "idle")
  /\ IF Ended THEN Goto(c, "hooks") ELSE Asks(c, "recover", goal.status)
  /\ UNCHANGED <<up, goal, result, resource, provider, monitors, hooks, mishap>>

\* A call, a monitor or a turn in a live process is at work on the goal.
AtWork ==
  \/ \E c \in Call : Alive(c) /\ turn[c] = "working"
  \/ \E t \in Thread : /\ Alive(t) /\ pc[t] \notin {"idle", "hooks", "done", "failed"}
                       /\ t \in Call => KindOf[t] # "recover"

\* A goal that was at work waits for its owner now; where the transition is
\* refused, or the message of the hook cannot be written, the whole recovery is
\* rejected.  "seized": the goal that it has changed was still at work.
Recover(c) ==
  /\ AtPc(c, "recover")
  /\ LET g == [goal EXCEPT !.recovery = TRUE, !.from = want[c]] IN
     \/ /\ want[c] \in Busy /\ CanBe("waiting_input")
        /\ goal' = [g EXCEPT !.status = "waiting_input"]
        /\ Goto(c, "hooks") \/ Goto(c, "failed")
     \/ /\ want[c] \in Busy /\ ~CanBe("waiting_input")
        /\ Goto(c, "failed")
        /\ UNCHANGED goal
     \/ want[c] \in Waiting /\ Patched(g) /\ Goto(c, "hooks")
  /\ mishap' = IF AtWork /\ goal' # goal THEN mishap \cup {"seized"} ELSE mishap
  /\ UNCHANGED <<up, result, resource, provider, monitors, hooks>>

\* The event keys of the deliveries that have been claimed or are under way.
KeysInUse == claimed \cup {d.key : d \in pending}

\* recoverHookDeliveries.  "twice": another delivery is under way, or has been
\* claimed, and the events since have given the goal a new event key.
RecoverHooks(c) ==
  /\ AtPc(c, "hooks") /\ Goto(c, "done")
  /\ \/ /\ Ended /\ goal.status # "cancelled" /\ ~notified /\ ~hookError
        /\ LET n == IF goal.status = "succeeded" THEN "task.succeeded" ELSE "task.failed" IN
           /\ Dispatch(ProcOf[c], n)
           /\ mishap' = IF KeysInUse \subseteq {<<n, later>>} THEN mishap
                        ELSE mishap \cup {"twice"}
     \/ /\ ~(Ended /\ goal.status # "cancelled" /\ ~notified /\ ~hookError)
        /\ UNCHANGED <<pending, mishap>>
  /\ UNCHANGED <<up, goal, result, resource, provider, monitors, claimed, later, notified,
                 hookError, sent>>

-----------------------------------------------------------------------------
(* Cancel and resume.                                                      *)

\* cancel ends the turn that the goal is attached to, as far as the adapter of this
\* process knows the run (a run of its own it does).
Cancel(c) ==
  /\ KindOf[c] = "cancel" /\ AtPc(c, "idle") /\ Ready(ProcOf[c])
  /\ \/ Ended /\ Goto(c, "done") /\ UNCHANGED turn
     \/ /\ ~Ended /\ Finalize(c, "cancelled")
        /\ \/ /\ goal.run # NoCall /\ turn[goal.run] = "working"
              /\ turn' = [turn EXCEPT ![goal.run] = "cancelled"]
           \/ /\ goal.run # NoCall => turn[goal.run] # "working" \/ ProcOf[goal.run] # ProcOf[c]
              /\ UNCHANGED turn
  /\ UNCHANGED <<up, goal, result, resource, asked, monitors, hooks, mishap>>

\* resume judges the record that it has read.
ResumeReads(c) ==
  /\ KindOf[c] = "resume" /\ AtPc(c, "idle") /\ Ready(ProcOf[c])
  /\ Goto(c, IF ~Resumable \/ goal.key = KeyOf[c] THEN "done"
             ELSE IF goal.from \in {"validating", "reviewing"} THEN "revalidate"
             ELSE IF goal.thread THEN "rerun"
             ELSE IF goal.retry THEN "restart" ELSE "done")
  /\ UNCHANGED <<up, goal, result, resource, provider, monitors, hooks, mishap>>

\* Bug: codex_turn_terminal stays as it was.
ResumeKeepsEnded(c, from, to, s) ==
  /\ AtPc(c, from)
  /\ \/ /\ CanBe(s) /\ ~Ended
        /\ goal' = [goal EXCEPT !.status = s, !.recovery = FALSE, !.key = KeyOf[c]]
        /\ Goto(c, to)
        /\ mishap' = IF Resumable THEN mishap ELSE mishap \cup {"raced"}
     \/ /\ Ended \/ ~CanBe(s)
        /\ Goto(c, "done")
        /\ UNCHANGED <<goal, mishap>>
  /\ UNCHANGED <<up, result, resource, provider, monitors, hooks>>

\* What the resume does: it validates what there is, launches the first turn
\* again, or launches a turn in the thread of the goal.  "raced": it has resumed a
\* goal that was no longer such that it could be resumed.
Resume(c, from, to, s) ==
  /\ AtPc(c, from)
  /\ \/ /\ CanBe(s) /\ ~Ended
        /\ goal' = [goal EXCEPT !.status = s, !.recovery = FALSE,
                                !.ended = IF s = "running" THEN FALSE ELSE @,
                                !.key = IF from = "restart" THEN @ ELSE KeyOf[c]]
        /\ Goto(c, to)
        /\ mishap' = IF Resumable THEN mishap ELSE mishap \cup {"raced"}
     \/ /\ Ended \/ ~CanBe(s)
        /\ Goto(c, "done")
        /\ UNCHANGED <<goal, mishap>>
  /\ UNCHANGED <<up, result, resource, provider, monitors, hooks>>

Revalidate(c) == Resume(c, "revalidate", "validate", "validating")
Restart(c)    == Resume(c, "restart", "grant", "running")
Rerun(c)      == Resume(c, "rerun", "grant", "running")

-----------------------------------------------------------------------------
\* What goes on once it has begun.
CallStep(c) ==
  \/ Launch(c) \/ PrepareFails(c) \/ Grant(c) \/ AdmissionTimesOut(c) \/ StartTurn(c)
  \/ LaunchFails(c) \/ AttachFails(c) \/ Authorize(c) \/ Attach(c)
  \/ Recover(c) \/ RecoverHooks(c) \/ Revalidate(c) \/ Restart(c) \/ Rerun(c)
MonitorStep(p) == HearAsk(p) \/ HearEnd(p) \/ TurnOver(p) \/ StopWatching(p)
EndStep(t) ==
  \/ Validate(t) \/ AcceptanceEnds(t) \/ AcceptanceWaits(t) \/ Review(t) \/ Judge(t)
  \/ End(t) \/ Settle(t)
HookStep(d) == Claim(d) \/ Deliver(d) \/ Finish(d)
Begin(c) == RecoverReads(c) \/ Cancel(c) \/ ResumeReads(c)

Next ==
  \/ \E c \in Call : CallStep(c) \/ Begin(c) \/ Ask(c) \/ TurnEnds(c)
  \/ \E p \in Proc : MonitorStep(p) \/ Crash(p)
  \/ \E t \in Thread : EndStep(t) \/ SettleTorn(t)
  \/ \E d \in pending : HookStep(d)
  \/ Metadata

\* The event loop of a live process carries its calls and monitors on, and an
\* admission wait has a time limit.  Nothing limits a turn of the SDK adapter.
ThreadStep(t) ==
  \/ t \in Call /\ CallStep(t)
  \/ t \in Proc /\ MonitorStep(t)
  \/ EndStep(t)
Fairness == \A t \in Thread : WF_vars(ThreadStep(t))

Spec == Init /\ [][Next]_vars
FairSpec == Spec /\ Fairness

-----------------------------------------------------------------------------
\* A goal ends once: neither a late answer of the provider nor a cancellation, a
\* recovery or a resume changes the status that it has ended with, and result.json
\* says the same, also after a death between the two writes.
EndIsFinal ==
  [][Ended => goal'.status = goal.status /\ result = goal.status /\ result' = result]_vars

\* Never do two turns of the goal work in live processes, unless a resume has acted
\* on a record that was no longer so, or a manager has recovered a goal that was
\* still at work.
OneTurn ==
  mishap \cap {"raced", "seized"} = {}
    => Cardinality({c \in Call : Alive(c) /\ turn[c] = "working"}) <= 1

\* When the goal has ended and its calls and monitors are at rest, no live process
\* holds a lease of the governor for it, except where a lease was granted while
\* the goal was being finalized, two calls were after one, or a turn was followed
\* by nobody.
AtRest == \A t \in Thread : Alive(t) => pc[t] \in {"idle", "hooks", "done", "failed"}
LeaseReturned ==
  Ended /\ AtRest /\ mishap \cap {"late", "raced", "seized", "deaf"} = {}
    => \A c \in leases : ~Alive(c)

\* The owner gets at most one final notice, as long as no manager that starts gives
\* the notice an event key of its own while another delivery is under way or has been
\* claimed, and no two threads finalize the goal because of a race.
NotifiedOnce ==
  mishap \cap {"twice", "raced", "seized"} = {} => sent["task.succeeded"] + sent["task.failed"] <= 1

\* A goal that runs while no turn of it is at work goes on: it ends, waits, is
\* validated or gets a turn, unless a process has died, the monitor of an earlier turn
\* has kept the new turn from being followed ("deaf"), or start has thrown ("left").
\* How long a turn takes is up to the provider.
TurnAtWork == \E c \in Call : turn[c] = "working"
RunningEnds ==
  (goal.status = "running" /\ ~TurnAtWork) ~>
    (goal.status # "running" \/ TurnAtWork \/ up # Proc \/ mishap \cap {"deaf", "left"} # {})

\* src/hooks/hookBridge.ts:111: "Goal was cancelled. No completion notification is
\* emitted."
NoNoticeOfCancelled ==
  [][goal.status = "cancelled" => sent' = sent]_vars

=============================================================================
