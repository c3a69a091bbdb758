----------------------------- MODULE DurableJob -----------------------------
(***************************************************************************)
(* One durable job of src/jobs: its record, its step files and owner.lock, *)
(* and the calls of DurableJobManager that work on them.                   *)
(*                                                                         *)
(* A call is a manager call in some process, with an owner token of its    *)
(* own.  It advances by one action per write of the store, which takes     *)
(* the reads just before the write with it; where the code writes back     *)
(* later what it has read, the read is an action of its own and the copy   *)
(* is a local variable.  So it is in acquireRunOwner and releaseRunOwner,  *)
(* although they run under owner.fence.lock: most writers of the record do *)
(* not take that lock, and a waiter breaks it when it finds no owner.json  *)
(* in it (MkdirLock), so a call may enter beside another, which the model  *)
(* allows at any time and remembers (overlap).  The owner check of a       *)
(* guarded write and the write itself are one action.                      *)
(***************************************************************************)
EXTENDS Naturals

CONSTANTS
  Call,        \* manager calls, each with a fresh owner token
  Proc,        \* server processes
  Mortal,      \* those that may die (a bound of the instance)
  KindOf,      \* what each call does
  ProcOf,      \* the process it runs in
  NSteps,      \* the number of steps of the job
  Idempotent,  \* the idempotent steps, which are the retryable ones too
  MaxAttempts, \* the largest loop_budget.max_attempts_per_step of the instance
  NoCall, NoProc, NoCopy

Step == 1..NSteps
Kind == {"execute", "startup", "status", "resume", "cancel", "retry"}

ASSUME JobAssumption ==
  /\ NoCall \notin Call /\ NoProc \notin Proc /\ Mortal \subseteq Proc
  /\ KindOf \in [Call -> Kind] /\ ProcOf \in [Call -> Proc]
  /\ NSteps \in Nat \ {0} /\ Idempotent \subseteq Step /\ MaxAttempts \in Nat \ {0}

Owner     == Call \cup {NoCall}
Terminal  == {"completed", "failed", "blocked", "cancelled"}
JobStatus == {"queued", "running", "recovering", "stale", "recovery_required"} \cup Terminal
StepStatus == {"queued", "running", "recovery_required"} \cup Terminal

Job == [status : JobStatus, owner : Owner, fence : Nat, pid : Proc \cup {NoProc},
        cancel : BOOLEAN]
StepFile == [status : StepStatus, owner : Owner, attempts : 0..MaxAttempts]

VARIABLES
  up,       \* live processes
  job,      \* the job record
  budget,   \* its loop_budget.max_attempts_per_step, fixed when it is created
  step,     \* the step files
  output,   \* the steps whose output file exists
  lockOwner, lockFence, \* owner.lock; NoCall when there is none
  pc,       \* where each call is
  fence,    \* the fencing token of each claim
  mine,     \* the job record as each call knows it
  steps,    \* the steps as an executor read them
  held,     \* the record as read by a call that writes it back without a guard
  aborted,  \* executors whose controller was aborted
  starts,   \* how often the handler of each step was started (history)
  displaced, \* calls whose lock a recovery took over (history)
  overlap,   \* two live calls were inside owner.fence.lock together (history)
  clobbered, \* a write of an old record or step undid another write (history)
  undone     \* it brought back an old owner or an old count of attempts (history)

disk == <<job, step, output, lockOwner, lockFence>>
local == <<fence, mine, steps, held, aborted>>
history == <<starts, displaced, overlap, clobbered, undone>>
vars == <<up, disk, budget, pc, local, history>>

At == {"idle", "inspected", "acquire", "skill", "ownerLock", "ownerJob",
       "load", "prepare", "settle", "claim", "wait",
       "next", "start", "run", "output", "stepDone", "jobDone", "reload", "failed", "retry",
       "cancelStep", "cancelJob", "release", "clear", "unlock",
       "return", "returnClear", "returnUnlock", "conclude", "stuck", "done"}

NewJob  == [status |-> "queued", owner |-> NoCall, fence |-> 0, pid |-> NoProc,
            cancel |-> FALSE]
NewStep == [status |-> "queued", owner |-> NoCall, attempts |-> 0]

TypeOK ==
  /\ up \in SUBSET Proc
  /\ job \in Job /\ budget \in 1..MaxAttempts
  /\ step \in [Step -> StepFile]
  /\ \A s \in Step : step[s].attempts <= budget
  /\ output \in SUBSET Step
  /\ lockOwner \in Owner /\ lockFence \in Nat
  /\ pc \in [Call -> At]
  /\ fence \in [Call -> Nat]
  /\ mine \in [Call -> Job]
  /\ steps \in [Call -> [Step -> StepFile]]
  /\ held \in [Call -> Job \cup {NoCopy}]
  /\ aborted \in SUBSET Call
  /\ starts \in [Step -> Nat]
  /\ displaced \in SUBSET Call
  /\ overlap \in BOOLEAN /\ clobbered \in BOOLEAN /\ undone \in BOOLEAN

\* create: the steps and then the job record are written before any other call.
Init ==
  /\ up = Proc
  /\ job = NewJob /\ budget \in 1..MaxAttempts /\ step = [s \in Step |-> NewStep] /\ output = {}
  /\ lockOwner = NoCall /\ lockFence = 0
  /\ pc = [c \in Call |-> "idle"]
  /\ fence = [c \in Call |-> 0]
  /\ mine = [c \in Call |-> NewJob]
  /\ steps = [c \in Call |-> [s \in Step |-> NewStep]]
  /\ held = [c \in Call |-> NoCopy]
  /\ aborted = {}
  /\ starts = [s \in Step |-> 0]
  /\ displaced = {}
  /\ overlap = FALSE /\ clobbered = FALSE /\ undone = FALSE

-----------------------------------------------------------------------------
(* The store.                                                              *)

Live(c) == ProcOf[c] \in up
Goto(c, from, to) == /\ Live(c) /\ pc[c] = from
                     /\ pc' = [pc EXCEPT ![c] = to]

\* assertRunOwner.
Owned(c) == job.owner = c /\ job.fence = fence[c]

\* writeJobOwned of record j; the fence and pid are refreshed in a record that
\* still names its owner.
Stamped(c, j) == IF j.owner = c
                   THEN [j EXCEPT !.fence = fence[c], !.pid = ProcOf[c]] ELSE j
\* Bug: only the record to be written is asked whose it is.
WritesUnasked(c, j) == j.owner \in {NoCall, c}

MayWrite(c, j) == Owned(c) /\ j.owner \in {NoCall, c}

\* writeStepOwned of step s; only recovery may take a step over.
MayWriteStep(c, s) == /\ Owned(c)
                      /\ KindOf[c] \in {"startup", "resume"} \/ step[s].owner \in {NoCall, c}

Larger(a, b) == IF a >= b THEN a ELSE b

Takeover(c) == KindOf[c] \in {"startup", "resume"}

\* Bug: only the job record is asked who owns the job.
RecordGrants(c) ==
  /\ job.status \notin Terminal \/ (KindOf[c] = "retry" /\ job.status \in {"failed", "blocked"})
  /\ Takeover(c) \/ job.owner = NoCall

\* acquireRunOwner grants the claim.
Grants(c) ==
  /\ job.status \notin Terminal \/ (KindOf[c] = "retry" /\ job.status \in {"failed", "blocked"})
  /\ Takeover(c) \/ (job.owner = NoCall /\ lockOwner = NoCall)

\* Between the reads and the last write under owner.fence.lock.
InFence == {"ownerLock", "ownerJob", "clear", "unlock", "returnClear", "returnUnlock"}
Enters(c) == overlap' = (overlap \/ \E d \in Call \ {c} : Live(d) /\ pc[d] \in InFence)

\* The record that a call writes over another without asking who owns the job.
Overwrites(j) ==
  /\ clobbered' = (clobbered \/ job # j)
  /\ undone' = (undone \/ job.owner # j.owner \/ job.fence # j.fence)

\* acquireRunOwner reads the record and owner.lock, and grants the claim.
Acquire(c) ==
  /\ Grants(c)
  /\ Goto(c, "acquire", "ownerLock")
  /\ held' = [held EXCEPT ![c] = job]
  /\ fence' = [fence EXCEPT ![c] = Larger(job.fence, lockFence) + 1]
  /\ Enters(c)
  /\ UNCHANGED <<up, disk, mine, steps, aborted, starts, displaced, clobbered, undone>>

\* It writes owner.lock,
WriteOwnerLock(c) ==
  /\ Goto(c, "ownerLock", "ownerJob")
  /\ lockOwner' = c /\ lockFence' = fence[c]
  /\ displaced' = IF Takeover(c) THEN displaced \cup ({lockOwner} \ {NoCall}) ELSE displaced
  /\ UNCHANGED <<up, job, step, output, local, starts, overlap, clobbered, undone>>

\* and then the record it has read, with the new owner; what a takeover undoes is
\* not counted.
WriteOwnerJob(c) ==
  /\ Goto(c, "ownerJob", CASE KindOf[c] = "execute" -> "load"
                           [] KindOf[c] = "retry"   -> "retry"
                           [] OTHER                 -> "prepare")
  /\ job' = [held[c] EXCEPT !.owner = c, !.fence = fence[c], !.pid = ProcOf[c]]
  /\ clobbered' = (clobbered \/ (~Takeover(c) /\ job # held[c]))
  /\ held' = [held EXCEPT ![c] = NoCopy]
  /\ UNCHANGED <<up, step, output, lockOwner, lockFence, fence, mine, steps, aborted,
                 starts, displaced, overlap, undone>>

\* An execution that is refused returns the record as it finds it.
AcquireRefused(c) ==
  /\ ~Grants(c)
  /\ Goto(c, "acquire", IF KindOf[c] = "execute" THEN "conclude" ELSE "done")
  /\ mine' = [mine EXCEPT ![c] = job]
  /\ UNCHANGED <<up, disk, fence, steps, held, aborted, history>>

\* releaseRunOwner: an execution that has not thrown gives its record to
\* executeDurableAsyncTask afterwards.
Returns(c) == IF KindOf[c] = "execute" THEN "conclude" ELSE "done"
HasLock(c) == lockOwner = c /\ lockFence = fence[c]

\* Bug: a call that lost the job record leaves its lock behind.
ReleaseUnlessOwned(c) ==
  /\ ~(HasLock(c) /\ Owned(c))
  /\ Goto(c, "release", "done") \/ Goto(c, "return", Returns(c))
  /\ UNCHANGED <<up, disk, local, history>>

\* The lock is somebody else's.
ReleaseNothing(c) ==
  /\ ~HasLock(c)
  /\ Goto(c, "release", "done") \/ Goto(c, "return", Returns(c))
  /\ UNCHANGED <<up, disk, local, history>>

\* It is the call's own; clearReleasedOwner reads the record,
Release(c) ==
  /\ HasLock(c)
  /\ Goto(c, "release", "clear") \/ Goto(c, "return", "returnClear")
  /\ held' = [held EXCEPT ![c] = job]
  /\ Enters(c)
  /\ UNCHANGED <<up, disk, fence, mine, steps, aborted, starts, displaced, clobbered, undone>>

\* writes it back without its owner, if that is the call,
ClearOwner(c) ==
  /\ Goto(c, "clear", "unlock") \/ Goto(c, "returnClear", "returnUnlock")
  /\ IF held[c].owner = c /\ held[c].fence = fence[c]
       THEN /\ job' = [held[c] EXCEPT !.owner = NoCall, !.pid = NoProc]
            /\ clobbered' = (clobbered \/ job # held[c])
       ELSE UNCHANGED <<job, clobbered>>
  /\ held' = [held EXCEPT ![c] = NoCopy]
  /\ UNCHANGED <<up, step, output, lockOwner, lockFence, fence, mine, steps, aborted,
                 starts, displaced, overlap, undone>>

\* and owner.lock is removed, whose ever it is by now.
RemoveLock(c) ==
  /\ Goto(c, "unlock", "done") \/ Goto(c, "returnUnlock", Returns(c))
  /\ lockOwner' = NoCall /\ lockFence' = 0
  /\ UNCHANGED <<up, job, step, output, local, history>>

\* The wait for owner.fence.lock times out behind a call that is slow or dead, or
\* the governor's state lock does, before an executor's release: the call throws.
LockTimeout(c) ==
  LET fenced == \E d \in Call \ {c} : pc[d] \in InFence
  IN  /\ \/ fenced /\ Goto(c, "acquire", "done")
         \/ /\ fenced \/ KindOf[c] = "execute"
            /\ Goto(c, "release", "stuck") \/ Goto(c, "return", "stuck")
      /\ UNCHANGED <<up, disk, local, history>>

-----------------------------------------------------------------------------
(* Writes shared by the calls.                                             *)

\* The owned write of step s, after which the call's copy of the job is j; when
\* the write is refused the call throws.
StepThenJob(c, s, r, j, to) ==
  IF MayWriteStep(c, s)
    THEN /\ step' = [step EXCEPT ![s] = r]
         /\ mine' = [mine EXCEPT ![c] = j]
         /\ pc' = [pc EXCEPT ![c] = to]
    ELSE /\ pc' = [pc EXCEPT ![c] = "release"]
         /\ UNCHANGED <<step, mine>>

\* The owned write of the job record.
WriteJob(c, j, to, refused) ==
  /\ mine' = [mine EXCEPT ![c] = Stamped(c, j)]
  /\ IF MayWrite(c, j)
       THEN job' = Stamped(c, j) /\ pc' = [pc EXCEPT ![c] = to]
       ELSE job' = job           /\ pc' = [pc EXCEPT ![c] = refused]

\* The last write of recovery, of a retry and of an execution.
Settle(c) ==
  /\ Live(c) /\ pc[c] = "settle"
  /\ WriteJob(c, mine[c],
              IF KindOf[c] = "execute" /\ mine[c].status = "recovering" THEN "claim" ELSE "return",
              "release")
  /\ UNCHANGED <<up, step, output, lockOwner, lockFence, fence, steps, held, aborted, history>>

Settled(j) == j.status \in Terminal \cup {"recovery_required"}

Leaving(j, status) == [j EXCEPT !.status = status, !.owner = NoCall]
Stopped(r, status) == [r EXCEPT !.status = status, !.owner = NoCall]

AllDone(f) == \A s \in Step : f[s].status = "completed"
First(f)   == CHOOSE s \in Step : /\ f[s].status # "completed"
                                  /\ \A t \in 1..(s - 1) : f[t].status = "completed"

-----------------------------------------------------------------------------
(* prepareRecovery, for a server that starts and for resume_run_task       *)

\* inspect, of a status tool or of scanDurableJobs, when the heartbeat of the
\* job is old: the record will say stale, or silent when its owner is alive.
OwnerGone == lockOwner = NoCall \/ ~Live(lockOwner)

Inspect(c) ==
  /\ KindOf[c] \in {"startup", "status"} /\ ~Settled(job)
  /\ Goto(c, "idle", "inspected")
  /\ held' = [held EXCEPT ![c] = job]
  /\ mine' = [mine EXCEPT ![c] = IF OwnerGone THEN [job EXCEPT !.status = "stale"] ELSE job]
  /\ UNCHANGED <<up, disk, fence, steps, aborted, history>>

\* It is written back later.
MarkStale(c) ==
  /\ Goto(c, "inspected", IF KindOf[c] = "startup" THEN "acquire" ELSE "done")
  /\ job' = mine[c]
  /\ Overwrites(held[c])
  /\ held' = [held EXCEPT ![c] = NoCopy]
  /\ UNCHANGED <<up, step, output, lockOwner, lockFence, fence, mine, steps, aborted,
                 starts, displaced, overlap>>

\* The heartbeat is recent, or the user asks for this job.
BeginRecovery(c) ==
  /\ Takeover(c) /\ (KindOf[c] = "startup" => ~Settled(job))
  /\ Goto(c, "idle", "acquire")
  /\ UNCHANGED <<up, disk, local, history>>

\* The job's active Skill is not current any more: the record is read, and it is
\* written back as recovery_required, whatever it says by then and although the job
\* may have ended, which counts as undoing its end.
SkillOutdated(c) ==
  /\ KindOf[c] \in {"startup", "resume", "retry"}
  /\ Goto(c, "acquire", "skill")
  /\ held' = [held EXCEPT ![c] = job]
  /\ UNCHANGED <<up, disk, fence, mine, steps, aborted, history>>

MarkSkillRecovery(c) ==
  LET j == [held[c] EXCEPT !.status = "recovery_required"]
  IN  /\ Goto(c, "skill", "done")
      /\ job' = j
      /\ clobbered' = (clobbered \/ job # held[c] \/ job.status \in Terminal)
      /\ undone' = (undone \/ job.owner # j.owner \/ job.fence # j.fence)
      /\ held' = [held EXCEPT ![c] = NoCopy]
      /\ UNCHANGED <<up, step, output, lockOwner, lockFence, fence, mine, steps, aborted,
                     starts, displaced, overlap>>

Interrupted == {s \in Step : step[s].status = "running"}

\* Bug: every interrupted step counts as idempotent.
FirstInterruptedSafe(s) == FALSE

\* The step that recovery looks at is not idempotent.
Uncertain(s) ==
  s \in Interrupted \ Idempotent /\ \A t \in Interrupted : s <= t

Prepare(c) == Live(c) /\ pc[c] = "prepare" /\ job.status \notin Terminal /\ Owned(c)

\* It becomes recovery_required and so does the job.
PrepareUncertain(c) ==
  /\ Prepare(c)
  /\ \E s \in Step :
       /\ Uncertain(s)
       /\ step' = [step EXCEPT ![s] = Stopped(@, "recovery_required")]
  /\ mine' = [mine EXCEPT ![c] = Leaving(job, "recovery_required")]
  /\ pc' = [pc EXCEPT ![c] = "settle"]
  /\ UNCHANGED <<up, job, output, lockOwner, lockFence, fence, steps, held, aborted, history>>

\* The interrupted steps are idempotent and are put back.
PrepareRequeue(c) ==
  /\ Prepare(c)
  /\ ~\E s \in Step : Uncertain(s)
  /\ step' = [s \in Step |-> IF s \in Interrupted THEN Stopped(step[s], "queued") ELSE step[s]]
  /\ mine' = [mine EXCEPT ![c] = Leaving(job, "recovering")]
  /\ pc' = [pc EXCEPT ![c] = "settle"]
  /\ UNCHANGED <<up, job, output, lockOwner, lockFence, fence, steps, held, aborted, history>>

\* The job has ended or has a new owner.
PrepareNothing(c) ==
  /\ job.status \in Terminal \/ ~Owned(c)
  /\ Goto(c, "prepare", "release")
  /\ UNCHANGED <<up, disk, local, history>>

-----------------------------------------------------------------------------
(* execute                                                                 *)

Begin(c) ==
  /\ KindOf[c] \in {"execute", "retry"}
  /\ Goto(c, "idle", IF KindOf[c] = "execute" /\ Settled(job) THEN "conclude" ELSE "acquire")
  /\ mine' = [mine EXCEPT ![c] = job]
  /\ UNCHANGED <<up, disk, fence, steps, held, aborted, history>>

Load(c) ==
  /\ Goto(c, "load", IF Settled(job) THEN "return"
                     ELSE IF job.status \in {"stale", "running"} THEN "prepare"
                     ELSE "claim")
  /\ mine' = [mine EXCEPT ![c] = job]
  /\ UNCHANGED <<up, disk, fence, steps, held, aborted, history>>

InProgress(j) == [j EXCEPT !.status = IF @ = "recovering" THEN @ ELSE "running"]

\* The executor names itself the owner in its copy and writes it.  After its own
\* Prepare, which has left the job without an owner, this is refused.
TakeJob(c) ==
  /\ Live(c) /\ pc[c] = "claim"
  /\ steps' = [steps EXCEPT ![c] = step]
  /\ WriteJob(c, InProgress([mine[c] EXCEPT !.owner = c]), "wait", "release")
  /\ UNCHANGED <<up, step, output, lockOwner, lockFence, fence, held, aborted, history>>

\* waitForGrant returns with a lease.
Granted(c) ==
  /\ held[c] = NoCopy
  /\ Goto(c, "wait", "next")
  /\ UNCHANGED <<up, disk, local, history>>

\* It throws: the job was cancelled meanwhile, or the wait timed out and the
\* job goes back to the queue.
WaitEnds(c) ==
  LET s == First(steps[c])
      status == IF job.cancel \/ c \in aborted THEN "cancelled" ELSE "queued"
  IN  /\ Live(c) /\ pc[c] = "wait" /\ held[c] = NoCopy
      /\ job.status # "cancelled" /\ ~AllDone(steps[c])
      /\ StepThenJob(c, s, Stopped(steps[c][s], status), Leaving(job, status), "settle")
      /\ UNCHANGED <<up, job, output, lockOwner, lockFence, fence, steps, held, aborted, history>>

\* The job has been cancelled by somebody else.
WaitCancelled(c) ==
  /\ held[c] = NoCopy /\ job.status = "cancelled"
  /\ Goto(c, "wait", "return")
  /\ mine' = [mine EXCEPT ![c] = job]
  /\ UNCHANGED <<up, disk, fence, steps, held, aborted, history>>

\* The wait fails with nothing to stop, or a step has no handler.
Throw(c) ==
  /\ held[c] = NoCopy
  /\ \/ AllDone(steps[c]) /\ Goto(c, "wait", "release")
     \/ ~AllDone(steps[c]) /\ Goto(c, "next", "release")
  /\ UNCHANGED <<up, disk, local, history>>

\* A heartbeat, or the liveness update of a waiting job, reads the record and
\* writes it back later.
HeartbeatRead(c) ==
  /\ Live(c) /\ pc[c] \in {"wait", "run"} /\ held[c] = NoCopy /\ Owned(c)
  /\ held' = [held EXCEPT ![c] = job]
  /\ UNCHANGED <<up, disk, pc, fence, mine, steps, aborted, history>>

HeartbeatWrite(c) ==
  /\ Live(c) /\ pc[c] \in {"wait", "run"} /\ held[c] # NoCopy
  /\ job' = IF Owned(c) THEN held[c] ELSE job
  /\ held' = [held EXCEPT ![c] = NoCopy]
  /\ UNCHANGED <<up, step, output, lockOwner, lockFence, pc, fence, mine, steps, aborted, history>>

\* All steps are completed.
Complete(c) ==
  /\ AllDone(steps[c])
  /\ Goto(c, "next", "settle")
  /\ mine' = [mine EXCEPT ![c] = Leaving(@, "completed")]
  /\ UNCHANGED <<up, disk, fence, steps, held, aborted, history>>

\* A cancellation was requested, or the attempts of the next step are used up.
StopBefore(c) ==
  LET s == First(steps[c])  r == steps[c][s]
      cancelled == mine[c].cancel \/ job.cancel
      status == IF cancelled THEN "cancelled" ELSE "blocked"
  IN  /\ Live(c) /\ pc[c] = "next" /\ ~AllDone(steps[c])
      /\ cancelled \/ r.attempts >= budget
      /\ StepThenJob(c, s, Stopped(r, status), Leaving(mine[c], status), "settle")
      /\ UNCHANGED <<up, job, output, lockOwner, lockFence, fence, steps, held, aborted, history>>

Running(c, r) == [status |-> "running", owner |-> c, attempts |-> r.attempts + 1]

\* Bug: the attempt is counted in the executor's memory only.
MarkUncounted(c) ==
  LET s == First(steps[c])  r == steps[c][s]
  IN  /\ Live(c) /\ pc[c] = "next" /\ ~AllDone(steps[c])
      /\ ~mine[c].cancel /\ ~job.cancel /\ r.attempts < budget
      /\ StepThenJob(c, s, [Running(c, r) EXCEPT !.attempts = r.attempts], mine[c], "start")
      /\ steps' = [steps EXCEPT ![c][s] = Running(c, r)]
      /\ UNCHANGED <<up, job, output, lockOwner, lockFence, fence, held, aborted, history>>

\* Bug: one attempt too many.
MarkPastBudget(c) ==
  LET s == First(steps[c])  r == steps[c][s]
  IN  /\ Live(c) /\ pc[c] = "next" /\ ~AllDone(steps[c])
      /\ ~mine[c].cancel /\ ~job.cancel /\ r.attempts <= budget
      /\ StepThenJob(c, s, Running(c, r), mine[c], "start")
      /\ steps' = [steps EXCEPT ![c][s] = Running(c, r)]
      /\ UNCHANGED <<up, job, output, lockOwner, lockFence, fence, held, aborted, history>>

\* The next step is marked as running.
MarkStep(c) ==
  LET s == First(steps[c])  r == steps[c][s]
  IN  /\ Live(c) /\ pc[c] = "next" /\ ~AllDone(steps[c])
      /\ ~mine[c].cancel /\ ~job.cancel /\ r.attempts < budget
      /\ StepThenJob(c, s, Running(c, r), mine[c], "start")
      /\ steps' = [steps EXCEPT ![c][s] = Running(c, r)]
      /\ UNCHANGED <<up, job, output, lockOwner, lockFence, fence, held, aborted, history>>

\* The job record is written from the executor's copy, and the handler starts.
StartStep(c) ==
  /\ Live(c) /\ pc[c] = "start"
  /\ WriteJob(c, InProgress(mine[c]), "run", "release")
  /\ starts' = IF MayWrite(c, mine[c]) THEN [starts EXCEPT ![First(steps[c])] = @ + 1]
                                       ELSE starts
  /\ UNCHANGED <<up, step, output, lockOwner, lockFence, fence, steps, held, aborted,
                 displaced, overlap, clobbered, undone>>

\* The handler returns; or it throws, is aborted or runs into a deadline.  A
\* heartbeat under way is awaited first.
HandlerReturns(c) ==
  /\ held[c] = NoCopy /\ Goto(c, "run", "output")
  /\ UNCHANGED <<up, disk, local, history>>

HandlerThrows(c) ==
  /\ held[c] = NoCopy /\ Goto(c, "run", "failed")
  /\ UNCHANGED <<up, disk, local, history>>

\* Bug: the step is written before its output.
OutputSkipped(c) ==
  /\ Goto(c, "output", IF Owned(c) THEN "stepDone" ELSE "failed")
  /\ UNCHANGED <<up, disk, local, history>>

\* writeStepOutputOwned.
WriteOutput(c) ==
  /\ Goto(c, "output", IF Owned(c) THEN "stepDone" ELSE "failed")
  /\ output' = IF Owned(c) THEN output \cup {First(steps[c])} ELSE output
  /\ UNCHANGED <<up, job, step, lockOwner, lockFence, local, history>>

CompleteStep(c) ==
  LET s == First(steps[c])  done == Stopped(steps[c][s], "completed")
  IN  /\ Goto(c, "stepDone", IF MayWriteStep(c, s) THEN "jobDone" ELSE "failed")
      /\ step' = IF MayWriteStep(c, s) THEN [step EXCEPT ![s] = done] ELSE step
      /\ UNCHANGED <<up, job, output, lockOwner, lockFence, local, history>>

\* The job record follows; a cancellation it names is taken over first.
RecordStep(c) ==
  LET s == First(steps[c])
  IN  /\ Live(c) /\ pc[c] = "jobDone"
      /\ WriteJob(c, [mine[c] EXCEPT !.cancel = @ \/ job.cancel], "reload", "failed")
      /\ steps' = [steps EXCEPT ![c][s] = IF pc'[c] = "reload" THEN Stopped(@, "completed") ELSE @]
      /\ UNCHANGED <<up, step, output, lockOwner, lockFence, fence, held, aborted, history>>

\* The loop goes on with the record as it is read back.
Reload(c) ==
  /\ Goto(c, "reload", "next")
  /\ mine' = [mine EXCEPT ![c] = job]
  /\ UNCHANGED <<up, disk, fence, steps, held, aborted, history>>

\* The step failed: cancelled when the latest record says so, blocked on a
\* deadline, else by the class of the failure.
FailStep(c) ==
  LET s == First(steps[c])  r == steps[c][s]
  IN  /\ Live(c) /\ pc[c] = "failed"
      /\ \/ /\ job.cancel
            /\ StepThenJob(c, s, Stopped(r, "cancelled"), Leaving(job, "cancelled"), "settle")
         \/ \E status \in {"failed", "blocked", "recovery_required"} :
              /\ job.cancel => status = "blocked"
              /\ StepThenJob(c, s, Stopped(r, status), Leaving(mine[c], status), "settle")
      /\ UNCHANGED <<up, job, output, lockOwner, lockFence, fence, steps, held, aborted, history>>

\* executeDurableAsyncTask writes the returned record once more, with the
\* outcome of a completed job taken from the reports of its steps.
Conclude(c) ==
  /\ Goto(c, "conclude", "done")
  /\ \E status \in IF mine[c].status = "completed" THEN {"completed", "failed", "blocked"}
                                                   ELSE {mine[c].status} :
       job' = [mine[c] EXCEPT !.status = status]
  /\ Overwrites(mine[c])
  /\ UNCHANGED <<up, step, output, lockOwner, lockFence, local, starts, displaced, overlap>>

-----------------------------------------------------------------------------
(* retryStep, of any step the user names                                   *)

\* There is no such step, or it is not retryable.
RetryThrows(c) ==
  /\ Goto(c, "retry", "release")
  /\ UNCHANGED <<up, disk, local, history>>

\* It is put back, or blocked when its attempts are used up or the same failure
\* has been seen twice; the job keeps its owner until the release.
Retry(c) ==
  /\ Live(c) /\ pc[c] = "retry"
  /\ \E s \in Idempotent :
       \/ /\ step[s].attempts < budget
          /\ StepThenJob(c, s, Stopped(step[s], "queued"),
                         [job EXCEPT !.status = "recovering", !.cancel = FALSE], "settle")
       \/ /\ step[s].attempts >= budget \/ step[s].attempts > 1
          /\ StepThenJob(c, s, [step[s] EXCEPT !.status = "blocked"],
                         [job EXCEPT !.status = "blocked"], "settle")
  /\ UNCHANGED <<up, job, output, lockOwner, lockFence, fence, steps, held, aborted, history>>

-----------------------------------------------------------------------------
(* requestCancel                                                           *)

\* Executors of this process that wait for a grant or for a handler.
Controllers(c) ==
  {e \in Call : /\ KindOf[e] = "execute" /\ ProcOf[e] = ProcOf[c]
                /\ pc[e] \in {"wait", "run", "output", "stepDone", "jobDone", "failed"}}

Orphaned(c) ==
  /\ job.status \in {"stale", "recovery_required", "recovering", "running"}
  /\ job.pid \notin up /\ Controllers(c) = {}

BeginCancel(c) ==
  /\ KindOf[c] = "cancel"
  /\ Goto(c, "idle", IF job.status \in Terminal THEN "done"
                     ELSE IF Orphaned(c) THEN "cancelStep" ELSE "cancelJob")
  /\ steps' = [steps EXCEPT ![c] = step]
  /\ mine' = [mine EXCEPT ![c] = IF Orphaned(c) THEN [Leaving(job, "cancelled") EXCEPT !.cancel = TRUE]
                                                ELSE [job EXCEPT !.cancel = TRUE]]
  /\ held' = [held EXCEPT ![c] = job]
  /\ aborted' = IF job.status \in Terminal THEN aborted ELSE aborted \cup Controllers(c)
  /\ UNCHANGED <<up, disk, fence, history>>

\* Nobody runs the job: the cancellation closes it itself, step first, unless
\* the current step has completed.
CancelStep(c) ==
  LET s == First(steps[c])
  IN  /\ Goto(c, "cancelStep", "cancelJob")
      /\ \/ step' = step
         \/ ~AllDone(steps[c]) /\ step' = [step EXCEPT ![s] = Stopped(steps[c][s], "cancelled")]
      /\ clobbered' = (clobbered \/ step # steps[c])
      /\ undone' = (undone \/ \E t \in Step : step[t].attempts # steps[c][t].attempts)
      /\ UNCHANGED <<up, job, output, lockOwner, lockFence, local, starts, displaced, overlap>>

\* The record read at the beginning is written back with the request in it.
CancelJob(c) ==
  /\ Goto(c, "cancelJob", "done")
  /\ job' = mine[c]
  /\ Overwrites(held[c])
  /\ UNCHANGED <<up, step, output, lockOwner, lockFence, local, starts, displaced, overlap>>

-----------------------------------------------------------------------------
Crash(p) ==
  /\ p \in up \cap Mortal
  /\ up' = up \ {p}
  /\ UNCHANGED <<disk, pc, local, history>>

StoreStep(c)   == \/ Acquire(c) \/ WriteOwnerLock(c) \/ WriteOwnerJob(c) \/ AcquireRefused(c)
                  \/ Release(c) \/ ClearOwner(c) \/ RemoveLock(c) \/ ReleaseNothing(c)
                  \/ LockTimeout(c) \/ Settle(c)
RecoverStep(c) == \/ Inspect(c) \/ MarkStale(c) \/ BeginRecovery(c)
                  \/ SkillOutdated(c) \/ MarkSkillRecovery(c)
                  \/ PrepareUncertain(c) \/ PrepareRequeue(c) \/ PrepareNothing(c)
ExecuteStep(c) == \/ Begin(c) \/ Load(c) \/ TakeJob(c) \/ Granted(c) \/ WaitEnds(c)
                  \/ WaitCancelled(c) \/ Throw(c)
                  \/ HeartbeatRead(c) \/ HeartbeatWrite(c)
                  \/ Complete(c) \/ StopBefore(c) \/ MarkStep(c) \/ StartStep(c)
                  \/ HandlerReturns(c) \/ HandlerThrows(c) \/ WriteOutput(c)
                  \/ CompleteStep(c) \/ RecordStep(c) \/ Reload(c) \/ FailStep(c) \/ Conclude(c)
UserStep(c)    == RetryThrows(c) \/ Retry(c) \/ BeginCancel(c) \/ CancelStep(c) \/ CancelJob(c)

Next ==
  /\ \/ \E c \in Call : StoreStep(c) \/ RecoverStep(c) \/ ExecuteStep(c) \/ UserStep(c)
     \/ \E p \in Proc : Crash(p)
  /\ UNCHANGED budget

Spec == Init /\ [][Next]_vars

-----------------------------------------------------------------------------
\* A step is recorded as completed only when its output can be read back, in
\* whatever order the executors, the crashes and the cancellations come.
CompletedHasOutput == \A s \in Step : step[s].status = "completed" => s \in output

Over(c)  == pc[c] \in {"conclude", "done"}
Holds(c) == Live(c) /\ fence[c] > 0 /\ pc[c] \notin {"ownerLock", "stuck"} /\ ~Over(c)

\* A live call has owner.lock from its write in acquireRunOwner to its removal in
\* releaseRunOwner, unless a recovery took it over, as long as owner.fence.lock has
\* done its work: never two live calls inside, by a break before owner.json was
\* written or of a holder that is slow.
ClaimIsExclusive == overlap \/ \A c \in Call : Holds(c) => lockOwner = c \/ c \in displaced

\* No finished call of a live process leaves its owner lock behind, which would
\* keep every later execution out; not even with two calls inside owner.fence.lock.
\* Only a call whose release has thrown on a lock timeout does (stuck).
NoLeakedLock == lockOwner # NoCall /\ Live(lockOwner) => ~Over(lockOwner)

\* Over all executors, crashes, takeovers and retries the handler of a step is
\* never started more often than its attempt budget allows, unless an unguarded
\* write (of an inspection, a cancellation, a Skill check or a concluded execution)
\* brought back an old owner of the job or an old count.  Old statuses, claims that
\* cross and broken fence locks do not matter.
StartsWithinBudget == undone \/ \A s \in Step : starts[s] <= budget

\* A write of a whole record that its call had read before another write.
Seen(c) == IF pc[c] = "conclude" THEN mine[c] ELSE held[c]
Outdated(c) ==
  /\ pc[c] \in {"inspected", "cancelJob", "conclude", "ownerJob", "clear", "returnClear"}
  /\ pc'[c] # pc[c] /\ Seen(c) # job

\* A job that was completed or cancelled becomes runnable again in two ways only: in
\* the very step in which a call puts back the record it had read before the end
\* (markStale, requestCancel, executeDurableAsyncTask, and acquireRunOwner and
\* releaseRunOwner too), or when a recovery or retry finds its Skill outdated.
\* No retry, recovery or execution does it by its own guarded writes, and an end
\* that was put back so is as firm as before.
FinalIsFinal ==
  [][job.status \in {"completed", "cancelled"} /\ job'.status \notin Terminal =>
       \E c \in Call : Outdated(c) \/ (pc[c] = "skill" /\ pc'[c] = "done")]_vars

\* A step that is not idempotent and that is recorded as running leaves that
\* state only with an outcome: neither the recovery of a crashed executor nor an
\* executor with an old copy of it puts it back into the queue or starts it over,
\* unless a write of an old record let a retry in beside the interrupted step.
UncertainIsKept ==
  [][~clobbered' => \A s \in Step \ Idempotent :
       step[s].status = "running" =>
         step'[s] = step[s] \/ step'[s].status \notin {"queued", "running"}]_vars

Restarted(s) == step[s].status = "recovery_required" /\ step'[s].status = "running"

\* A step that was set aside because "Automatic replay is unsafe"
\* (src/jobs/jobManager.ts:710) is not started again by the recovery of a server
\* that starts.  What a racing inspection can undo is left out.
InterruptedNotReplayed ==
  [][~clobbered' => \A s \in Step \ Idempotent : ~Restarted(s)]_vars

\* "stale writer refused" (src/jobs/jobStore.ts:275): an execution does not change
\* the record while it names another owner.
StaleWriterRefused ==
  [][\A c \in Call :
       /\ KindOf[c] = "execute" /\ pc'[c] # pc[c]
       /\ job.owner \notin {NoCall, c}
       => job' = job]_vars
=============================================================================
