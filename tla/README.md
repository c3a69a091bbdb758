# A verification project for codexpro-runtime

The runtime lets agents work in a workspace through an MCP server. What keeps
that safe is a handful of state machines whose state lives in files, shared by
every server process of the machine: a write lease per workspace, an admission
controller, durable jobs with ownership and recovery, durable messages, goals that
supervise a provider's turns, report logs, and the lock directories under most of
them. They are small, they are asynchronous, several processes run them at once, and any of
those processes may die between two writes. This project models them in TLA+,
checks them with TLC and proves what matters most with TLAPS.

Paths are relative to the repository: `src/...` is the TypeScript of the
runtime, `shared/...` the kernel. `PROJECT.json` maps every definition to its
lines, lists each hazard at the line where it bites, and names the mutant that
shows that each property can fail.

## 1. The system

| component | state it keeps | operations | who calls it |
|---|---|---|---|
| workspace write lease (`shared/execution-kernel.mjs`) | lease directory with `lease.json`, `write.fencing.json` | acquire, heartbeat, record the child's pid, release | the Codex Exec adapter |
| managed processes (same file) | child process trees | spawn, terminate tree, output capture | exec adapter, job steps |
| resource governor (`src/resources/resourceGovernor.ts`) | leases and queue in one JSON file under a mkdir lock | acquire, waitForGrant, heartbeat, release, cancelQueuedRun, releaseTaskResources, status | every tool call, directly or nested |
| durable jobs (`src/jobs/`) | `job.json`, one file per step, output files, `owner.lock`, `owner.fence.lock` | create, execute, inspect, requestCancel, prepareRecovery, retryStep, acquireRunOwner, releaseRunOwner | asynchronous compact tasks, status tools, server start |
| asynchronous compact tasks (`src/asyncCompactTasks.ts`) | the steps of a task, their controllers | start, status, resume, retry, cancel, recovery at start | MCP tools |
| durable messages (`src/messages/messageStore.ts`) | four journals, `state.json`, lease files | append, recover, claimById, claimNext, ack, nack, dispatch | tool outcome publisher, goals, notifier, browser |
| execution components (`src/execution/componentStore.ts`) | component records with deadlines | register, heartbeat, progress, terminal states | dispatchers, jobs |
| lock directories (ten stores) | a directory, mostly with `owner.json` in it | mkdir, judge, break, remove | every operation of those stores |
| task report events (`src/tasks/taskReportEventStore.ts`) | `events.jsonl`, `summary.json`, `projection-meta.json` | append, readEvents, readSummary, readStages, rebuild | publisher, tasks |
| loop policy (`src/workflow/loopPolicy.ts`) | budgets of a run | start, consume, decide | jobs |
| goals (`src/goals/`) | `goal.json`, `result.json`, monitors and leases in memory | start, resume, cancel, recovery, monitor, validation, review, finalize | MCP tools, server start |
| hooks (`src/hooks/hookBridge.ts`) | hook deliveries in the goal record, messages | claim, deliver, complete, fail | goals |
| the rest | | | identities and read models, workflow stages, worktrees, sessions, providers, security rules, transport, browser, scripts: see `PROJECT.json` |

How they interact. A tool call asks the governor for its pools and keeps the
lease by heartbeats while it runs; calls nested in it are covered by its lease. A
compact task makes a durable job and drives it; each execution takes `owner.lock`
with a fencing token, and a server that starts takes over the jobs of its dead
predecessor and asks the governor to drop their resources. Job steps that write
through Codex take the workspace lease around a managed child. Outcomes are
appended to the message store and dispatched from there.

What is hard in each, and what makes it correct:

- **lease** - a host dies with its child still writing; the directory exists
  before its content does; kill can fail. *One writer at a time but for the trees
  that a run has given up, a holder is not displaced, tokens only grow, the workspace
  comes free again.*
- **governor** - callers that give up, are aborted, crash or time out between the
  writes of others; heartbeats that fail or come late, a state lock that is not to be
  had; nested calls; priorities. *Limits and write exclusion hold, and not only in the
  file but for the work, as long as its lease has time left; what a caller leaves in
  the queue lapses by its deadline; the queue alone holds nobody back for ever.*
- **durable jobs** - the step file and the job record are two writes; records are
  read, awaited over and written back; recovery, retry, cancellation and two
  executions meet; the lock around the claim is broken by a waiter that finds it
  empty. *At most one owner acts, an uncertain step is not replayed, a completed step
  has its output, the attempt budget holds, finished stays finished but for the writes
  of old records, no lock is leaked.*
- **messages** - no lock at all: every operation writes back the whole state it
  has read. *What is settled stays settled, an ack follows a handler, a dead
  letter had its attempts, a key is not added twice; budget and exclusion hold
  while no old copy was written back.*
- **lock directories** - breaking a stale lock and making the directory are separate
  file system calls, and each store judges staleness in its own way. *At most one
  caller inside, unless a live holder lost its directory; that needs a fault; a dead
  owner does not block for ever.*
- **task reports** - an append may die in the middle of its line, or is repeated under
  its key by another process; readers look without the lock. *Nothing is lost or
  numbered twice, who was told of an event finds it, and what a reader gets is
  current.*
- **goals** - calls of several servers, the monitor of a provider's turn and a
  recovery act on one record, each on what it has read before; a turn may never end,
  a hook may throw in the middle of a call. *A goal ends once, at most one turn works,
  the lease comes back, at most one final notice goes out, a goal that runs without a
  turn at work goes on.*

## 2. The modules

| module | models | grain |
|---|---|---|
| `WorkspaceLease` | the write lease and the managed child around it | one step per lease call (they are synchronous in the code) |
| `WorkspaceLeaseSteps` | acquire with overlapping callers | one step per file system call |
| `WorkspaceLeaseProofs` | theorems | |
| `ResourceGovernor` | the state file and its callers | one step per operation under the state lock |
| `ResourceGovernorProofs` | theorems | |
| `DurableJob` | one job, its files, its owner lock and all manager calls on it | one step per write of the store |
| `DurableJobProofs` | theorems on outputs and the owner lock | |
| `DurableJobHistoryProofs` | theorems on attempts, uncertain steps and jobs that have ended | |
| `MessageStore` | the messages of one consumer | one step per write of a file |
| `MessageStoreProofs` | theorems | |
| `MkdirLock` | a lock directory under the rule of each store that makes one | one step per file system call |
| `MkdirLockProofs` | theorems | |
| `EventLog` | abstract: what a report log promises its writers and readers | |
| `TaskReports` | the report log of a task, with `MkdirLock` as its lock; it implements `EventLog` | one step per read or write of a file |
| `TaskReportsProofs` | theorems, the refinement among them | |
| `Goals` | one goal, its manager calls and monitors, the provider's turns, its lease and its final notice | one step per write of the goal store, with the reads just before it |
| `GoalsProofs` | theorems | |
| `MC*` | instances for TLC | |

`TaskReports` EXTENDS `MkdirLock` and composes with it: the lock's steps are steps of
the log's calls, and a step of an operation is one inside the lock. `EventLog` is
the specification that `TaskReports` refines, with `log <- file.log` and
`intact <- Intact`.

**WorkspaceLease.** `lease` is the directory (absent, empty, or with the record),
`fencing` the counter file, `handle` the lease object in a run's memory, `phase`
where the run is in `consume` of `execAdapter.ts`, `child` its managed child. A
crash of a host leaves child and directory. `KillMayFail` lets a tree outlive
SIGKILL; `survivors` remembers the runs that it happened to. Their trees write on
(`Writing`), and `consume` gives the lease back all the same: such a run is
`Abandoned`, and `OneWriter` lets exactly these trees write beside the next run. A
survivor whose run has not released yet, or whose host has died, still keeps the
others out. Time is the number of ticks a lease has left.

**WorkspaceLeaseSteps** opens `acquireWorkspaceLeaseSync` up: mkdir, fencing
counter, lease file, inspection and moving away are separate steps of different
processes. It is only about that function.

**ResourceGovernor.** `leased`, `left`, `queued`, `rank`, `due` are the state file;
`wait`, `pc` the callers in `waitForGrant` and `runWithLease`. A request keeps one
identity. Reconciliation (`KeptLeases`, `KeptQueue`) is part of every operation
that reconciles in the code, and drops an expired lease of its own live process as the
code does. No heartbeat is assumed to arrive: `Tick` lets any lease lapse under its
work. An operation that does not get the state lock throws (`LockTimeout`,
`FinishFails`, `Abort` without its release): the entry stays in the queue until `due`,
the deadline of its caller, the lease until it expires, and the caller is gone
("failed") and may ask again. An aborted call gives its lease back while its work may go on ("detached").
The load of the host is a free choice for heavy work. Two entries of the queue do not
arrive in the same millisecond.

**DurableJob.** `job`, `step`, `output`, `lockOwner`, `lockFence` are the files.
Each call has a fresh owner token, as in the code, and `mine`, `steps`, `held` are
the copies it keeps; where the code writes back later what it has read, the read is
an action of its own. So it is in `acquireRunOwner` (`Acquire`, `WriteOwnerLock`,
`WriteOwnerJob`) and `releaseRunOwner` (`Release`, `ClearOwner`, `RemoveLock`): they run
under `owner.fence.lock`, but a waiter takes that lock away as long as it has no
`owner.json`, so the model lets another call in at any time and remembers it
(`overlap`). The wait for the lock may time out (`LockTimeout`), which leaves the
owner's lock behind ("stuck"). A starting server, a resume and a retry may find the
job's Skill outdated and then write `recovery_required` over whatever the record says
(`SkillOutdated`, `MarkSkillRecovery`). The owner check of a guarded write and the write
are one action (a window of one file read that the model does not open). History are
`displaced` (a recovery took a lock over), `clobbered` (an old record undid another
write, or a Skill check an end) and `undone` (it brought back an old owner or an old
count of attempts). Reports, the progress record, the office index and the
refresh of a step file by a heartbeat are left out; so are the contents of steps.

**MessageStore.** `outbox`, `inbox`, `acks`, `dead` are the journals (of the inbox
only the last line of a key counts), `state` is `state.json`, `lease` the lease
files. A call goes from `readPersistedState` (Load) over the replay of the journals
and its write (Recover) to the change of its copy, the line in a journal, the lease
file, and the write of the whole copy (Save), with a crash or another call between
any two of them. `claim` stands for `lease_expires_at`: it names the call whose
claim set it, and `Expire` is the moment it passes. The end of a backoff and the
order of due messages are free choices. `seen`, `stale`, `clobbered`, `starts`,
`claims` and `handled` are history. Left out: `replayDeadLetter`, which nothing
calls, torn journal lines, and `appendDurableMessageSync`, which only makes an
outbox line and is present as an initial one.

**MkdirLock.** The runtime has this loop ten times. A `LockRule` says how a store
judges: whether the age is that of the record or of the directory, whether the pid in
the record is asked, whether a directory without record is stale at once
(`withRunOwnerLock` of the job store), what the record is needed for, and whether it
is read again before the removal. `dir` is the directory with who made it, whom
`owner.json` names and whether it is old; `stolen` records by what a live holder lost
its directory, `overdue` that a holder was slower than the stale age. The lock file
of the usage ledger works otherwise and is left out. A rename and the removal of what
was renamed are one step.

**TaskReports.** `file` is `events.jsonl` as `scan` understands it: the valid events,
the number of dropped lines and how the last line ends. `Written` says what a write
does to it, also to a line without newline and in a crash. `summary` and `meta` are
the projection files, and a projection stands for the events it was made of. Left
out: limits of fields, the project check, caches, `backfill_version`.

**Goals.** `goal` is what decisions read of `goal.json`; `blocked` counts as `failed`.
A thread is a manager call, or the process that stands for its monitor; `pc` says
where it is, `want` what it has read or asks for. A turn and a lease carry the name
of the call that launched or asked for them. `kept` is the manager's map of leases,
`leases` what the governor has granted. Validation and review are their outcomes.
`pending` are deliveries of the final notice; `later` counts the events that follow
the end, which make the event key of a later delivery a new one. `mishap` names the
overlaps that the code lets happen: `raced` (a resume acts on an old record, or a
made-up end is applied to a resumed goal), `seized` (recovery of a goal that is at
work), `late` (a lease granted while the goal is finalized), `deaf` (a new turn, the
old monitor still registered), `twice` (a manager that starts makes another event key
for the notice while a delivery is under way or claimed), `left` (start throws outside
its try, because the message of the started hook cannot be written). Other work on a
goal that has ended adds events to it (`Metadata`: heartbeats, failed acceptances, other
hooks) and so changes the key of a later notice. An attachment may fail after it has
recorded the run (`AttachFails`); the turn then works on and nobody follows it.

## 3. The runs

| run | instance | what it shows |
|---|---|---|
| `workspace_lease` | 3 runs in 2 hosts, Ttl 2, kill may fail | one writer but for abandoned trees, no displaced holder, growing tokens, and that a run that waits gets the lease, over every crash |
| `lease_overlap` (violation) | 2 processes, 4 rounds | two overlapping acquires both succeed |
| `governor` | 5 requests: a heavy writer with two nested calls, a second writer, an urgent reader, 2 processes | limits, exclusion in the file and of the work, a lease is lost by expiry only, no phantom waiter, a head of the queue that can go |
| `durable_job` | 2 executions of 2 steps with a budget of 1 or 2, and of recovery, cancellation, retry and status request those that `Scenario` puts together | output of completed steps, one owner, no leaked lock, uncertain steps kept, starts within the budget, what alone reopens a final job |
| `job_crash`, `job_refused` (violations) | subsets of the above | see findings |
| `messages` | 2 messages of one key, append and dispatchById in one process, two dispatchOne in another, 2 attempts | settled is final, ack implies applied, dead letters are exhausted, dedupe sees the outbox, budget and exclusion |
| `message_stale` (violation) | 2 drains of one process | one unexpired claim delivered twice |
| `locks` | 3 calls in 2 processes, one of them mortal, 2 slow calls, 10 rules | exclusion unless robbed, robbery needs a fault, waiting ends |
| `task_reports` | 4 appends (2 of one key, 2 progress reports that say the same), a reader, a rebuild, 2 processes; every 3 of the calls | no gap, no line wasted, current answers, and the refinement of `EventLog` |
| `goals` | a start, 2 resumes, a cancellation, the recovery of a second process; every 4 of the calls | types, one turn, lease returned, notified once, ends once, running without a turn goes on |
| `goal_cancelled` (violation) | the same | a notice of failure for a cancelled goal |

The bounds, and why they are enough for these questions:

- *Lease.* Three runs are a holder, a rival in the same process and one in
  another; Ttl 2 distinguishes fresh, ageing and expired. Only differences of
  tokens matter; each run acquires once.
- *Governor.* The five requests meet each other in every way the code
  distinguishes: category, mode, priority, named pool, nesting, process. Limits of
  1, and 2 where sharing must show. Ttl 1 and Patience 1: a lease and a deadline are
  fresh or over, and each may lapse while others are renewed; nothing else of their
  length matters.
- *DurableJob.* Two executions are a holder and a rival; the third and fourth call
  is the one that the question is about. One step is idempotent and one is not.
  Two of the three processes die (`Mortal`): the one that survives sees everything the
  dead ones left. The `VIEW` forgets local variables that no later action reads. The
  constraint `Scenario` says which calls come together with which budget. Two calls
  meet without restriction: overlapping in the fence, with outdated Skills, releases
  that throw and writes of old records. Three calls meet as long as the state is
  `Quiet` (none of that yet) and, with a budget of one, nothing has been clobbered. The
  theorems have no such bound.
- *MessageStore.* Calls of one thread follow each other (`After`), as a publish
  appends before it dispatches and a drain dispatches one message after another;
  two threads are one that writes an old copy and one whose work it undoes. Four
  calls give three claims of a message with two attempts, so a retry, an exhausted
  message and a claim after a stale write all occur. The message that is in the
  outbox and not in `state.json` is what a dead append or the synchronous append
  leaves.

- *MkdirLock.* Three calls are a holder and two waiters that race to break what it left,
  two of them in one process; only one of the processes dies.
- *TaskReports.* Three calls are a writer, one who repeats it and one who looks. That
  `p1` alone dies leaves what a crash leaves to `p2`.
- *Goals.* The calls are those that meet in the code: two servers, each with a monitor,
  one resume in each, and one recovery. `FewCalls` allows four of them, three once a
  process has died or one of the exempted overlaps has happened, two when the recovery
  is among them. `MaxLater` is one event of other work on the ended goal: enough to
  make two event keys differ. Each exemption of a property of `Goals` stands for something
  that does occur. In the run itself a violation is found without `deaf` or `left` in
  `RunningEnds`, `late` in `LeaseReturned`, `twice` or `raced` in `NotifiedOnce`. The other
  exemptions need one or two calls more after the overlap than the constraint lets
  pass: `seized` a resume after the recovery (three calls), `raced`, and `deaf` in `LeaseReturned`, a
  resume in each process (four). With all the limits at 5, TLC finds those violations when the
  exemption is removed; but that instance is too large to be explored to the end. The
  theorems have no such bound.

`CHECK_DEADLOCK FALSE` everywhere: calls end, processes die, and then nothing is
left to happen.

**Fairness.** Three properties need it. For `LeaseEventuallyFree`, ticks are fair because clocks run,
`ChildExit` because the adapter's timeouts end a child, the steps of a run because a
live process drives it, `Acquire` because a refused caller asks again. A crash is
never forced. For `WaitingEnds` the steps of a call about the lock are fair (the loop
polls and the event loop runs it) and so is `Age` (time passes); giving up is not
forced, so the property does not rest on the timeout. For `RunningEnds` each
thread (a call, or the monitor of a process) is fair as a whole: the event loop of a
live process carries it on, and an admission wait has a limit. Which of the outcomes it
meets is not forced, and neither are beginning a call, asking, dying, nor **the end of a
turn**: the Exec adapter has timeouts, but the SDK adapter waits for its stream with an
abort signal only. So the property speaks of goals that run while no turn is at work.
No liveness is stated for the governor (a caller may give up at any
time and the heavy pool depends on the host), for jobs (nobody must call execute) or
for messages (a message in retry_wait is looked at only when someone publishes).

**History variables in properties.** `OneWriter`, `RobberyNeedsFault`, the properties of
`TaskReports` and those of `Goals` name the overlaps from which they exempt (`Abandoned`,
`atOnce`, `overdue`, `Intact`, `mishap`): each is a weakness that the code really has,
listed as a hazard at its line, and the property says that nothing else breaks it. Of
the messages, `BudgetKept` and `ClaimExclusive` hold until an old copy has been written
back (`clobbered`). Of the jobs, `ClaimIsExclusive` holds until two live calls were in
`owner.fence.lock` together (`overlap`); `StartsWithinBudget` until an old owner or an
old count was brought back (`undone`), whatever else was; `UncertainIsKept` until any
old record undid a write (`clobbered`); and `FinalIsFinal` names the very steps that
may put a finished job back, so that it goes on holding after them. The code does make
such writes; that they can undo the work of others is a fact of the design, listed
among the hazards. The other properties hold in spite of them.

## 4. What is proved

For every value of the constants that satisfies the assumptions of the module:

- **WorkspaceLeaseProofs**: `TypeCorrect`, `WriterExclusion`, `HolderKeepsLease`,
  `TokensAdvance`. The invariant `IInv` ties each run to the lease file (`RunInv`):
  its token is at most the counter; it has a token exactly between acquire and
  release; a live holder is named in `lease.json`; a prompted child is there with its
  pid, unless its run has abandoned it. `OneWriter` alone is not inductive: it needs to
  know that a working child keeps the lease from being taken, which is the last conjunct.
- **ResourceGovernorProofs**: `TypeCorrect`, `WriterExcludes`, `LimitsHold`,
  `RunningHoldsLease`, `WorkExcludes`, `NoneWaitsInVain`, `QueueMoves`. `CallerInv` says
  that in a live process a running body whose lease has time left is in the file, that a
  queue entry belongs to a caller that waits or has failed and lapses no later than its
  deadline, and that a covered call has its parent above it and writes only under a
  parent that writes. Nothing is assumed about heartbeats. Exclusion and limits follow
  from the admission checks, with lemmas on the cardinality of a pool's occupants;
  `WorkExcludes` carries the exclusion over from the file to the work, through the lease
  that each call works under (`SecuredRoot`). `QueueMoves` adds that the queue never holds everybody back: of the most
  urgent entries there is one that arrived first (a minimum of a well-founded order,
  `HeadOfQueue`), and nothing is ahead of it.
- **DurableJobProofs**: `JobTypes`, `CompletedStepsHaveOutput`, `OneClaim`, `NoLockLeaks`.
  `JobInv` says that the lock is that of a call which will still release it, whose
  release has thrown, or which is dead (`LockInHand`); that until two live calls were in
  the fence together there is one at most, which about to write `owner.lock` finds none
  and about to remove it finds its own (`FenceInHand`, with the record it has read in
  hand, `CopyInHand`); and that an output is written before the step's record
  (`OutputWritten`). From the start of a step to its record the executor has a step in
  hand (`StepInHand`): of steps not all completed there is a first one, again a
  minimum of a well-founded order.
- **DurableJobHistoryProofs**: `BudgetHolds`, `EndedStaysEnded`, `UncertainNotReplayed`.
  Whatever has been undone, each copy that will be written back says what its call has
  read, which was a job that had not ended (`Copies`), and a job that has ended has no
  owner (`FinalUnowned`): so every guarded write of it is refused, and what reopens it is
  the write of an outdated record or a Skill check (`FinalStep`). Until an
  old owner or count is brought back, every start is counted in the step file, which the
  executor that owns the job knows (`Counted`): a call that owns the job has owned it
  before or has just acquired it (`OwnershipStep`), also when claims cross in a broken
  fence. `UncertainNotReplayed` (the action property `UncertainIsKept`)
  rests on `Attended`: at most one step runs; while one does, the job has an owner and
  has not ended, or was cancelled for good (`Claimed`), so no retry or new execution
  is granted; and the owner is a recovery that has not looked yet, or the executor at
  work on that very step (`Engaged`), whose copies do not end the job (`Busy`).
  Ownership that is lost does not come back (`OwnerKept`), so an old executor's writes
  are refused, and a step of one call says nothing new of the others (`OthersAttend`).
- **MessageStoreProofs**: `TypeCorrect`, `AckFollowsHandler`, `DeadLettersExhausted`,
  `SettledStaysSettled`, `AppendDedupes`, `BudgetHolds`, `ClaimsExclude`. The journals only grow, and `FileInv` and
  `CallInv` bound every copy of state.json, on disk and in a call, by them: it names
  messages of the outbox only, its tokens are at most its counter, its attempts at
  most the claims that were saved (one more while a claim is being saved). So writing
  back a copy, however old, breaks nothing; and what `recover` lays over a copy
  (`ReplayFacts`) is what the call may rely on until it returns (`SeenInv`). `Frame`
  carries the invariant of a call over the steps of the others.
  The last two hold while no old copy has been written back, and rest on `CalmInv`: a
  copy that nothing has overtaken differs from state.json only where its call has
  changed it (`Differs`); a call that has saved its claim is named as the claimant of
  its message until the claim expires (`OwnFile`), no other claim bears its token
  (`OnlyToken`), and no copy that could still be written says otherwise (`Behind`).
  A step that clobbers establishes this vacuously; a step that writes no file of the
  state needs to be looked at for one call only (`LocalCalm`), and of a write only what
  it leaves of the others' claims matters (`WriteCalm`). A handler is started no more
  often than claims were saved, because each call about to start it stands for one
  (`StartsCounted`), and `AttemptsKept` bounds those by max_attempts.

- **MkdirLockProofs**: `LockTypeCorrect`, `LockExcludes`, `NoRobberyWithoutFault`, for any
  calls, processes and set of rules. As long as nobody is robbed a holder is the maker
  of the directory (`HolderMadeIt`). And as long as nothing has gone wrong (`CalmInv`)
  the directory is that of a live holder and old only where the lock asks whether the
  holder lives, so that no verdict is ever "stale" and nobody is about to break it.
- **TaskReportsProofs**: `ReportTypes`, `NumbersGapless`, `LinesKept`, `AnswersCurrent`
  and `ReportsImplementLog`. While the log is intact one call at a time is in its
  operation; between its scan and its line the file is what it has scanned, so its
  number is the next one and its key is new; the number of dropped lines is bounded by
  the deaths. What a reader answers with is made of scans and summaries, and each of them
  is the whole log of some moment (`AnswerInv`): as the numbers are unique, two of them
  with the same latest number hold the same events. The refinement maps the line that parses to `Append`, a return to
  `Acknowledge`, a robbery to `Break`, all else to a stutter.
- **GoalsProofs**: `GoalTypes`, `GoalEndsOnce`, `GoalOneTurn`, `GoalNotifiedOnce` and
  `GoalLeaseReturned`. `GoalInv` adds to the types that a monitor
  at work follows a turn (`MonitorFollows`), that what is being finalized is asked to
  end in a terminal status (`EndsInTerminal`), and that `result.json` of a goal that
  has ended agrees with it (`ResultAgrees`; before the end it may say anything, after
  a crash between the two writes). No transition leads out of a terminal status, so
  every action that writes the record leaves an ended goal alone. The other three
  rest on `CarrierInv`: without a raced resume and without a manager that recovers a goal
  at work, one call, turn or monitor *carries* the goal at a time (`OneCarrier`), and
  while it does the record is such that no resume and no repeated end of a turn can give
  it another carrier (`CarriedHeld`, `JudgedInv`, `FollowsInv`). A notice is asked for by
  the one thread that ends the goal, or by a starting manager of a goal that has ended;
  all of them make the same event key, and that is claimed once (`DeliveryInv`,
  `EndingInv`). A process keeps a lease only while its carrier will still give it back
  (`LeaseUsed`), so the release just before a goal is finalized leaves no lease of a live
  process (`LeaseFreed`); one granted to a launch afterwards is given back by that launch
  (`LeaseLast`).

Every exemption that a property makes is in its theorem too, in the same words.
Only model-checked: `LeaseEventuallyFree`, `WaitingEnds` and `RunningEnds` (liveness is
out of the prover's reach). Every other property of a passing run is a theorem.

## 5. Findings

Each is a violation run; `PROJECT.json` quotes the line it contradicts.

1. `lease_overlap` - between mkdir and the writing of `lease.json` a lease counts as
   none; a second caller moves the directory away and both get the lease.
2. `job_crash` - a crash between the two writes that set an uncertain step aside
   leaves the job record running; recovery looks for running steps only, and the next
   execution starts the uncertain step again.
3. `job_refused` - an execution that is refused a job writes the record it saw over
   the owner's.
4. `message_stale` - two claims from one old copy carry the same token and, within
   one process, the same owner; both are delivered.
5. `goal_cancelled` - two finalizations of one goal overlap; the one that comes second
   chooses the notice by what it was asked for, and a failure is announced for a goal
   that is cancelled (against `src/src/hooks/hookBridge.ts:111`).

Without a run of its own: `resume_run_task` of a job that was left `recovery_required` in
good order starts its uncertain step again, which `src/server.ts:3742` excludes
(`DurableJob` contains it: `PrepareRequeue` finds no running step and sets the job
"recovering"; `UncertainIsKept` speaks of steps that are recorded as running). And a goal whose acceptance waits for resources
stays `validating` with nobody to retry it before a restart (`AcceptanceWaits`).

## 6. Not modelled, and what could come next

- *DurableJob:* the check and the write of a guarded write are one step. The model lets
  a call into `owner.fence.lock` beside another at any time instead of composing with
  `MkdirLock`, which shows by its rule `atOnce` when that happens.
- *Governor:* leases with a managed pid, `acquire` again under a live identity, policy
  files.
- *Messages:* torn journal lines, which make every later recovery of the workspace
  throw; `replayDeadLetter`, which nothing calls.
- *Goals:* contract amendments and mismatches, manual replay of hooks, subagents but for
  their failure, hooks that are not final, a second goal with the same event key.
- *Execution components, loop policy, identities and read models, worktrees, exec slots:*
  state machines of the same kind as those here, smaller, and not begun.
- *Transport, tool registration, browser sessions, security rules, scripts, extension:*
  string rules, I/O and external programs; what state they have is in memory of one
  process, or in the stores above. They are most of the code by lines, so the map
  covers a small share of the repository, and more than half only of the stores.
