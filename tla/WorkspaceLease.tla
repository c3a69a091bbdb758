--------------------------- MODULE WorkspaceLease ---------------------------
(***************************************************************************)
(* The workspace write lease of shared/execution-kernel.mjs, as the Codex  *)
(* Exec adapter uses it: a run takes the lease, spawns a managed child,    *)
(* records the child's pid in the lease before the child is given its      *)
(* prompt, renews the lease by heartbeats and releases it when the child's *)
(* process tree is gone.                                                   *)
(*                                                                         *)
(* Every lease call is synchronous in the code, so in this module a call   *)
(* is one step, which is exact for the runs of one process and for         *)
(* processes whose calls do not overlap.  Overlapping calls of two         *)
(* processes are the subject of WorkspaceLeaseSteps.                       *)
(*                                                                         *)
(* Time is kept as the number of ticks a lease has left, so no clock has   *)
(* to be bounded.                                                          *)
(***************************************************************************)
EXTENDS Naturals

CONSTANTS Run,          \* runs that want to write in the workspace
          Proc,         \* operating system processes that host runs
          HostOf,       \* the process each run executes in
          Ttl,          \* ticks a lease lives without a heartbeat
          KillMayFail,  \* whether a process tree can outlive SIGKILL
          NoLease,      \* there is no lease directory
          Torn          \* there is one, but without lease.json

LeaseRecord == [run : Run, fence : Nat, managed : BOOLEAN, left : 0..Ttl]

ASSUME LeaseAssumption ==
  /\ HostOf \in [Run -> Proc]
  /\ Ttl \in Nat \ {0}
  /\ KillMayFail \in BOOLEAN
  /\ NoLease \notin LeaseRecord /\ Torn \notin LeaseRecord /\ NoLease # Torn

VARIABLES
  up,        \* the processes that are alive
  lease,     \* the lease directory: NoLease, Torn or the content of lease.json
  fencing,   \* the counter in write.fencing.json
  handle,    \* the fencing token in the lease object each run holds, 0 for none
  phase,     \* where each run is in execAdapter's consume
  child,     \* each run's managed child: none, idle (no prompt yet) or working
  survivors  \* runs that ended although their process tree outlived SIGKILL

vars == <<up, lease, fencing, handle, phase, child, survivors>>

Phase == {"idle", "acquired", "spawned", "recorded", "running", "finishing", "done"}

\* lease.json was published, as opposed to an absent or an empty directory.
Published == lease \notin {NoLease, Torn}

TypeOK ==
  /\ up \in SUBSET Proc
  /\ lease \in LeaseRecord \cup {NoLease, Torn}
  /\ fencing \in Nat
  /\ handle \in [Run -> Nat]
  /\ phase \in [Run -> Phase]
  /\ child \in [Run -> {"none", "idle", "working"}]
  /\ survivors \in SUBSET Run

Init ==
  /\ up = Proc
  /\ lease = NoLease
  /\ fencing = 0
  /\ handle = [r \in Run |-> 0]
  /\ phase = [r \in Run |-> "idle"]
  /\ child = [r \in Run |-> "none"]
  /\ survivors = {}

-----------------------------------------------------------------------------
Alive(r) == HostOf[r] \in up

OwnerAlive == HostOf[lease.run] \in up

ManagedAlive == lease.managed /\ child[lease.run] # "none"

Expired == lease.left = 0

\* Bug: only the TTL and the child keep a lease, not its living owner.
LeaseActiveByTtl == Published /\ (ManagedAlive \/ ~Expired)

\* Bug: a directory without lease.json counts as a lease.
LeaseActiveWhenTorn ==
  lease # NoLease /\ (lease = Torn \/ OwnerAlive \/ ManagedAlive \/ ~Expired)

LeaseActive == Published /\ (OwnerAlive \/ ManagedAlive \/ ~Expired)

SameLeaseOwner(r) == Published /\ lease.run = r /\ lease.fence = handle[r]

\* A run that may be changing files: it holds a lease in a live process, or
\* the child it has given a prompt to is alive.
Writing(r) == \/ Alive(r) /\ handle[r] # 0
              \/ child[r] = "working"

\* The run has released its lease although its process tree is still there.
Abandoned(r) == r \in survivors /\ handle[r] = 0

-----------------------------------------------------------------------------
\* Bug: the counter is not written back.
AcquireKeepsCounter(r) ==
  /\ phase[r] = "idle" /\ Alive(r)
  /\ ~LeaseActive
  /\ lease' = [run |-> r, fence |-> fencing + 1, managed |-> FALSE, left |-> Ttl]
  /\ handle' = [handle EXCEPT ![r] = fencing + 1]
  /\ phase' = [phase EXCEPT ![r] = "acquired"]
  /\ UNCHANGED <<up, fencing, child, survivors>>

\* acquireWorkspaceLeaseSync: a lease that is not active is moved away and the
\* directory is made anew; an active one makes the call throw, a stutter.
Acquire(r) ==
  /\ phase[r] = "idle" /\ Alive(r)
  /\ ~LeaseActive
  /\ fencing' = fencing + 1
  /\ lease' = [run |-> r, fence |-> fencing + 1, managed |-> FALSE, left |-> Ttl]
  /\ handle' = [handle EXCEPT ![r] = fencing + 1]
  /\ phase' = [phase EXCEPT ![r] = "acquired"]
  /\ UNCHANGED <<up, child, survivors>>

\* The host dies inside the call: after mkdir, before lease.json is written,
\* with the fencing counter already advanced or not.
CrashInAcquire(r) ==
  /\ phase[r] = "idle" /\ Alive(r)
  /\ ~LeaseActive
  /\ lease' = Torn
  /\ fencing' \in {fencing, fencing + 1}
  /\ up' = up \ {HostOf[r]}
  /\ UNCHANGED <<handle, phase, child, survivors>>

\* runManagedProcess spawns the child; its stdin is held back.
Spawn(r) ==
  /\ phase[r] = "acquired" /\ Alive(r)
  /\ child' = [child EXCEPT ![r] = "idle"]
  /\ phase' = [phase EXCEPT ![r] = "spawned"]
  /\ UNCHANGED <<up, lease, fencing, handle, survivors>>

\* Bug: the remaining time is added to a full TTL.
RenewedOnTop(withChild) ==
  [lease EXCEPT !.left = @ + Ttl, !.managed = lease.managed \/ withChild]

\* What heartbeatWorkspaceLeaseSync leaves in lease.json.
Renewed(withChild) ==
  [run |-> lease.run, fence |-> lease.fence,
   managed |-> lease.managed \/ withChild, left |-> Ttl]

\* Bug: the heartbeat does not write managed_pid.
RecordChildForgetsPid(r) ==
  /\ phase[r] = "spawned" /\ Alive(r)
  /\ SameLeaseOwner(r)
  /\ lease' = Renewed(FALSE)
  /\ phase' = [phase EXCEPT ![r] = "recorded"]
  /\ UNCHANGED <<up, fencing, handle, child, survivors>>

\* The onSpawn hook: a heartbeat that adds managed_pid.  A heartbeat that does
\* not find the run's own lease throws, and the child is terminated.
RecordChild(r) ==
  /\ phase[r] = "spawned" /\ Alive(r)
  /\ IF SameLeaseOwner(r)
       THEN /\ lease' = Renewed(TRUE)
            /\ phase' = [phase EXCEPT ![r] = "recorded"]
       ELSE /\ phase' = [phase EXCEPT ![r] = "finishing"]
            /\ UNCHANGED lease
  /\ UNCHANGED <<up, fencing, handle, child, survivors>>

\* spawnReady resolves: the child is sent its prompt, unless it already died.
SendPrompt(r) ==
  /\ phase[r] = "recorded" /\ Alive(r)
  /\ phase' = [phase EXCEPT ![r] = "running"]
  /\ child' = [child EXCEPT ![r] = IF @ = "idle" THEN "working" ELSE @]
  /\ UNCHANGED <<up, lease, fencing, handle, survivors>>

Heartbeat(r) ==
  /\ phase[r] \in {"recorded", "running"} /\ Alive(r)
  /\ SameLeaseOwner(r)
  /\ lease' = Renewed(TRUE)
  /\ UNCHANGED <<up, fencing, handle, phase, child, survivors>>

\* finish: the tree is terminated, SIGTERM then SIGKILL, and awaited.  A tree
\* that survives both does not stop the run from ending (tree_terminated false).
Finish(r) ==
  /\ phase[r] \in {"spawned", "recorded", "running"} /\ Alive(r)
  /\ phase' = [phase EXCEPT ![r] = "finishing"]
  /\ \/ /\ child' = [child EXCEPT ![r] = "none"]
        /\ UNCHANGED survivors
     \/ /\ KillMayFail /\ child[r] # "none"
        /\ survivors' = survivors \cup {r}
        /\ UNCHANGED child
  /\ UNCHANGED <<up, lease, fencing, handle>>

\* releaseWorkspaceLeaseSync in consume's finally block, whether or not the
\* tree is gone: only the owner's directory is moved away and removed.
Release(r) ==
  /\ phase[r] \in {"acquired", "finishing"} /\ Alive(r)
  /\ lease' = IF SameLeaseOwner(r) THEN NoLease ELSE lease
  /\ handle' = [handle EXCEPT ![r] = 0]
  /\ phase' = [phase EXCEPT ![r] = "done"]
  /\ UNCHANGED <<up, fencing, child, survivors>>

\* The child exits by itself, under its host or orphaned.
ChildExit(r) ==
  /\ child[r] # "none"
  /\ child' = [child EXCEPT ![r] = "none"]
  /\ UNCHANGED <<up, lease, fencing, handle, phase, survivors>>

\* A host dies.  Its runs' children and the lease directory stay.
Crash(p) ==
  /\ p \in up
  /\ up' = up \ {p}
  /\ UNCHANGED <<lease, fencing, handle, phase, child, survivors>>

Tick ==
  /\ Published /\ lease.left > 0
  /\ lease' = [lease EXCEPT !.left = @ - 1]
  /\ UNCHANGED <<up, fencing, handle, phase, child, survivors>>

RunStep(r) ==
  \/ Acquire(r) \/ CrashInAcquire(r) \/ Spawn(r) \/ RecordChild(r)
  \/ SendPrompt(r) \/ Heartbeat(r) \/ Finish(r) \/ Release(r) \/ ChildExit(r)

Next ==
  \/ \E r \in Run : RunStep(r)
  \/ \E p \in Proc : Crash(p)
  \/ Tick

Spec == Init /\ [][Next]_vars

\* Time passes, a child ends sooner or later, a live host drives its runs to
\* the end, and a caller that was refused asks again.
Fairness ==
  /\ WF_vars(Tick)
  /\ \A r \in Run :
       /\ WF_vars(ChildExit(r)) /\ WF_vars(Acquire(r)) /\ WF_vars(Spawn(r))
       /\ WF_vars(RecordChild(r)) /\ WF_vars(SendPrompt(r))
       /\ WF_vars(Finish(r)) /\ WF_vars(Release(r))

FairSpec == Spec /\ Fairness

-----------------------------------------------------------------------------
\* Two runs are changing the workspace at the same time only over a process
\* tree that survived SIGKILL and whose run has released its lease: consume's
\* finally block does not ask whether the tree is gone.  Every other tree, also
\* the one of a crashed host and a survivor whose host died before the release,
\* keeps the next run out (the comment at execution-kernel.mjs:1213).
OneWriter ==
  \A r, s \in Run :
    r # s /\ Writing(r) /\ Writing(s) => Abandoned(r) \/ Abandoned(s)

\* A live run that holds a lease always finds itself in lease.json, so its
\* next heartbeat and its release succeed: nobody can have displaced it.
HolderNeverDisplaced ==
  \A r \in Run : Alive(r) /\ handle[r] # 0 => SameLeaseOwner(r)

\* A new lease carries a token above every token given out before, whoever
\* crashed in between, so that an old holder's token can never match it.
FencingAdvances ==
  [][ /\ fencing' >= fencing
      /\ \A r \in Run : handle'[r] \notin {0, handle[r]} =>
           \A s \in Run : handle'[r] > handle[s] ]_vars

\* A run whose host stays up gets the lease in the end: neither a crashed
\* holder, nor its child, nor an empty directory blocks the workspace for ever.
LeaseEventuallyFree ==
  \A r \in Run : (phase[r] = "idle") ~> (phase[r] # "idle" \/ ~Alive(r))
=============================================================================
