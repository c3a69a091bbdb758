-------------------------- MODULE ResourceGovernor --------------------------
(***************************************************************************)
(* The admission controller of src/resources/resourceGovernor.ts: leases   *)
(* on resource pools, the queue of waiting requests, and the callers in    *)
(* waitForGrant and runWithLease that drive it.                            *)
(*                                                                         *)
(* Every operation on the state file runs under withStateLock, so it is    *)
(* one step here (the lock is taken to exclude), or throws without effect  *)
(* when the lock cannot be had in time.  A request keeps one identity      *)
(* (matchRequest, sameLeaseIdentity), so leases and queue entries are      *)
(* indexed by it.  TTLs and queue deadlines are counted down by Tick; no   *)
(* heartbeat is ever sure to come.                                         *)
(***************************************************************************)
EXTENDS Naturals, FiniteSets

CONSTANTS
  Req,       \* request identities
  Proc,      \* server processes
  Request,   \* the fields of each request that admission reads
  NoReq,     \* the parent of a request that is not nested
  Limit,     \* the policy's limit of each pool
  Ttl,       \* ticks a lease lives without a heartbeat
  Patience   \* ticks until a waiting request's queue_deadline

WorkspacePools == {"workspace_write", "workspace_read"}
NamedPools     == {"browser_live_verification", "docker_rebuild",
                   "full_acceptance", "database_maintenance"}
Pool == {"global_standard", "global_heavy"} \cup WorkspacePools \cup NamedPools

ResourceRequest ==
  [category : {"lightweight", "standard", "heavy"},
   priority : 0..2,                  \* urgent, normal, background
   mode : {"read", "write"},
   workspace : {"ws1", "ws2"},
   host : Proc,
   pools : SUBSET NamedPools,
   parent : Req \cup {NoReq}]

Nested(r)    == Request[r].parent # NoReq
Parent(r)    == Request[r].parent
Mode(r)      == Request[r].mode
Workspace(r) == Request[r].workspace
Host(r)      == Request[r].host

\* A nested call runs in the process of its parent and names its workspace; the
\* parent is not nested itself.  workspace_write is bounded to 1 by the policy.
ASSUME GovernorAssumption ==
  /\ IsFiniteSet(Req) /\ NoReq \notin Req
  /\ Request \in [Req -> ResourceRequest]
  /\ Limit \in [Pool -> Nat \ {0}]
  /\ Limit["workspace_write"] = 1
  /\ Ttl \in Nat \ {0} /\ Patience \in Nat \ {0}
  /\ \A r \in Req : Nested(r) =>
       /\ ~Nested(Parent(r)) /\ Host(Parent(r)) = Host(r)
       /\ Workspace(Parent(r)) = Workspace(r)

VARIABLES
  up,       \* live processes
  leased,   \* state.leases, as the requests that hold one
  left,     \* ticks until expires_at, of the lease in the file and of the copy
            \* that its body holds
  queued,   \* state.queue, as the requests that are in it
  rank,     \* their order of arrival (queued_at), 1 is the oldest
  due,      \* ticks until the queue_deadline of each entry
  wait,     \* ticks until the deadline that each caller has set itself
  pc        \* where each caller is

vars == <<up, leased, left, queued, rank, due, wait, pc>>

\* detached: the call was aborted, but the work it started has not returned
\* yet; failed: the call has thrown because it did not get the state lock.
CallerState == {"idle", "waiting", "running", "covered", "detached", "failed"}

TypeOK ==
  /\ up \in SUBSET Proc
  /\ leased \in SUBSET Req
  /\ left \in [Req -> 0..Ttl]
  /\ queued \in SUBSET Req
  /\ rank \in [Req -> Nat]
  /\ due \in [Req -> 0..Patience]
  /\ wait \in [Req -> 0..Patience]
  /\ pc \in [Req -> CallerState]

Init ==
  /\ up = Proc
  /\ leased = {} /\ queued = {}
  /\ left = [r \in Req |-> 0]
  /\ rank = [r \in Req |-> 0]
  /\ due = [r \in Req |-> 0]
  /\ wait = [r \in Req |-> 0]
  /\ pc = [r \in Req |-> "idle"]

-----------------------------------------------------------------------------
(* The pools a request asks for.                                           *)

CategoryPool(r) == CASE Request[r].category = "standard" -> {"global_standard"}
                     [] Request[r].category = "heavy"    -> {"global_heavy"}
                     [] OTHER -> {}

ModePool(r) == IF Mode(r) = "write" THEN "workspace_write" ELSE "workspace_read"

DefaultPools(r) == CategoryPool(r) \cup {ModePool(r)} \cup Request[r].pools

\* A nested request takes a lease only on what its parent does not cover; the
\* workspace is always covered, or the call is refused.
PoolsOf ==
  [r \in Req |-> IF Nested(r)
                   THEN DefaultPools(r) \ (DefaultPools(Parent(r)) \cup WorkspacePools)
                   ELSE DefaultPools(r)]

Pools(r) == PoolsOf[r]

\* Whether a lease of q counts against r in a pool.
Shares(r, q, pool) ==
  /\ pool \in Pools(r) \cap Pools(q)
  /\ pool \in WorkspacePools => Workspace(r) = Workspace(q)

-----------------------------------------------------------------------------
(* What keeps a request waiting, given the leases L and queue Q.           *)

\* Bug: a reader does not look at the writers of its workspace.
ConflictsAsWriter(r, q) ==
  /\ ~Nested(r) /\ Workspace(r) = Workspace(q)
  /\ Mode(r) = "write" /\ Pools(q) \cap WorkspacePools # {}

\* The workspace rule; that a pool of limit one is taken is part of
\* OverCapacity.
ConflictsWithLease(r, q) ==
  /\ ~Nested(r) /\ Workspace(r) = Workspace(q)
  /\ \/ Mode(r) = "write" /\ Pools(q) \cap WorkspacePools # {}
     \/ "workspace_write" \in Pools(q)

Occupants(L, r, pool) == {q \in L : Shares(r, q, pool)}

\* Bug: a pool takes one lease more than its limit.
OverCapacityByOne(r, L) ==
  \E pool \in Pools(r) : Cardinality(Occupants(L, r, pool)) > Limit[pool]

OverCapacity(r, L) ==
  \E pool \in Pools(r) : Cardinality(Occupants(L, r, pool)) >= Limit[pool]

\* Bug: requests of one priority are not told apart once they are queued.
BeforeOrLevel(q, r, Q) == Request[q].priority <= Request[r].priority

\* priorityBefore; a request that is not queued yet counts as arriving now.  Two
\* arrivals do not tie: acquire looks at the host's processes between them.
Before(q, r, Q) ==
  \/ Request[q].priority < Request[r].priority
  \/ /\ Request[q].priority = Request[r].priority
     /\ r \notin Q \/ rank[q] < rank[r]

\* q waits for a pool of limit one that r asks for too.
Competes(q, r) ==
  \E pool \in Pool : Limit[pool] <= 1 /\ Shares(q, r, pool)

AheadInQueue(r, Q) == \E q \in Q \ {r} : Competes(q, r) /\ Before(q, r, Q)

\* Bug: a lease of the process itself is dropped whether or not it has expired.
KeptOfOthers(p) == {r \in leased : IF Host(r) \in up THEN Host(r) # p ELSE left[r] > 0}

\* Reconciliation by process p: a lease is kept while its owner is another
\* living process, or until it expires; a queue entry until its deadline.
KeptLeases(p) == {r \in leased : (Host(r) \in up /\ Host(r) # p) \/ left[r] > 0}

KeptQueue == {r \in queued : due[r] > 0}

\* The arrival order after the queue has become Q; a newcomer is the last.
Reranked(Q) ==
  [r \in Req |->
     IF r \notin Q THEN 0
     ELSE IF r \in queued THEN Cardinality({q \in Q \cap queued : rank[q] <= rank[r]})
     ELSE Cardinality(Q)]

\* The queue becomes Q, the entries of R with the deadline of their callers.
SetQueue(Q, R) ==
  /\ queued' = Q /\ rank' = Reranked(Q)
  /\ due' = [r \in Req |-> IF r \in R \cap Q THEN wait[r]
                           ELSE IF r \in Q THEN due[r] ELSE 0]

\* The leases become L, those of R with a full TTL.
SetLeases(L, R) ==
  /\ leased' = L
  /\ left' = [r \in Req |-> IF r \in R \cap L THEN Ttl ELSE left[r]]

\* The lease of r is taken out of the file, and the caller drops its copy.
Unlease(r) ==
  /\ leased' = leased \ {r}
  /\ left' = [left EXCEPT ![r] = 0]

-----------------------------------------------------------------------------
(* waitForGrant                                                            *)

\* runWithLease starts: a nested call needs its parent's lease to be active
\* and may not write under a reader; when its parent covers every pool it runs
\* at once, otherwise it waits for a grant.
ParentActive(r) ==
  /\ pc[Parent(r)] = "running"
  /\ Parent(r) \in KeptLeases(Host(r))
  /\ Mode(r) = "write" => Mode(Parent(r)) = "write"

Ended(r) == pc[r] \in {"idle", "failed"}

Begin(r) ==
  /\ Ended(r) /\ Host(r) \in up
  /\ Nested(r) => ParentActive(r)
  /\ pc' = [pc EXCEPT ![r] = IF Pools(r) = {} THEN "covered" ELSE "waiting"]
  /\ wait' = [wait EXCEPT ![r] = IF Pools(r) = {} THEN 0 ELSE Patience]
  /\ UNCHANGED <<up, leased, left, queued, rank, due>>

Blocked(r, L, Q) ==
  \/ \E q \in L : ConflictsWithLease(r, q)
  \/ OverCapacity(r, L)
  \/ AheadInQueue(r, Q)

\* acquire admits the request: its lease is there already, when an earlier call
\* could not release it, or nothing stands against a new one.
Grant(r) ==
  LET L == KeptLeases(Host(r))  Q == KeptQueue
  IN  /\ pc[r] = "waiting" /\ Host(r) \in up
      /\ r \in L \/ ~Blocked(r, L, Q)
      /\ SetLeases(L \cup {r}, {r})
      /\ SetQueue(Q \ {r}, {})
      /\ pc' = [pc EXCEPT ![r] = "running"]
      /\ wait' = [wait EXCEPT ![r] = 0]
      /\ UNCHANGED up

\* acquire queues it, with the deadline of its caller; heavy work may also be
\* held back by the host's load.
Enqueue(r) ==
  LET L == KeptLeases(Host(r))  Q == KeptQueue
  IN  /\ pc[r] = "waiting" /\ Host(r) \in up
      /\ r \notin L
      /\ Blocked(r, L, Q) \/ Request[r].category = "heavy"
      /\ SetLeases(L, {})
      /\ SetQueue(Q \cup {r}, {r})
      /\ UNCHANGED <<up, wait, pc>>

\* Bug: the caller gives up without taking its entry out of the queue.
GiveUpKeepsEntry(r) ==
  /\ pc[r] = "waiting" /\ Host(r) \in up
  /\ pc' = [pc EXCEPT ![r] = "idle"]
  /\ wait' = [wait EXCEPT ![r] = 0]
  /\ UNCHANGED <<up, leased, left, queued, rank, due>>

\* The caller's signal aborts, onQueued throws, or the deadline has passed:
\* removeQueuedRequest, then an error.
GiveUp(r) ==
  /\ pc[r] = "waiting" /\ Host(r) \in up
  /\ SetQueue(queued \ {r}, {})
  /\ pc' = [pc EXCEPT ![r] = "idle"]
  /\ wait' = [wait EXCEPT ![r] = 0]
  /\ UNCHANGED <<up, leased, left>>

\* acquire or removeQueuedRequest does not get the state lock in time and
\* throws: the call is over, and what it has in the queue stays there.
LockTimeout(r) ==
  /\ pc[r] = "waiting" /\ Host(r) \in up
  /\ pc' = [pc EXCEPT ![r] = "failed"]
  /\ UNCHANGED <<up, leased, left, queued, rank, due, wait>>

-----------------------------------------------------------------------------
(* The body of runWithLease                                                *)

\* Bug: a heartbeat adds to what is left of the lease.
HeartbeatExtends(r) ==
  LET L == KeptLeases(Host(r))
  IN  /\ pc[r] = "running" /\ Host(r) \in up
      /\ leased' = L
      /\ left' = [left EXCEPT ![r] = IF r \in L THEN @ + Ttl ELSE @]
      /\ SetQueue(KeptQueue, {})
      /\ UNCHANGED <<up, wait, pc>>

\* The timer's heartbeat; it reconciles first, and a lease that is gone is
\* not noticed.  One that throws is swallowed, a stutter.
Heartbeat(r) ==
  /\ pc[r] = "running" /\ Host(r) \in up
  /\ SetLeases(KeptLeases(Host(r)), {r})
  /\ SetQueue(KeptQueue, {})
  /\ UNCHANGED <<up, wait, pc>>

\* No nested call of r is still to return.
Returned(r) == \A n \in Req : Parent(n) = r => Ended(n)

\* Bug: a covered call releases the lease it was given.
FinishReleasesCover(r) ==
  /\ pc[r] \in {"running", "covered"} /\ Host(r) \in up
  /\ Returned(r)
  /\ leased' = leased \ {r, Parent(r)}
  /\ left' = [left EXCEPT ![r] = 0]
  /\ pc' = [pc EXCEPT ![r] = "idle"]
  /\ UNCHANGED <<up, queued, rank, due, wait>>

\* fn returns and a lease of its own is released, without reconciliation.
Finish(r) ==
  /\ pc[r] \in {"running", "covered"} /\ Host(r) \in up
  /\ Returned(r)
  /\ IF pc[r] = "running" THEN Unlease(r) ELSE UNCHANGED <<leased, left>>
  /\ pc' = [pc EXCEPT ![r] = "idle"]
  /\ UNCHANGED <<up, queued, rank, due, wait>>

\* fn has returned, but the release does not get the state lock: the call
\* throws, and its lease stays until it expires.
FinishFails(r) ==
  /\ pc[r] = "running" /\ Host(r) \in up
  /\ Returned(r)
  /\ pc' = [pc EXCEPT ![r] = "failed"]
  /\ UNCHANGED <<up, leased, left, queued, rank, due, wait>>

\* The signal aborts while fn runs: the lease is released at once, whether or
\* not fn has returned, or stays when the lock cannot be had.
Abort(r) ==
  /\ pc[r] = "running" /\ Host(r) \in up
  /\ Unlease(r) \/ UNCHANGED <<leased, left>>
  /\ pc' = [pc EXCEPT ![r] = "detached"]
  /\ UNCHANGED <<up, queued, rank, due, wait>>

\* The work of an aborted call returns after all.
Settle(r) ==
  /\ pc[r] = "detached" /\ Host(r) \in up
  /\ Returned(r)
  /\ pc' = [pc EXCEPT ![r] = "idle"]
  /\ UNCHANGED <<up, leased, left, queued, rank, due, wait>>

-----------------------------------------------------------------------------
(* The rest of the system                                                  *)

\* cancelQueuedRun, from any process.  The waiting caller queues again unless
\* it gives up.
CancelQueuedRun(r) ==
  /\ r \in queued
  /\ SetQueue(queued \ {r}, {})
  /\ UNCHANGED <<up, leased, left, wait, pc>>

\* releaseTaskResources, for a job whose owner process is gone.
ReleaseTaskResources(r) ==
  /\ Host(r) \notin up
  /\ r \in leased \cup queued
  /\ Unlease(r)
  /\ SetQueue(queued \ {r}, {})
  /\ UNCHANGED <<up, wait, pc>>

\* status, which reconciles and saves.
Status(p) ==
  /\ p \in up
  /\ SetLeases(KeptLeases(p), {})
  /\ SetQueue(KeptQueue, {})
  /\ UNCHANGED <<up, wait, pc>>

Crash(p) ==
  /\ p \in up
  /\ up' = up \ {p}
  /\ UNCHANGED <<leased, left, queued, rank, due, wait, pc>>

\* Time passes, also for a lease whose heartbeats fail or come late.
Tick ==
  /\ left' = [r \in Req |-> IF left[r] > 0 THEN left[r] - 1 ELSE 0]
  /\ due' = [r \in Req |-> IF due[r] > 0 THEN due[r] - 1 ELSE 0]
  /\ wait' = [r \in Req |-> IF wait[r] > 0 THEN wait[r] - 1 ELSE 0]
  /\ UNCHANGED <<up, leased, queued, rank, pc>>

CallerStep(r) ==
  \/ Begin(r) \/ Grant(r) \/ Enqueue(r) \/ GiveUp(r) \/ LockTimeout(r)
  \/ Heartbeat(r) \/ Finish(r) \/ FinishFails(r) \/ Abort(r) \/ Settle(r)

Next ==
  \/ \E r \in Req : CallerStep(r) \/ CancelQueuedRun(r) \/ ReleaseTaskResources(r)
  \/ \E p \in Proc : Status(p) \/ Crash(p)
  \/ Tick

Spec == Init /\ [][Next]_vars

-----------------------------------------------------------------------------
\* No pool is ever occupied beyond its limit: a workspace pool by the leases
\* of one workspace, every other pool by all leases.
PoolLimits ==
  \A r \in leased : \A pool \in Pools(r) :
    Cardinality(Occupants(leased, r, pool)) <= Limit[pool]

\* In one workspace a write lease excludes every other workspace lease.
WriterExclusion ==
  \A q, r \in leased :
    /\ "workspace_write" \in Pools(q) /\ Pools(r) \cap WorkspacePools # {}
    /\ Workspace(q) = Workspace(r)
    => q = r

\* A body in a live process loses the lease it runs under, its own or the one
\* that covers it, only by letting a whole TTL pass without a heartbeat: as long
\* as the copy of the lease in its hands has not expired, the file has it too,
\* whatever reconciles, retries, fails and dies around it.
RunningIsLeased ==
  \A r \in Req : Host(r) \in up =>
    /\ pc[r] = "running" /\ left[r] > 0 => r \in leased
    /\ pc[r] = "covered" /\ pc[Parent(r)] # "detached" /\ left[Parent(r)] > 0
         => Parent(r) \in leased

\* The work itself, and not only the state file: while one call writes in a
\* workspace no other is at work there, unless the lease that one of them works
\* under, its own or its parent's, has expired or its call was aborted (after
\* either the code lets the work go on).
Root(r)    == IF Nested(r) THEN Parent(r) ELSE r
AtWork(r)  == Host(r) \in up /\ pc[r] \in {"running", "covered"}
Secured(r) == pc[Root(r)] = "running" /\ left[Root(r)] > 0

WorkExclusion ==
  \A q, r \in Req :
    /\ AtWork(q) /\ AtWork(r)
    /\ Mode(q) = "write" /\ Workspace(q) = Workspace(r) /\ Root(q) # Root(r)
    => ~Secured(q) \/ ~Secured(r)

\* A queue entry of a live process belongs to a caller that is waiting, or to
\* one whose call has thrown because it did not get the state lock; it is never
\* left by a call that ended otherwise.  In both cases the entry lapses no later
\* than the deadline its caller had set: a caller that is gone holds nobody back
\* for longer than it would have waited.
NoPhantomWaiter ==
  \A r \in queued : Host(r) \in up =>
    /\ pc[r] \in {"waiting", "failed"} /\ r \notin leased
    /\ due[r] <= wait[r]

\* The queue alone never stops everybody: when no lease is held, some entry of
\* it is not held back by the others (host load aside).  Its caller may be gone;
\* then the entry lapses at the deadline that NoPhantomWaiter speaks of.
QueueHeadAdmissible ==
  leased = {} /\ queued # {} => \E r \in queued : ~Blocked(r, {}, queued)
=============================================================================
