----------------------- MODULE ResourceGovernorProofs -----------------------
(***************************************************************************)
(* What the resource governor promises, for any set of requests, any       *)
(* policy limits, any number of server processes and any timing.           *)
(***************************************************************************)
EXTENDS ResourceGovernor, FiniteSetTheorems, WellFoundedInduction, TLAPS

\* What relates the callers to the state file: in a live process a body whose
\* lease has not run out is in the file, a queue entry belongs to a caller that
\* waits or has failed and lapses before its deadline, a covered call has its
\* parent above it, and no call writes under a parent that reads.
CallerInv(r) ==
  /\ Nested(r) /\ pc[r] # "idle" /\ Mode(r) = "write" => Mode(Parent(r)) = "write"
  /\ pc[r] = "waiting" => Pools(r) # {}
  /\ Host(r) \in up =>
       /\ pc[r] = "running" /\ left[r] > 0 => r \in leased
       /\ r \in queued => /\ pc[r] \in {"waiting", "failed"} /\ r \notin leased
                          /\ due[r] <= wait[r] /\ Pools(r) # {}
       /\ pc[r] = "covered" => Nested(r) /\ pc[Parent(r)] \in {"running", "detached"}

IInv ==
  /\ TypeOK
  /\ WriterExclusion
  /\ PoolLimits
  /\ \A r \in Req : CallerInv(r)

-----------------------------------------------------------------------------
(* The pools of a request.                                                 *)

\* Every request asks for pools of the policy only.
LEMMA PoolsAreDefined ==
  ASSUME NEW r \in Req
  PROVE  Pools(r) \in SUBSET Pool
<1>1. \A q \in Req : DefaultPools(q) \in SUBSET Pool
  BY GovernorAssumption DEF GovernorAssumption, DefaultPools, CategoryPool, ModePool,
     Pool, ResourceRequest, WorkspacePools
<1>2. Nested(r) => Parent(r) \in Req
  BY GovernorAssumption DEF GovernorAssumption, Nested, Parent, ResourceRequest
<1> QED BY <1>1, <1>2 DEF Pools, PoolsOf

\* Only a write takes workspace_write, and a nested call takes no workspace pool.
LEMMA WritersWrite ==
  ASSUME NEW r \in Req
  PROVE  /\ "workspace_write" \in Pools(r) => Mode(r) = "write"
         /\ Pools(r) \cap WorkspacePools # {} => ~Nested(r)
<1>1. "workspace_write" \in DefaultPools(r) => Mode(r) = "write"
  BY GovernorAssumption DEF GovernorAssumption, DefaultPools, CategoryPool, ModePool,
     ResourceRequest, NamedPools
<1>2. CASE Nested(r)
  BY <1>2 DEF Pools, PoolsOf, WorkspacePools
<1>3. CASE ~Nested(r)
  BY <1>1, <1>3 DEF Pools, PoolsOf
<1> QED BY <1>2, <1>3

\* The leases that count in a pool are a finite set, and count no more when
\* there are fewer leases.
LEMMA OccupantsShrink ==
  ASSUME NEW L \in SUBSET Req, NEW M \in SUBSET L, NEW r \in Req, NEW pool
  PROVE  /\ IsFiniteSet(Occupants(L, r, pool))
         /\ Cardinality(Occupants(L, r, pool)) \in Nat
         /\ Cardinality(Occupants(M, r, pool)) \in Nat
         /\ Cardinality(Occupants(M, r, pool)) <= Cardinality(Occupants(L, r, pool))
<1>1. Occupants(L, r, pool) \subseteq Req /\ Occupants(M, r, pool) \subseteq Occupants(L, r, pool)
  BY DEF Occupants
<1>2. IsFiniteSet(Occupants(L, r, pool))
  BY <1>1, FS_Subset, GovernorAssumption DEF GovernorAssumption
<1>3. IsFiniteSet(Occupants(M, r, pool))
  BY <1>1, <1>2, FS_Subset
<1> QED BY <1>1, <1>2, <1>3, FS_Subset, FS_CardinalityType

\* Renumbering the queue yields numbers.
LEMMA RerankedIsNat ==
  ASSUME NEW Q \in SUBSET Req
  PROVE  Reranked(Q) \in [Req -> Nat]
<1>1. \A S : S \in SUBSET Req => Cardinality(S) \in Nat
  BY FS_Subset, FS_CardinalityType, GovernorAssumption DEF GovernorAssumption
<1>2. ASSUME NEW r \in Req
      PROVE  {q \in Q \cap queued : rank[q] <= rank[r]} \in SUBSET Req
  OBVIOUS
<1> QED BY <1>1, <1>2 DEF Reranked

\* Reconciliation only takes leases and entries away.
LEMMA KeptAreOld ==
  ASSUME NEW p
  PROVE  KeptLeases(p) \subseteq leased /\ KeptQueue \subseteq queued
BY DEF KeptLeases, KeptQueue

-----------------------------------------------------------------------------
(* Types.                                                                  *)

LEMMA TypeStep == TypeOK /\ [Next]_vars => TypeOK'
<1> SUFFICES ASSUME TypeOK, [Next]_vars PROVE TypeOK'
  OBVIOUS
<1> USE DEF TypeOK, CallerState
<1>a. /\ Ttl \in Nat /\ Ttl > 0 /\ Patience \in Nat /\ Patience > 0
      /\ \A r \in Req : Host(r) \in Proc
  BY GovernorAssumption DEF GovernorAssumption, Host, ResourceRequest
<1>b. ASSUME NEW Q \in SUBSET Req, NEW R, SetQueue(Q, R)
      PROVE  /\ queued' \in SUBSET Req /\ rank' \in [Req -> Nat]
             /\ due' \in [Req -> 0..Patience]
  BY <1>b, <1>a, RerankedIsNat DEF SetQueue
<1>c. ASSUME NEW L \in SUBSET Req, NEW R, SetLeases(L, R)
      PROVE  leased' \in SUBSET Req /\ left' \in [Req -> 0..Ttl]
  BY <1>c, <1>a DEF SetLeases
<1>d. /\ \A p : KeptLeases(p) \in SUBSET Req
      /\ KeptQueue \in SUBSET Req
  BY KeptAreOld
<1>e. ASSUME NEW r \in Req, Unlease(r)
      PROVE  leased' \in SUBSET Req /\ left' \in [Req -> 0..Ttl]
  BY <1>e, <1>a DEF Unlease
<1>1. ASSUME NEW r \in Req, Begin(r) PROVE TypeOK'
  BY <1>1, <1>a DEF Begin
<1>2. ASSUME NEW r \in Req, Grant(r) PROVE TypeOK'
  <2> DEFINE L == KeptLeases(Host(r))
             Q == KeptQueue
  <2>1. /\ SetLeases(L \cup {r}, {r}) /\ SetQueue(Q \ {r}, {}) /\ up' = up
        /\ pc' = [pc EXCEPT ![r] = "running"] /\ wait' = [wait EXCEPT ![r] = 0]
    BY <1>2 DEF Grant
  <2>2. L \cup {r} \in SUBSET Req /\ Q \ {r} \in SUBSET Req
    BY <1>d
  <2> HIDE DEF L, Q
  <2>3. /\ queued' \in SUBSET Req /\ rank' \in [Req -> Nat]
        /\ due' \in [Req -> 0..Patience]
    BY <2>1, <2>2, <1>b
  <2>4. leased' \in SUBSET Req /\ left' \in [Req -> 0..Ttl]
    BY <2>1, <2>2, <1>c
  <2>5. wait' \in [Req -> 0..Patience] /\ pc' \in [Req -> CallerState]
    BY <2>1, <1>a
  <2> QED BY <2>1, <2>3, <2>4, <2>5
<1>3. ASSUME NEW r \in Req, Enqueue(r) PROVE TypeOK'
  <2> DEFINE L == KeptLeases(Host(r))
             Q == KeptQueue
  <2>1. /\ SetLeases(L, {}) /\ SetQueue(Q \cup {r}, {r}) /\ UNCHANGED <<up, wait, pc>>
    BY <1>3 DEF Enqueue
  <2>2. L \in SUBSET Req /\ Q \cup {r} \in SUBSET Req
    BY <1>d
  <2> HIDE DEF L, Q
  <2> QED BY <2>1, <2>2, <1>b, <1>c
<1>4. ASSUME NEW r \in Req, GiveUp(r) PROVE TypeOK'
  <2>1. /\ queued' \in SUBSET Req /\ rank' \in [Req -> Nat]
        /\ due' \in [Req -> 0..Patience]
    BY <1>4, <1>b DEF GiveUp
  <2>2. wait' \in [Req -> 0..Patience] /\ pc' \in [Req -> CallerState]
    BY <1>4, <1>a DEF GiveUp
  <2>3. up' = up /\ leased' = leased /\ left' = left
    BY <1>4 DEF GiveUp
  <2> QED BY <2>1, <2>2, <2>3
<1>5. ASSUME NEW r \in Req, Heartbeat(r) PROVE TypeOK'
  BY <1>5, <1>b, <1>c, <1>d DEF Heartbeat
<1>6. ASSUME NEW r \in Req, Finish(r) PROVE TypeOK'
  <2>1. leased' \in SUBSET Req /\ left' \in [Req -> 0..Ttl]
    BY <1>6, <1>e DEF Finish
  <2> QED BY <1>6, <2>1 DEF Finish
<1>7. ASSUME NEW r \in Req, Abort(r) PROVE TypeOK'
  <2>1. leased' \in SUBSET Req /\ left' \in [Req -> 0..Ttl]
    BY <1>7, <1>e DEF Abort
  <2> QED BY <1>7, <2>1 DEF Abort
<1>8. ASSUME NEW r \in Req, CancelQueuedRun(r) PROVE TypeOK'
  <2>1. /\ queued' \in SUBSET Req /\ rank' \in [Req -> Nat]
        /\ due' \in [Req -> 0..Patience]
    BY <1>8, <1>b DEF CancelQueuedRun
  <2> QED BY <1>8, <2>1 DEF CancelQueuedRun
<1>9. ASSUME NEW r \in Req, ReleaseTaskResources(r) PROVE TypeOK'
  <2>1. /\ queued' \in SUBSET Req /\ rank' \in [Req -> Nat]
        /\ due' \in [Req -> 0..Patience]
    BY <1>9, <1>b DEF ReleaseTaskResources
  <2>2. leased' \in SUBSET Req /\ left' \in [Req -> 0..Ttl]
    BY <1>9, <1>e DEF ReleaseTaskResources
  <2> QED BY <1>9, <2>1, <2>2 DEF ReleaseTaskResources
<1>10. ASSUME NEW p \in Proc, Status(p) PROVE TypeOK'
  BY <1>10, <1>b, <1>c, <1>d DEF Status
<1>11. ASSUME NEW p \in Proc, Crash(p) PROVE TypeOK'
  BY <1>11 DEF Crash
<1>12. CASE Tick
  <2>1. left' \in [Req -> 0..Ttl]
    BY <1>12, <1>a DEF Tick
  <2>2. wait' \in [Req -> 0..Patience] /\ due' \in [Req -> 0..Patience]
    BY <1>12, <1>a DEF Tick
  <2> QED BY <1>12, <2>1, <2>2 DEF Tick
<1>13. ASSUME NEW r \in Req, LockTimeout(r) PROVE TypeOK'
  BY <1>13 DEF LockTimeout
<1>14. ASSUME NEW r \in Req, FinishFails(r) PROVE TypeOK'
  BY <1>14 DEF FinishFails
<1>15. ASSUME NEW r \in Req, Settle(r) PROVE TypeOK'
  BY <1>15 DEF Settle
<1>16. CASE UNCHANGED vars
  BY <1>16 DEF vars
<1> QED BY <1>1, <1>2, <1>3, <1>4, <1>5, <1>6, <1>7, <1>8, <1>9, <1>10, <1>11,
           <1>12, <1>13, <1>14, <1>15, <1>16 DEF Next, CallerStep

-----------------------------------------------------------------------------
(* The leases: every step but a grant leaves a subset of them, and a grant *)
(* adds one request that nothing blocked.                                  *)

LEMMA LeaseSteps ==
  ASSUME TypeOK, [Next]_vars
  PROVE  \/ leased' \subseteq leased
         \/ \E r \in Req, L \in SUBSET leased :
              leased' = L \cup {r} /\ ~Blocked(r, L, KeptQueue)
<1> USE KeptAreOld
<1>1. ASSUME NEW r \in Req, Begin(r) PROVE leased' = leased
  BY <1>1 DEF Begin
<1>2. ASSUME NEW r \in Req, Enqueue(r) PROVE leased' \subseteq leased
  BY <1>2 DEF Enqueue, SetLeases
<1>3. ASSUME NEW r \in Req, GiveUp(r) PROVE leased' = leased
  BY <1>3 DEF GiveUp
<1>4. ASSUME NEW r \in Req, Heartbeat(r) PROVE leased' \subseteq leased
  BY <1>4 DEF Heartbeat, SetLeases
<1>5. ASSUME NEW r \in Req, Finish(r) PROVE leased' \subseteq leased
  BY <1>5 DEF Finish, Unlease
<1>6. ASSUME NEW r \in Req, Abort(r) PROVE leased' \subseteq leased
  BY <1>6 DEF Abort, Unlease
<1>7. ASSUME NEW r \in Req, CancelQueuedRun(r) PROVE leased' = leased
  BY <1>7 DEF CancelQueuedRun
<1>8. ASSUME NEW r \in Req, ReleaseTaskResources(r) PROVE leased' \subseteq leased
  BY <1>8 DEF ReleaseTaskResources, Unlease
<1>9. ASSUME NEW p \in Proc, Status(p) PROVE leased' \subseteq leased
  BY <1>9 DEF Status, SetLeases
<1>10. ASSUME NEW p \in Proc, Crash(p) PROVE leased' = leased
  BY <1>10 DEF Crash
<1>11. CASE Tick
  BY <1>11 DEF Tick
<1>12. CASE UNCHANGED vars
  BY <1>12 DEF vars
<1>13. ASSUME NEW r \in Req, LockTimeout(r) \/ FinishFails(r) \/ Settle(r)
       PROVE  leased' = leased
  BY <1>13 DEF LockTimeout, FinishFails, Settle
<1>14. ASSUME NEW r \in Req, Grant(r)
       PROVE  \/ leased' \subseteq leased
              \/ \E q \in Req, L \in SUBSET leased :
                   leased' = L \cup {q} /\ ~Blocked(q, L, KeptQueue)
  <2>1. KeptLeases(Host(r)) \in SUBSET leased
    OBVIOUS
  <2>2. /\ leased' = KeptLeases(Host(r)) \cup {r}
        /\ r \in KeptLeases(Host(r)) \/ ~Blocked(r, KeptLeases(Host(r)), KeptQueue)
    BY <1>14 DEF Grant, SetLeases
  <2>3. CASE r \in KeptLeases(Host(r))
    BY <2>1, <2>2, <2>3
  <2> QED BY <2>1, <2>2, <2>3
<1> QED BY <1>1, <1>2, <1>3, <1>4, <1>5, <1>6, <1>7, <1>8, <1>9, <1>10, <1>11,
           <1>12, <1>13, <1>14 DEF Next, CallerStep

\* A grant does not break the writer's exclusion.
LEMMA ExclusionStep ==
  TypeOK /\ WriterExclusion /\ [Next]_vars => WriterExclusion'
<1> SUFFICES ASSUME TypeOK, WriterExclusion, [Next]_vars PROVE WriterExclusion'
  OBVIOUS
<1>1. CASE leased' \subseteq leased
  BY <1>1 DEF WriterExclusion
<1>2. ASSUME NEW r \in Req, NEW L \in SUBSET leased,
             leased' = L \cup {r}, ~Blocked(r, L, KeptQueue)
      PROVE  WriterExclusion'
  <2>1. leased' = L \cup {r} /\ ~Blocked(r, L, KeptQueue)
    BY <1>2
  <2>2. \A q \in L : ~ConflictsWithLease(r, q)
    BY <2>1 DEF Blocked
  <2>3. ASSUME NEW q \in leased', NEW s \in leased',
               "workspace_write" \in Pools(q), Pools(s) \cap WorkspacePools # {},
               Workspace(q) = Workspace(s)
        PROVE  q = s
    <3>0. /\ L \subseteq Req /\ q \in L \cup {r} /\ s \in L \cup {r}
          /\ Pools(q) \cap WorkspacePools # {}
      BY <2>1, <2>3 DEF TypeOK, WorkspacePools
    <3>1. CASE q \in L /\ s \in L
      BY <3>1, <2>3 DEF WriterExclusion
    <3>2. CASE q = r /\ s \in L
      <4>1. ~Nested(r) /\ Mode(r) = "write"
        BY <3>0, <3>2, <2>3, WritersWrite
      <4> QED BY <4>1, <3>2, <2>2, <2>3 DEF ConflictsWithLease
    <3>3. CASE s = r /\ q \in L
      <4>1. ~Nested(r)
        BY <3>3, <2>3, WritersWrite
      <4> QED BY <4>1, <3>3, <2>2, <2>3 DEF ConflictsWithLease
    <3> QED BY <3>0, <3>1, <3>2, <3>3
  <2> QED BY <2>3 DEF WriterExclusion
<1> QED BY <1>1, <1>2, LeaseSteps

\* Nor the limit of a pool.
LEMMA LimitStep ==
  TypeOK /\ PoolLimits /\ [Next]_vars => PoolLimits'
<1> SUFFICES ASSUME TypeOK, PoolLimits, [Next]_vars PROVE PoolLimits'
  OBVIOUS
<1>1. ASSUME NEW L \in SUBSET leased, NEW r \in L, NEW pool \in Pools(r)
      PROVE  /\ Cardinality(Occupants(L, r, pool)) \in Nat
             /\ Cardinality(Occupants(L, r, pool)) <= Limit[pool]
  <2>1. leased \in SUBSET Req /\ r \in Req /\ r \in leased
    BY DEF TypeOK
  <2>2. Cardinality(Occupants(leased, r, pool)) <= Limit[pool]
    BY <2>1 DEF PoolLimits
  <2>3. Limit[pool] \in Nat
    BY <2>1, PoolsAreDefined, GovernorAssumption DEF GovernorAssumption
  <2> QED BY <2>1, <2>2, <2>3, OccupantsShrink
<1>2. CASE leased' \subseteq leased
  <2>1. ASSUME NEW r \in leased', NEW pool \in Pools(r)
        PROVE  Cardinality(Occupants(leased', r, pool)) <= Limit[pool]
    BY <1>1, <1>2
  <2> QED BY <2>1 DEF PoolLimits
<1>3. ASSUME NEW r \in Req, NEW L \in SUBSET leased,
             leased' = L \cup {r}, ~Blocked(r, L, KeptQueue)
      PROVE  PoolLimits'
  <2>1. leased' = L \cup {r} /\ ~Blocked(r, L, KeptQueue)
    BY <1>3
  <2>2. L \in SUBSET Req
    BY DEF TypeOK
  <2>3. ASSUME NEW pool \in Pools(r)
        PROVE  Cardinality(Occupants(L \cup {r}, r, pool)) <= Limit[pool]
    <3>1. /\ IsFiniteSet(Occupants(L, r, pool))
          /\ Cardinality(Occupants(L, r, pool)) \in Nat
      BY <2>2, OccupantsShrink
    <3>2. ~(Cardinality(Occupants(L, r, pool)) >= Limit[pool])
      BY <2>1 DEF Blocked, OverCapacity
    <3>3. Limit[pool] \in Nat
      BY PoolsAreDefined, GovernorAssumption DEF GovernorAssumption
    <3>4. Occupants(L \cup {r}, r, pool) = Occupants(L, r, pool) \cup {r}
      BY DEF Occupants, Shares
    <3>5. \/ Cardinality(Occupants(L, r, pool) \cup {r}) = Cardinality(Occupants(L, r, pool)) + 1
          \/ Cardinality(Occupants(L, r, pool) \cup {r}) = Cardinality(Occupants(L, r, pool))
      BY <3>1, FS_AddElement
    <3> DEFINE before == Cardinality(Occupants(L, r, pool))
               after == Cardinality(Occupants(L \cup {r}, r, pool))
    <3>6. before \in Nat /\ ~(before >= Limit[pool]) /\ (after = before + 1 \/ after = before)
      BY <3>1, <3>2, <3>4, <3>5
    <3> HIDE DEF before, after
    <3>7. after <= Limit[pool]
      BY <3>3, <3>6
    <3> QED BY <3>7 DEF after
  <2>4. ASSUME NEW s \in L, NEW pool \in Pools(s)
        PROVE  Cardinality(Occupants(L \cup {r}, s, pool)) <= Limit[pool]
    <3>1. CASE Shares(s, r, pool)
      <4>1. pool \in Pools(r) /\ Occupants(L \cup {r}, s, pool) = Occupants(L \cup {r}, r, pool)
        BY <3>1 DEF Shares, Occupants
      <4> QED BY <4>1, <2>3
    <3>2. CASE ~Shares(s, r, pool)
      <4>1. Occupants(L \cup {r}, s, pool) = Occupants(L, s, pool)
        BY <3>2 DEF Occupants
      <4> QED BY <4>1, <1>1
    <3> QED BY <3>1, <3>2
  <2> QED BY <2>1, <2>3, <2>4 DEF PoolLimits
<1> QED BY <1>2, <1>3, LeaseSteps

-----------------------------------------------------------------------------
(* The callers.                                                            *)

\* Reconciliation by any process keeps a lease that has not run out.
LEMMA FreshIsKept ==
  ASSUME NEW r \in leased, left[r] > 0, NEW p
  PROVE  r \in KeptLeases(p)
BY DEF KeptLeases

\* A caller's own step, or a step of another actor that only takes away what
\* the caller no longer needs, keeps the relation.
LEMMA CallerStepInv ==
  ASSUME TypeOK, TypeOK', \A q \in Req : CallerInv(q), [Next]_vars, NEW s \in Req
  PROVE  CallerInv(s)'
<1>a. /\ Ttl \in Nat /\ Ttl > 0 /\ Patience \in Nat
      /\ Nested(s) => Parent(s) \in Req /\ Host(Parent(s)) = Host(s) /\ ~Nested(Parent(s))
      /\ \A r \in Req : ~Nested(s) => Parent(s) # r
  BY GovernorAssumption DEF GovernorAssumption, Nested, Parent, ResourceRequest
<1> USE DEF TypeOK, CallerInv
<1>b. CallerInv(s) /\ (Nested(s) => CallerInv(Parent(s)))
  BY <1>a
<1>c. \A p : s \in leased /\ left[s] > 0 => s \in KeptLeases(p)
  BY FreshIsKept
<1>d. \A p : KeptLeases(p) \subseteq leased /\ KeptQueue \subseteq queued
  BY KeptAreOld
<1>e. /\ (Host(s) \in up)' = (Host(s) \in up') /\ (Nested(s))' = Nested(s)
      /\ (Parent(s))' = Parent(s) /\ (Pools(s))' = Pools(s)
      /\ (Mode(s))' = Mode(s) /\ (Mode(Parent(s)))' = Mode(Parent(s))
  BY DEF Host, Nested, Parent, Pools, PoolsOf, Mode, DefaultPools, CategoryPool, ModePool,
         WorkspacePools, Workspace
<1>1. ASSUME NEW r \in Req, Begin(r) PROVE CallerInv(s)'
  <2>1. Pools(r) = {} => Nested(r)
    BY DEF Pools, PoolsOf, DefaultPools, ModePool
  <2>2. CASE r = s
    <3>1. /\ pc[s] \in {"idle", "failed"} /\ leased' = leased /\ queued' = queued
          /\ left' = left /\ up' = up /\ due' = due
      BY <1>1, <2>2 DEF Begin, Ended
    <3>2. /\ pc'[s] = IF Pools(s) = {} THEN "covered" ELSE "waiting"
          /\ wait'[s] = IF Pools(s) = {} THEN 0 ELSE Patience
      BY <1>1, <2>2 DEF Begin
    <3>3. Nested(s) => /\ pc[Parent(s)] = "running" /\ pc'[Parent(s)] = pc[Parent(s)]
                       /\ Mode(s) = "write" => Mode(Parent(s)) = "write"
      BY <1>1, <1>a, <2>2 DEF Begin, ParentActive
    <3> QED BY <3>1, <3>2, <3>3, <2>1, <2>2, <1>a, <1>b, <1>e
  <2>3. CASE r # s
    <3>1. /\ leased' = leased /\ queued' = queued /\ left' = left /\ up' = up /\ due' = due
          /\ pc'[s] = pc[s] /\ wait'[s] = wait[s]
      BY <1>1, <2>3 DEF Begin
    <3>2. Nested(s) /\ pc[Parent(s)] \in {"running", "detached"} =>
            pc'[Parent(s)] = pc[Parent(s)]
      BY <1>1, <1>a DEF Begin, Ended
    <3> QED BY <3>1, <3>2, <1>b, <1>e
  <2> QED BY <2>2, <2>3
<1>2. ASSUME NEW r \in Req, Grant(r) PROVE CallerInv(s)'
  <2>1. /\ leased' = KeptLeases(Host(r)) \cup {r} /\ queued' = KeptQueue \ {r} /\ up' = up
        /\ left' = [q \in Req |-> IF q = r THEN Ttl ELSE left[q]]
        /\ due' = [q \in Req |-> IF q \in queued' THEN due[q] ELSE 0]
        /\ pc[r] = "waiting" /\ pc' = [pc EXCEPT ![r] = "running"]
        /\ wait' = [wait EXCEPT ![r] = 0]
    BY <1>2 DEF Grant, SetLeases, SetQueue
  <2> QED BY <2>1, <1>a, <1>b, <1>c, <1>d, <1>e
<1>3. ASSUME NEW r \in Req, Enqueue(r) PROVE CallerInv(s)'
  <2>1. /\ leased' = KeptLeases(Host(r)) /\ queued' = KeptQueue \cup {r}
        /\ r \notin KeptLeases(Host(r)) /\ left' = [q \in Req |-> left[q]]
        /\ due' = [q \in Req |-> IF q = r THEN wait[q]
                                 ELSE IF q \in queued' THEN due[q] ELSE 0]
        /\ pc[r] = "waiting" /\ UNCHANGED <<up, wait, pc>>
    BY <1>3 DEF Enqueue, SetLeases, SetQueue
  <2> QED BY <2>1, <1>a, <1>b, <1>c, <1>d, <1>e
<1>4. ASSUME NEW r \in Req, GiveUp(r) PROVE CallerInv(s)'
  <2>1. /\ queued' = queued \ {r} /\ UNCHANGED <<up, leased, left>>
        /\ due' = [q \in Req |-> IF q \in queued' THEN due[q] ELSE 0]
        /\ pc[r] = "waiting" /\ pc' = [pc EXCEPT ![r] = "idle"]
        /\ wait' = [wait EXCEPT ![r] = 0]
    BY <1>4 DEF GiveUp, SetQueue
  <2> QED BY <2>1, <1>a, <1>b, <1>e
<1>5. ASSUME NEW r \in Req, Heartbeat(r) PROVE CallerInv(s)'
  <2>1. /\ leased' = KeptLeases(Host(r)) /\ queued' = KeptQueue
        /\ left' = [q \in Req |-> IF q = r /\ r \in leased' THEN Ttl ELSE left[q]]
        /\ due' = [q \in Req |-> IF q \in queued' THEN due[q] ELSE 0]
        /\ pc[r] = "running" /\ UNCHANGED <<up, wait, pc>>
    BY <1>5 DEF Heartbeat, SetLeases, SetQueue
  <2> QED BY <2>1, <1>a, <1>b, <1>c, <1>d, <1>e
<1>6. ASSUME NEW r \in Req, Finish(r) \/ FinishFails(r) \/ Settle(r) PROVE CallerInv(s)'
  <2>1. /\ leased' \in {leased, leased \ {r}} /\ UNCHANGED <<up, queued, due, wait>>
        /\ left' \in {left, [left EXCEPT ![r] = 0]}
        /\ pc[r] \in {"running", "covered", "detached"} /\ Host(r) \in up
        /\ pc' \in {[pc EXCEPT ![r] = "idle"], [pc EXCEPT ![r] = "failed"]}
    BY <1>6 DEF Finish, FinishFails, Settle, Unlease
  <2>2. \A n \in Req : Parent(n) = r => pc[n] \in {"idle", "failed"}
    BY <1>6 DEF Finish, FinishFails, Settle, Returned, Ended
  <2>3. CASE r = s
    BY <2>1, <2>3, <1>a, <1>b, <1>e
  <2>4. CASE r # s
    <3>1. /\ pc'[s] = pc[s] /\ left'[s] = left[s] /\ (s \in leased' <=> s \in leased)
          /\ due'[s] = due[s] /\ wait'[s] = wait[s] /\ up' = up /\ queued' = queued
      BY <2>1, <2>4
    <3>2. Nested(s) /\ pc[s] = "covered" => pc'[Parent(s)] = pc[Parent(s)]
      BY <2>1, <2>2, <1>a
    <3> QED BY <3>1, <3>2, <1>b, <1>e
  <2> QED BY <2>3, <2>4
<1>7. ASSUME NEW r \in Req, Abort(r) PROVE CallerInv(s)'
  <2>1. /\ leased' \in {leased, leased \ {r}} /\ UNCHANGED <<up, queued, due, wait>>
        /\ left' \in {left, [left EXCEPT ![r] = 0]}
        /\ pc[r] = "running" /\ Host(r) \in up /\ pc' = [pc EXCEPT ![r] = "detached"]
    BY <1>7 DEF Abort, Unlease
  <2> QED BY <2>1, <1>a, <1>b, <1>e
<1>8. ASSUME NEW r \in Req, CancelQueuedRun(r) PROVE CallerInv(s)'
  <2>1. /\ queued' = queued \ {r} /\ UNCHANGED <<up, leased, left, wait, pc>>
        /\ due' = [q \in Req |-> IF q \in queued' THEN due[q] ELSE 0]
    BY <1>8 DEF CancelQueuedRun, SetQueue
  <2> QED BY <2>1, <1>b, <1>e
<1>9. ASSUME NEW r \in Req, ReleaseTaskResources(r) PROVE CallerInv(s)'
  <2>1. /\ queued' = queued \ {r} /\ UNCHANGED <<up, wait, pc>>
        /\ leased' = leased \ {r} /\ left' = [left EXCEPT ![r] = 0]
        /\ due' = [q \in Req |-> IF q \in queued' THEN due[q] ELSE 0]
        /\ Host(r) \notin up
    BY <1>9 DEF ReleaseTaskResources, SetQueue, Unlease
  <2> QED BY <2>1, <1>b, <1>e
<1>10. ASSUME NEW p \in Proc, Status(p) PROVE CallerInv(s)'
  <2>1. /\ leased' = KeptLeases(p) /\ queued' = KeptQueue
        /\ left' = [q \in Req |-> left[q]]
        /\ due' = [q \in Req |-> IF q \in queued' THEN due[q] ELSE 0]
        /\ UNCHANGED <<up, wait, pc>>
    BY <1>10 DEF Status, SetLeases, SetQueue
  <2> QED BY <2>1, <1>b, <1>c, <1>d, <1>e
<1>11. ASSUME NEW p \in Proc, Crash(p) PROVE CallerInv(s)'
  <2>1. up' \subseteq up /\ UNCHANGED <<leased, left, queued, due, wait, pc>>
    BY <1>11 DEF Crash
  <2> QED BY <2>1, <1>b, <1>e
<1>12. CASE Tick
  <2>1. /\ UNCHANGED <<up, leased, queued, pc>>
        /\ left'[s] > 0 => left[s] > 0
        /\ due'[s] = (IF due[s] > 0 THEN due[s] - 1 ELSE 0)
        /\ wait'[s] = (IF wait[s] > 0 THEN wait[s] - 1 ELSE 0)
    BY <1>12 DEF Tick
  <2>2. due[s] \in Nat /\ wait[s] \in Nat
    BY <1>a
  <2>3. due[s] <= wait[s] => due'[s] <= wait'[s]
    BY <2>1, <2>2
  <2> QED BY <2>1, <2>3, <1>b, <1>e
<1>13. ASSUME NEW r \in Req, LockTimeout(r) PROVE CallerInv(s)'
  <2>1. /\ UNCHANGED <<up, leased, left, queued, due, wait>>
        /\ pc[r] = "waiting" /\ pc' = [pc EXCEPT ![r] = "failed"]
    BY <1>13 DEF LockTimeout
  <2> QED BY <2>1, <1>a, <1>b, <1>e
<1>14. CASE UNCHANGED vars
  BY <1>14, <1>b, <1>e DEF vars
<1> QED BY <1>1, <1>2, <1>3, <1>4, <1>5, <1>6, <1>7, <1>8, <1>9, <1>10, <1>11,
           <1>12, <1>13, <1>14 DEF Next, CallerStep

-----------------------------------------------------------------------------
(* The invariant, and what follows from it.                                *)

LEMMA IInvInit == Init => IInv
<1> SUFFICES ASSUME Init PROVE IInv
  OBVIOUS
<1>1. TypeOK
  BY GovernorAssumption DEF GovernorAssumption, Init, TypeOK, CallerState
<1>2. WriterExclusion /\ PoolLimits /\ \A r \in Req : CallerInv(r)
  BY DEF Init, WriterExclusion, PoolLimits, CallerInv
<1> QED BY <1>1, <1>2 DEF IInv

LEMMA IInvNext == IInv /\ [Next]_vars => IInv'
<1> SUFFICES ASSUME IInv, [Next]_vars PROVE IInv'
  OBVIOUS
<1>1. TypeOK'
  BY TypeStep DEF IInv
<1>2. WriterExclusion' /\ PoolLimits'
  BY ExclusionStep, LimitStep DEF IInv
<1>3. \A r \in Req : CallerInv(r)'
  BY <1>1, CallerStepInv DEF IInv
<1> QED BY <1>1, <1>2, <1>3 DEF IInv

LEMMA InvAlways == Spec => []IInv
<1> QED BY IInvInit, IInvNext, PTL DEF Spec

\* Every record stays of its type.
THEOREM TypeCorrect == Spec => []TypeOK
<1>1. IInv => TypeOK
  BY DEF IInv
<1> QED BY <1>1, InvAlways, PTL

\* A write lease of a workspace excludes every other lease of that workspace.
THEOREM WriterExcludes == Spec => []WriterExclusion
<1>1. IInv => WriterExclusion
  BY DEF IInv
<1> QED BY <1>1, InvAlways, PTL

\* No pool holds more leases than the policy allows.
THEOREM LimitsHold == Spec => []PoolLimits
<1>1. IInv => PoolLimits
  BY DEF IInv
<1> QED BY <1>1, InvAlways, PTL

\* The invariant contains it.
LEMMA InvKeepsRunning == IInv => RunningIsLeased
<1> SUFFICES ASSUME IInv, NEW r \in Req, Host(r) \in up
             PROVE  /\ pc[r] = "running" /\ left[r] > 0 => r \in leased
                    /\ pc[r] = "covered" /\ pc[Parent(r)] # "detached" /\ left[Parent(r)] > 0
                         => Parent(r) \in leased
  BY DEF RunningIsLeased
<1>1. CallerInv(r)
  BY DEF IInv
<1>2. Nested(r) => Parent(r) \in Req /\ Host(Parent(r)) = Host(r)
  BY GovernorAssumption DEF GovernorAssumption, Nested, Parent, ResourceRequest
<1>3. Nested(r) => CallerInv(Parent(r))
  BY <1>2 DEF IInv
<1> QED BY <1>1, <1>2, <1>3 DEF CallerInv

\* A body in a live process, or its parent, is in the state file until its
\* lease has run out in its own hands.
THEOREM RunningHoldsLease == Spec => []RunningIsLeased
BY InvKeepsRunning, InvAlways, PTL

\* The call under whose lease r works: it is not nested, is in the file while
\* that lease is good, and asks for the pool of its workspace.
LEMMA SecuredRoot ==
  ASSUME IInv, NEW r \in Req, AtWork(r), Secured(r)
  PROVE  /\ Root(r) \in leased
         /\ Workspace(Root(r)) = Workspace(r)
         /\ Pools(Root(r)) \cap WorkspacePools # {}
         /\ Mode(r) = "write" => "workspace_write" \in Pools(Root(r))
<1>1. /\ Root(r) \in Req /\ ~Nested(Root(r))
      /\ Host(Root(r)) = Host(r) /\ Workspace(Root(r)) = Workspace(r)
  BY GovernorAssumption
     DEF GovernorAssumption, Root, Nested, Parent, ResourceRequest
<1>2. CallerInv(r) /\ CallerInv(Root(r))
  BY <1>1 DEF IInv
<1>3. Root(r) \in leased
  BY <1>1, <1>2 DEF CallerInv, AtWork, Secured
<1>4. Mode(r) = "write" => Mode(Root(r)) = "write"
  BY <1>2 DEF CallerInv, AtWork, Root
<1>5. Pools(Root(r)) = DefaultPools(Root(r))
  BY <1>1 DEF Pools, PoolsOf
<1>6. ModePool(Root(r)) \in Pools(Root(r))
  BY <1>5 DEF DefaultPools
<1>7. /\ ModePool(Root(r)) \in WorkspacePools
      /\ Mode(Root(r)) = "write" => ModePool(Root(r)) = "workspace_write"
  BY DEF ModePool, WorkspacePools
<1> QED BY <1>1, <1>3, <1>4, <1>6, <1>7

\* Two calls are at work in one workspace, one of them writing, only under one
\* lease, after one has expired or after an abort.
THEOREM WorkExcludes == Spec => []WorkExclusion
<1>1. IInv => WorkExclusion
  <2> SUFFICES ASSUME IInv, NEW q \in Req, NEW r \in Req, AtWork(q), AtWork(r),
                      Mode(q) = "write", Workspace(q) = Workspace(r), Secured(q), Secured(r)
               PROVE  Root(q) = Root(r)
    BY DEF WorkExclusion
  <2>1. /\ Root(q) \in leased /\ "workspace_write" \in Pools(Root(q))
        /\ Workspace(Root(q)) = Workspace(q)
    BY SecuredRoot
  <2>2. /\ Root(r) \in leased /\ Pools(Root(r)) \cap WorkspacePools # {}
        /\ Workspace(Root(r)) = Workspace(r)
    BY SecuredRoot
  <2>3. WriterExclusion
    BY DEF IInv
  <2> QED BY <2>1, <2>2, <2>3 DEF WriterExclusion
<1> QED BY <1>1, InvAlways, PTL

\* An entry of a live process belongs to a caller that waits, or to one that
\* has thrown for want of the state lock, and goes by the caller's deadline.
THEOREM NoneWaitsInVain == Spec => []NoPhantomWaiter
<1>1. IInv => NoPhantomWaiter
  BY DEF IInv, TypeOK, NoPhantomWaiter, CallerInv
<1> QED BY <1>1, InvAlways, PTL

-----------------------------------------------------------------------------
(* The head of the queue.                                                  *)

LEMMA LeastNumber ==
  ASSUME NEW T \in SUBSET Nat, T # {}
  PROVE  \E x \in T : \A y \in T : ~(y < x)
<1> DEFINE R == {ss \in Nat \X Nat : ss[1] < ss[2]}
<1>1. IsWellFoundedOn(R, Nat)
  BY NatLessThanWellFounded DEF OpToRel
<1>2. \A a, b \in Nat : <<a, b>> \notin R => ~(a < b)
  OBVIOUS
<1> HIDE DEF R
<1>3. \E x \in T : \A y \in T : <<y, x>> \notin R
  BY <1>1, WFMin
<1> QED BY <1>2, <1>3

\* Some entry of a queue comes before no other: one of the most urgent ones, and of
\* those one that arrived first.
LEMMA HeadOfQueue ==
  ASSUME TypeOK, queued # {}
  PROVE  \E r \in queued : \A q \in queued : ~Before(q, r, queued)
<1>1. /\ \A r \in queued : Request[r].priority \in Nat /\ rank[r] \in Nat
      /\ queued \subseteq Req
  BY GovernorAssumption DEF GovernorAssumption, ResourceRequest, TypeOK
<1> DEFINE P == {Request[r].priority : r \in queued}
<1>2. PICK p \in P : \A y \in P : ~(y < p)
  <2>1. P \subseteq Nat /\ P # {}
    BY <1>1
  <2> QED BY <2>1, LeastNumber
<1> DEFINE Urgent == {r \in queued : Request[r].priority = p}
           K == {rank[r] : r \in Urgent}
<1>3. PICK k \in K : \A y \in K : ~(y < k)
  <2>1. K \subseteq Nat /\ K # {}
    BY <1>1
  <2> QED BY <2>1, LeastNumber
<1>4. PICK r \in Urgent : rank[r] = k
  OBVIOUS
<1>5. ASSUME NEW q \in queued PROVE ~Before(q, r, queued)
  BY <1>2, <1>3, <1>4 DEF Before
<1> QED BY <1>4, <1>5

\* With all leases gone the queue does not hold everybody back: its head is let in,
\* whatever pools, priorities and limits there are.
THEOREM QueueMoves == Spec => []QueueHeadAdmissible
<1>1. TypeOK => QueueHeadAdmissible
  <2> SUFFICES ASSUME TypeOK, queued # {}
               PROVE  \E r \in queued : ~Blocked(r, {}, queued)
    BY DEF QueueHeadAdmissible
  <2>1. PICK r \in queued : \A q \in queued : ~Before(q, r, queued)
    BY HeadOfQueue
  <2>2. ~AheadInQueue(r, queued)
    BY <2>1 DEF AheadInQueue
  <2>3. ~OverCapacity(r, {})
    <3>1. \A pool \in Pool : Limit[pool] \in Nat \ {0}
      BY GovernorAssumption DEF GovernorAssumption
    <3>2. \A pool : Cardinality(Occupants({}, r, pool)) = 0
      BY FS_EmptySet DEF Occupants
    <3>3. Pools(r) \subseteq Pool
      BY PoolsAreDefined DEF TypeOK
    <3> QED BY <3>1, <3>2, <3>3 DEF OverCapacity
  <2> QED BY <2>2, <2>3 DEF Blocked
<1> QED BY <1>1, TypeCorrect, PTL
=============================================================================
