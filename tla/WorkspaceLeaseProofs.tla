------------------------ MODULE WorkspaceLeaseProofs ------------------------
(***************************************************************************)
(* Theorems about the workspace write lease, for any number of runs and    *)
(* processes and any TTL.                                                  *)
(***************************************************************************)
EXTENDS WorkspaceLease, TLAPS

\* What ties the runs to lease.json: tokens are bounded by the counter, a run
\* between Acquire and Release holds a token, a live holder is in lease.json,
\* and a prompted child is named in the lease by its pid until its run lets go.
RunInv(r) ==
  /\ handle[r] <= fencing
  /\ handle[r] # 0 <=> phase[r] \notin {"idle", "done"}
  /\ phase[r] \in {"idle", "acquired"} => child[r] = "none"
  /\ phase[r] = "spawned" => child[r] # "working"
  /\ phase[r] \in {"finishing", "done"} => child[r] = "none" \/ r \in survivors
  /\ Alive(r) /\ handle[r] # 0 => SameLeaseOwner(r)
  /\ Alive(r) /\ phase[r] \in {"recorded", "running"} => lease.managed
  /\ child[r] = "working" /\ ~Abandoned(r) =>
       Published /\ lease.run = r /\ lease.managed

IInv ==
  /\ TypeOK
  /\ Published => lease.fence <= fencing
  /\ \A r \in Run : RunInv(r)

\* What is in lease.json is a lease, and what is not a lease is not there.
LEMMA PublishedIsLease ==
  ASSUME NEW l \in LeaseRecord
  PROVE  l \notin {NoLease, Torn}
BY LeaseAssumption DEF LeaseAssumption

\* A heartbeat turns a lease into a lease: same run, same token, managed kept.
LEMMA RenewedIsLease ==
  ASSUME TypeOK, Published, NEW b \in BOOLEAN
  PROVE  /\ Renewed(b) \in LeaseRecord
         /\ Renewed(b).run = lease.run /\ Renewed(b).fence = lease.fence
         /\ Renewed(b).managed = (lease.managed \/ b)
<1>1. lease \in LeaseRecord
  BY DEF TypeOK, Published
<1>2. QED
  BY <1>1, LeaseAssumption DEF LeaseAssumption, Renewed, LeaseRecord

\* Every step keeps every variable in its type.
LEMMA TypeStep == TypeOK /\ [Next]_vars => TypeOK'
<1> USE LeaseAssumption DEF LeaseAssumption
<1> SUFFICES ASSUME TypeOK, [Next]_vars PROVE TypeOK'
  OBVIOUS
<1> USE DEF TypeOK, LeaseRecord, Phase
<1>1. ASSUME NEW r \in Run, Acquire(r) PROVE TypeOK'
  BY <1>1 DEF Acquire
<1>2. ASSUME NEW r \in Run, CrashInAcquire(r) PROVE TypeOK'
  BY <1>2 DEF CrashInAcquire
<1>3. ASSUME NEW r \in Run, Spawn(r) PROVE TypeOK'
  BY <1>3 DEF Spawn
<1>4. ASSUME NEW r \in Run, RecordChild(r) PROVE TypeOK'
  <2>1. CASE SameLeaseOwner(r)
    BY <1>4, <2>1, RenewedIsLease DEF RecordChild, SameLeaseOwner
  <2>2. CASE ~SameLeaseOwner(r)
    BY <1>4, <2>2 DEF RecordChild
  <2>3. QED
    BY <2>1, <2>2
<1>5. ASSUME NEW r \in Run, SendPrompt(r) PROVE TypeOK'
  BY <1>5 DEF SendPrompt
<1>6. ASSUME NEW r \in Run, Heartbeat(r) PROVE TypeOK'
  BY <1>6, RenewedIsLease DEF Heartbeat, SameLeaseOwner
<1>7. ASSUME NEW r \in Run, Finish(r) PROVE TypeOK'
  BY <1>7 DEF Finish
<1>8. ASSUME NEW r \in Run, Release(r) PROVE TypeOK'
  BY <1>8 DEF Release
<1>9. ASSUME NEW r \in Run, ChildExit(r) PROVE TypeOK'
  BY <1>9 DEF ChildExit
<1>10. ASSUME NEW p \in Proc, Crash(p) PROVE TypeOK'
  BY <1>10 DEF Crash
<1>11. ASSUME Tick PROVE TypeOK'
  BY <1>11 DEF Tick, Published
<1>12. CASE UNCHANGED vars
  BY <1>12 DEF vars
<1>13. QED
  BY <1>1, <1>2, <1>3, <1>4, <1>5, <1>6, <1>7, <1>8, <1>9, <1>10, <1>11, <1>12
     DEF Next, RunStep

\* Type correctness: every variable keeps its type in every reachable state.
THEOREM TypeCorrect == Spec => []TypeOK
<1>1. Init => TypeOK
  BY LeaseAssumption DEF LeaseAssumption, Init, TypeOK, Phase
<1>2. QED
  BY <1>1, TypeStep, PTL DEF Spec

-----------------------------------------------------------------------------
\* The strengthening is inductive.
LEMMA IInvInit == Init => IInv
BY LeaseAssumption DEF LeaseAssumption, Init, IInv, RunInv, TypeOK, Phase, Published,
   Alive, SameLeaseOwner, Abandoned

LEMMA IInvNext == IInv /\ [Next]_vars => IInv'
<1> SUFFICES ASSUME IInv, TypeOK', [Next]_vars PROVE IInv'
  BY TypeStep DEF IInv
<1> USE LeaseAssumption DEF LeaseAssumption
<1> USE DEF IInv, RunInv, TypeOK, Phase, Alive, Published, SameLeaseOwner, Abandoned
<1>1. ASSUME NEW r \in Run, Acquire(r) PROVE IInv'
  <2>1. \A s \in Run : /\ Alive(s) => handle[s] = 0
                       /\ child[s] = "working" => Abandoned(s)
    BY <1>1 DEF Acquire, LeaseActive, OwnerAlive, ManagedAlive
  <2>2. lease' = [run |-> r, fence |-> fencing + 1, managed |-> FALSE, left |-> Ttl]
    BY <1>1 DEF Acquire
  <2>3. lease' \in LeaseRecord /\ lease'.run = r /\ lease'.fence = fencing + 1
    BY <2>2 DEF LeaseRecord
  <2>4. \A s \in Run : s # r =>
          /\ handle'[s] = handle[s] /\ phase'[s] = phase[s] /\ child'[s] = child[s]
    BY <1>1 DEF Acquire
  <2>5. /\ handle'[r] = fencing + 1 /\ phase'[r] = "acquired"
        /\ child'[r] = "none" /\ up' = up /\ survivors' = survivors
        /\ fencing' = fencing + 1
    BY <1>1 DEF Acquire
  <2>6. lease' \notin {NoLease, Torn}
    BY <2>3, PublishedIsLease
  <2>7. RunInv(r)'
    BY <2>3, <2>5, <2>6
  <2>8. ASSUME NEW s \in Run, s # r PROVE RunInv(s)'
    BY <2>1, <2>4, <2>5, <2>8
  <2>9. QED
    BY <2>3, <2>5, <2>7, <2>8
<1>2. ASSUME NEW r \in Run, CrashInAcquire(r) PROVE IInv'
  BY <1>2 DEF CrashInAcquire, LeaseActive, OwnerAlive, ManagedAlive, Expired
<1>3. ASSUME NEW r \in Run, Spawn(r) PROVE IInv'
  BY <1>3 DEF Spawn
<1>4. ASSUME NEW r \in Run, RecordChild(r) PROVE IInv'
  <2>1. SameLeaseOwner(r)
    BY <1>4 DEF RecordChild
  <2>2. lease' = Renewed(TRUE)
    BY <1>4, <2>1 DEF RecordChild
  <2>3. /\ lease' \in LeaseRecord /\ lease'.run = lease.run /\ lease'.fence = lease.fence
        /\ lease'.managed
    BY <2>1, <2>2, RenewedIsLease
  <2>4. /\ phase' = [phase EXCEPT ![r] = "recorded"]
        /\ UNCHANGED <<up, fencing, handle, child, survivors>>
    BY <1>4, <2>1 DEF RecordChild
  <2>5. lease' \notin {NoLease, Torn}
    BY <2>3, PublishedIsLease
  <2>6. RunInv(r)'
    <3>1. /\ phase'[r] = "recorded" /\ handle'[r] = handle[r] /\ child'[r] = child[r]
          /\ phase[r] = "spawned" /\ Alive(r) /\ fencing' = fencing
      BY <1>4, <2>4 DEF RecordChild
    <3>2. SameLeaseOwner(r)'
      BY <2>1, <2>3, <2>5, <3>1
    <3>3. QED
      BY <2>3, <3>1, <3>2
  <2>7. ASSUME NEW s \in Run, s # r PROVE RunInv(s)'
    BY <2>1, <2>3, <2>4, <2>5, <2>7
  <2>8. QED
    BY <2>1, <2>3, <2>4, <2>6, <2>7
<1>5. ASSUME NEW r \in Run, SendPrompt(r) PROVE IInv'
  BY <1>5 DEF SendPrompt
<1>6. ASSUME NEW r \in Run, Heartbeat(r) PROVE IInv'
  <2>1. /\ lease' \in LeaseRecord /\ lease'.run = lease.run
        /\ lease'.fence = lease.fence /\ lease'.managed
    BY <1>6, RenewedIsLease DEF Heartbeat
  <2>2. QED
    BY <1>6, <2>1, PublishedIsLease DEF Heartbeat
<1>7. ASSUME NEW r \in Run, Finish(r) PROVE IInv'
  BY <1>7 DEF Finish
<1>8. ASSUME NEW r \in Run, Release(r) PROVE IInv'
  BY <1>8 DEF Release
<1>9. ASSUME NEW r \in Run, ChildExit(r) PROVE IInv'
  BY <1>9 DEF ChildExit
<1>10. ASSUME NEW p \in Proc, Crash(p) PROVE IInv'
  BY <1>10 DEF Crash
<1>11. ASSUME Tick PROVE IInv'
  BY <1>11, PublishedIsLease DEF Tick, LeaseRecord
<1>12. CASE UNCHANGED vars
  BY <1>12 DEF vars
<1>13. QED
  BY <1>1, <1>2, <1>3, <1>4, <1>5, <1>6, <1>7, <1>8, <1>9, <1>10, <1>11, <1>12
     DEF Next, RunStep

\* The strengthening gives both safety properties.
LEMMA IInvImplies == IInv => OneWriter /\ HolderNeverDisplaced
BY DEF IInv, RunInv, OneWriter, HolderNeverDisplaced, Writing, Abandoned,
   SameLeaseOwner, Published

\* Whatever hosts crash and whatever children they leave behind, two runs are
\* changing the workspace at the same time only if one of them is a process
\* tree that survived SIGKILL and whose run has released its lease.
THEOREM WriterExclusion == Spec => []OneWriter
BY IInvInit, IInvNext, IInvImplies, PTL DEF Spec

\* A live holder always finds its own lease, so no heartbeat or release of a
\* live run is ever refused.
THEOREM HolderKeepsLease == Spec => []HolderNeverDisplaced
BY IInvInit, IInvNext, IInvImplies, PTL DEF Spec

\* Fencing tokens only grow, and a new lease outranks every token given before.
THEOREM TokensAdvance == Spec => FencingAdvances
<1>1. IInv /\ [Next]_vars =>
        [ /\ fencing' >= fencing
          /\ \A r \in Run : handle'[r] \notin {0, handle[r]} =>
               \A s \in Run : handle'[r] > handle[s] ]_vars
  <2> SUFFICES ASSUME IInv, Next
               PROVE  /\ fencing' >= fencing
                      /\ \A r \in Run : handle'[r] \notin {0, handle[r]} =>
                           \A s \in Run : handle'[r] > handle[s]
    OBVIOUS
  <2> USE DEF IInv, RunInv, TypeOK
  <2>1. ASSUME NEW r \in Run, Acquire(r) PROVE
          /\ fencing' = fencing + 1
          /\ handle' = [handle EXCEPT ![r] = fencing + 1]
    BY <2>1 DEF Acquire
  <2>2. ASSUME NEW r \in Run, Release(r) PROVE
          fencing' = fencing /\ handle' = [handle EXCEPT ![r] = 0]
    BY <2>2 DEF Release
  <2>3. ASSUME NEW r \in Run, RunStep(r), ~Acquire(r), ~Release(r)
        PROVE  fencing' \in {fencing, fencing + 1} /\ handle' = handle
    BY <2>3 DEF RunStep, CrashInAcquire, Spawn, RecordChild, SendPrompt,
                Heartbeat, Finish, ChildExit
  <2>4. ASSUME NEW p \in Proc, Crash(p) PROVE fencing' = fencing /\ handle' = handle
    BY <2>4 DEF Crash
  <2>5. ASSUME Tick PROVE fencing' = fencing /\ handle' = handle
    BY <2>5 DEF Tick
  <2>6. QED
    BY <2>1, <2>2, <2>3, <2>4, <2>5 DEF Next
<1>2. QED
  BY <1>1, IInvInit, IInvNext, PTL DEF Spec, FencingAdvances
=============================================================================
