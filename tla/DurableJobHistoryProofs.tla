------------------------ MODULE DurableJobHistoryProofs ------------------------
(***************************************************************************)
(* What the writes of a durable job add up to: a job that has ended is put *)
(* back only by a write of an old record or by a Skill check; while no     *)
(* such write has brought back an old owner or count, no step is started   *)
(* more often than its budget allows; and while none has undone another    *)
(* write, a running step that is not idempotent is not put back.           *)
(***************************************************************************)
EXTENDS DurableJobProofs

Final == {"completed", "cancelled"}

\* A record that will be written back is one its call has read: by the owner for a
\* heartbeat, before the job ended for an inspection and a cancellation.
HeldFollows ==
  \A c \in Call :
    \/ held[c] = NoCopy
    \/ pc[c] \in Copying \cup {"inspected", "cancelStep", "cancelJob", "done"}
    \/ /\ pc[c] \in {"wait", "run"} /\ held[c].owner = c /\ held[c].fence = fence[c]
       /\ held[c].status \notin Final

\* A claim is granted on a job that has not ended and, but for a takeover, is free.
ClaimFollows ==
  \A c \in Call : pc[c] \in {"ownerLock", "ownerJob"} =>
    /\ held[c].status \notin Terminal \/ (KindOf[c] = "retry" /\ held[c].status \notin Final)
    /\ Takeover(c) \/ held[c].owner = NoCall

InspectedFollows ==
  \A c \in Call : pc[c] = "inspected" =>
    /\ held[c] \in Job /\ ~Settled(held[c])
    /\ mine[c] \in {held[c], [held[c] EXCEPT !.status = "stale"]}

CancelFollows ==
  \A c \in Call : pc[c] \in {"cancelStep", "cancelJob"} =>
    /\ held[c] \in Job /\ held[c].status \notin Terminal
    /\ mine[c].owner = NoCall \/ mine[c] = [held[c] EXCEPT !.cancel = TRUE]

\* An executor that ends the job leaves it, and one at work has not ended it.
Leave == {"settle", "return", "returnClear", "returnUnlock", "conclude"}
MineFollows ==
  \A c \in Call :
    /\ pc[c] \in Leave /\ mine[c].status \in Final => mine[c].owner = NoCall
    /\ pc[c] \in {"run", "output", "stepDone", "jobDone"} => mine[c].status \notin Final

FinalUnowned == job.status \in Final => job.owner = NoCall

Copies == /\ HeldFollows /\ ClaimFollows /\ InspectedFollows /\ CancelFollows /\ MineFollows
          /\ FinalUnowned /\ (undone => clobbered)

Working == {"wait", "next", "start", "run", "output", "stepDone", "jobDone", "reload", "failed"}

\* Every start is counted in the step file, in that of a step about to start too,
\* and the executor that owns the job knows the counts.
Counted ==
  undone \/
  /\ \A s \in Step : starts[s] <= step[s].attempts
  /\ \A c \in Call : Owned(c) /\ pc[c] \in Working =>
       /\ \A s \in Step : steps[c][s].attempts = step[s].attempts
       /\ pc[c] = "start" => starts[First(steps[c])] < step[First(steps[c])].attempts

-----------------------------------------------------------------------------
LEMMA RecordFields ==
  ASSUME NEW j \in Job
  PROVE  /\ \A status \in JobStatus :
              /\ Leaving(j, status).status = status /\ Leaving(j, status).owner = NoCall
              /\ Leaving(j, status).fence = j.fence
         /\ InProgress(j).status \notin Final
         /\ InProgress(j).owner = j.owner /\ InProgress(j).fence = j.fence
BY DEF Job, Leaving, InProgress, Final, JobStatus

LEMMA StampedFields ==
  ASSUME NEW c \in Call, NEW j \in Job
  PROVE  /\ Stamped(c, j).status = j.status /\ Stamped(c, j).owner = j.owner
         /\ j.owner = c => Stamped(c, j).fence = fence[c]
BY DEF Stamped, Job

LEMMA InitCopies == Init => Copies /\ Counted
<1> SUFFICES ASSUME Init PROVE Copies /\ Counted
  OBVIOUS
<1>1. Copies
  BY NewTypes DEF Init, Copies, HeldFollows, ClaimFollows, InspectedFollows, CancelFollows,
     MineFollows, Leave, FinalUnowned, Final, NewJob
<1>2. Counted
  BY JobAssumption DEF Init, Counted, NewStep, Working
<1> QED
  BY <1>1, <1>2

-----------------------------------------------------------------------------
\* The copies of one call are its own business.
LocalCopies(c) ==
  /\ \/ held[c] = NoCopy
     \/ pc[c] \in Copying \cup {"inspected", "cancelStep", "cancelJob", "done"}
     \/ /\ pc[c] \in {"wait", "run"} /\ held[c].owner = c /\ held[c].fence = fence[c]
        /\ held[c].status \notin Final
  /\ pc[c] \in {"ownerLock", "ownerJob"} =>
       /\ held[c].status \notin Terminal \/ (KindOf[c] = "retry" /\ held[c].status \notin Final)
       /\ Takeover(c) \/ held[c].owner = NoCall
  /\ pc[c] = "inspected" =>
       /\ held[c] \in Job /\ ~Settled(held[c])
       /\ mine[c] \in {held[c], [held[c] EXCEPT !.status = "stale"]}
  /\ pc[c] \in {"cancelStep", "cancelJob"} =>
       /\ held[c] \in Job /\ held[c].status \notin Terminal
       /\ mine[c].owner = NoCall \/ mine[c] = [held[c] EXCEPT !.cancel = TRUE]
  /\ pc[c] \in Leave /\ mine[c].status \in Final => mine[c].owner = NoCall
  /\ pc[c] \in {"run", "output", "stepDone", "jobDone"} => mine[c].status \notin Final

LEMMA CopiesAreLocal ==
  Copies <=> FinalUnowned /\ (undone => clobbered) /\ \A c \in Call : LocalCopies(c)
BY DEF Copies, LocalCopies, HeldFollows, ClaimFollows, InspectedFollows, CancelFollows,
   MineFollows

LEMMA OthersKeepCopies ==
  ASSUME NEW d \in Call, LocalCopies(d),
         pc'[d] = pc[d], held'[d] = held[d], mine'[d] = mine[d], fence'[d] = fence[d]
  PROVE  LocalCopies(d)'
BY DEF LocalCopies, Settled, Takeover

\* A call that is about to write its last record, or was refused before that.
LEMMA Settling ==
  ASSUME NEW c \in Call, held'[c] = NoCopy, NEW j, j.status \in Final => j.owner = NoCall,
         (pc'[c] = "settle" /\ mine'[c] = j) \/ pc'[c] = "release"
  PROVE  LocalCopies(c)'
BY DEF LocalCopies, Leave

\* What a call knows after a step of its own.
LEMMA OwnStep ==
  ASSUME JobInv, Copies, NEW c \in Call, CallStep(c)
  PROVE  LocalCopies(c)'
<1>c. /\ pc \in [Call -> At] /\ fence \in [Call -> Nat] /\ job \in Job
      /\ held \in [Call -> Job \cup {NoCopy}] /\ mine \in [Call -> Job]
  BY DEF JobInv, Control, Records
<1>l. LocalCopies(c) /\ FinalUnowned
  BY CopiesAreLocal
<1>s. {"recovering", "recovery_required", "queued"} \cup Terminal \subseteq JobStatus
  BY DEF JobStatus
<1>j. \A j \in Job, status \in JobStatus : Leaving(j, status).owner = NoCall
  BY RecordFields
<1>h. pc[c] \in {"prepare", "next", "failed", "retry", "start"} => held[c] = NoCopy
  BY <1>l DEF LocalCopies, Copying
<1> USE <1>c DEF LocalCopies, Leave, Copying
<1>1. ASSUME Acquire(c) PROVE LocalCopies(c)'
  BY <1>1, <1>l DEF Acquire, Grants, Takeover, Goto, Enters, disk, Final, Terminal
<1>2. ASSUME WriteOwnerLock(c) PROVE LocalCopies(c)'
  BY <1>2, <1>l DEF WriteOwnerLock, Takeover, Goto, local
<1>3. ASSUME WriteOwnerJob(c) PROVE LocalCopies(c)'
  BY <1>3, <1>l DEF WriteOwnerJob, Goto, Final, Terminal
<1>4. ASSUME AcquireRefused(c) PROVE LocalCopies(c)'
  BY <1>4, <1>l DEF FinalUnowned, AcquireRefused, disk, history, Goto, Final, Settled, Terminal
<1>5. ASSUME Release(c) PROVE LocalCopies(c)'
  BY <1>5, <1>l DEF Release, Goto, Enters, disk, Final, Terminal
<1>6. ASSUME ClearOwner(c) PROVE LocalCopies(c)'
  BY <1>6, <1>l DEF ClearOwner, Goto, Final, Terminal
<1>7. ASSUME RemoveLock(c) PROVE LocalCopies(c)'
  BY <1>7, <1>l DEF RemoveLock, Goto, Returns, local, history, Final, Terminal
<1>8. ASSUME ReleaseNothing(c) PROVE LocalCopies(c)'
  BY <1>8, <1>l DEF ReleaseNothing, Goto, Returns, disk, local, history, Final, Terminal
<1>9. ASSUME LockTimeout(c) PROVE LocalCopies(c)'
  BY <1>9, <1>l DEF LockTimeout, Goto, disk, local, history, Final, Terminal
<1>10. ASSUME Settle(c) PROVE LocalCopies(c)'
  <2>1. Stamped(c, mine[c]).status = mine[c].status /\ Stamped(c, mine[c]).owner = mine[c].owner
    BY StampedFields
  <2>2. /\ mine'[c] = Stamped(c, mine[c]) /\ held'[c] = NoCopy
        /\ pc[c] = "settle" /\ pc'[c] \in {"claim", "return", "release"}
    BY <1>10, <1>l DEF Settle, WriteJob
  <2> QED
    BY <1>l, <2>1, <2>2
<1>11. ASSUME Inspect(c) PROVE LocalCopies(c)'
  BY <1>11, <1>l DEF Inspect, disk, history, Goto, Final, Settled, Terminal
<1>12. ASSUME MarkStale(c) PROVE LocalCopies(c)'
  BY <1>12, <1>l DEF MarkStale, Goto, Final, Settled, Terminal
<1>13. ASSUME BeginRecovery(c) PROVE LocalCopies(c)'
  BY <1>13, <1>l DEF BeginRecovery, disk, local, history, Goto, Final, Settled, Terminal
<1>14. ASSUME SkillOutdated(c) PROVE LocalCopies(c)'
  BY <1>14, <1>l DEF SkillOutdated, Goto, disk, history, Final, Terminal
<1>15. ASSUME MarkSkillRecovery(c) PROVE LocalCopies(c)'
  BY <1>15, <1>l DEF MarkSkillRecovery, Goto, Final, Terminal
<1>16. ASSUME PrepareUncertain(c) PROVE LocalCopies(c)'
  <2>1. Leaving(job, "recovery_required").owner = NoCall
    BY <1>j, <1>s
  <2>2. held'[c] = NoCopy
    BY <1>16, <1>h DEF PrepareUncertain, Prepare, Goto
  <2>3. pc'[c] = "settle" /\ mine'[c] = Leaving(job, "recovery_required")
    BY <1>16 DEF PrepareUncertain, Goto
  <2> QED
    BY <2>1, <2>2, <2>3, Settling
<1>17. ASSUME PrepareRequeue(c) PROVE LocalCopies(c)'
  <2>1. Leaving(job, "recovering").owner = NoCall
    BY <1>j, <1>s
  <2>2. held'[c] = NoCopy
    BY <1>17, <1>h DEF PrepareRequeue, Prepare, Goto
  <2>3. pc'[c] = "settle" /\ mine'[c] = Leaving(job, "recovering")
    BY <1>17 DEF PrepareRequeue, Goto
  <2> QED
    BY <2>1, <2>2, <2>3, Settling
<1>18. ASSUME PrepareNothing(c) PROVE LocalCopies(c)'
  BY <1>18, <1>l DEF PrepareNothing, disk, local, history, Goto, Final, Settled, Terminal
<1>19. ASSUME Begin(c) PROVE LocalCopies(c)'
  BY <1>19, <1>l DEF FinalUnowned, Begin, disk, history, Goto, Final, Settled, Terminal
<1>20. ASSUME Load(c) PROVE LocalCopies(c)'
  BY <1>20, <1>l DEF FinalUnowned, Load, disk, history, Goto, Final, Settled, Terminal
<1>21. ASSUME TakeJob(c) PROVE LocalCopies(c)'
  BY <1>21, <1>l DEF TakeJob, WriteJob, history, Final, Settled, Terminal
<1>22. ASSUME Granted(c) PROVE LocalCopies(c)'
  BY <1>22, <1>l DEF Granted, disk, local, history, Goto, Final, Settled, Terminal
<1>23. ASSUME WaitEnds(c) PROVE LocalCopies(c)'
  <2>1. held'[c] = NoCopy
    BY <1>23, <1>h DEF WaitEnds
  <2>2. PICK j, status, s, r :
          /\ j \in Job /\ status \in JobStatus
          /\ StepThenJob(c, s, r, Leaving(j, status), "settle")
    BY <1>23, <1>s DEF WaitEnds, Terminal
  <2>3. Leaving(j, status).owner = NoCall
    BY <1>j, <2>2
  <2> HIDE DEF LocalCopies
  <2>4. (pc'[c] = "settle" /\ mine'[c] = Leaving(j, status)) \/ pc'[c] = "release"
    BY <2>2 DEF StepThenJob
  <2> QED
    BY <2>1, <2>3, <2>4, Settling
<1>24. ASSUME WaitCancelled(c) PROVE LocalCopies(c)'
  BY <1>24, <1>l DEF FinalUnowned, WaitCancelled, disk, history, Goto, Final, Settled, Terminal
<1>25. ASSUME Throw(c) PROVE LocalCopies(c)'
  BY <1>25, <1>l DEF Throw, disk, local, history, Goto, Final, Settled, Terminal
<1>26. ASSUME HeartbeatRead(c) PROVE LocalCopies(c)'
  <2>1. job.status \notin Final
    BY <1>26, <1>l, JobAssumption DEF HeartbeatRead, Owned, FinalUnowned
  <2> QED
    BY <1>26, <1>l, <2>1 DEF HeartbeatRead, Owned, history
<1>27. ASSUME HeartbeatWrite(c) PROVE LocalCopies(c)'
  BY <1>27, <1>l DEF HeartbeatWrite, history, Final, Settled, Terminal
<1>28. ASSUME Complete(c) PROVE LocalCopies(c)'
  <2>1. Leaving(mine[c], "completed").owner = NoCall
    BY <1>j, <1>s DEF Terminal
  <2>2. held'[c] = NoCopy
    BY <1>28, <1>h DEF Complete, Prepare, Goto
  <2>3. pc'[c] = "settle" /\ mine'[c] = Leaving(mine[c], "completed")
    BY <1>28 DEF Complete, Goto
  <2> QED
    BY <2>1, <2>2, <2>3, Settling
<1>29. ASSUME StopBefore(c) PROVE LocalCopies(c)'
  <2>1. held'[c] = NoCopy
    BY <1>29, <1>h DEF StopBefore
  <2>2. PICK j, status, s, r :
          /\ j \in Job /\ status \in JobStatus
          /\ StepThenJob(c, s, r, Leaving(j, status), "settle")
    BY <1>29, <1>s DEF StopBefore, Terminal
  <2>3. Leaving(j, status).owner = NoCall
    BY <1>j, <2>2
  <2> HIDE DEF LocalCopies
  <2>4. (pc'[c] = "settle" /\ mine'[c] = Leaving(j, status)) \/ pc'[c] = "release"
    BY <2>2 DEF StepThenJob
  <2> QED
    BY <2>1, <2>3, <2>4, Settling
<1>30. ASSUME MarkStep(c) PROVE LocalCopies(c)'
  BY <1>30, <1>l DEF MarkStep, StepThenJob, history, Final, Settled, Terminal
<1>31. ASSUME StartStep(c) PROVE LocalCopies(c)'
  <2>1. InProgress(mine[c]) \in Job /\ InProgress(mine[c]).status \notin Final
    BY RecordTypes, RecordFields
  <2>2. Stamped(c, InProgress(mine[c])).status \notin Final
    BY <2>1, StampedFields
  <2>3. held'[c] = NoCopy
    BY <1>31, <1>h DEF StartStep
  <2>4. /\ pc'[c] = "run" \/ pc'[c] = "release"
        /\ mine'[c] = Stamped(c, InProgress(mine[c]))
    BY <1>31 DEF StartStep, WriteJob
  <2> QED
    BY <2>2, <2>3, <2>4
<1>32. ASSUME HandlerReturns(c) PROVE LocalCopies(c)'
  BY <1>32, <1>l DEF HandlerReturns, disk, local, history, Goto, Final, Settled, Terminal
<1>33. ASSUME HandlerThrows(c) PROVE LocalCopies(c)'
  BY <1>33, <1>l DEF HandlerThrows, disk, local, history, Goto, Final, Settled, Terminal
<1>34. ASSUME WriteOutput(c) PROVE LocalCopies(c)'
  BY <1>34, <1>l DEF WriteOutput, local, history, Goto, Final, Settled, Terminal
<1>35. ASSUME CompleteStep(c) PROVE LocalCopies(c)'
  BY <1>35, <1>l DEF CompleteStep, local, history, Goto, Final, Settled, Terminal
<1>36. ASSUME RecordStep(c) PROVE LocalCopies(c)'
  BY <1>36, <1>l DEF RecordStep, WriteJob, history, Final, Settled, Terminal
<1>37. ASSUME Reload(c) PROVE LocalCopies(c)'
  BY <1>37, <1>l DEF Reload, disk, history, Goto, Final, Settled, Terminal
<1>38. ASSUME FailStep(c) PROVE LocalCopies(c)'
  <2>1. held'[c] = NoCopy
    BY <1>38, <1>h DEF FailStep
  <2>2. PICK j, status, s, r :
          /\ j \in Job /\ status \in JobStatus
          /\ StepThenJob(c, s, r, Leaving(j, status), "settle")
    BY <1>38, <1>s DEF FailStep, Terminal
  <2>3. Leaving(j, status).owner = NoCall
    BY <1>j, <2>2
  <2> HIDE DEF LocalCopies
  <2>4. (pc'[c] = "settle" /\ mine'[c] = Leaving(j, status)) \/ pc'[c] = "release"
    BY <2>2 DEF StepThenJob
  <2> QED
    BY <2>1, <2>3, <2>4, Settling
<1>39. ASSUME Conclude(c) PROVE LocalCopies(c)'
  BY <1>39, <1>l DEF Conclude, local, Goto, Final, Settled, Terminal
<1>40. ASSUME RetryThrows(c) PROVE LocalCopies(c)'
  BY <1>40, <1>l DEF RetryThrows, disk, local, history, Goto, Final, Settled, Terminal
<1>41. ASSUME Retry(c) PROVE LocalCopies(c)'
  <2> DEFINE back == [job EXCEPT !.status = "recovering", !.cancel = FALSE]
             over == [job EXCEPT !.status = "blocked"]
  <2>1. back.status = "recovering" /\ over.status = "blocked"
    BY DEF Job
  <2>2. held'[c] = NoCopy
    BY <1>41, <1>h DEF Retry
  <2>3. PICK j \in {back, over} : \E s, r : StepThenJob(c, s, r, j, "settle")
    BY <1>41 DEF Retry
  <2>4. j.status \notin Final
    BY <2>1 DEF Final
  <2>5. (pc'[c] = "settle" /\ mine'[c] = j) \/ pc'[c] = "release"
    BY <2>3 DEF StepThenJob
  <2> QED
    BY <2>2, <2>4, <2>5, Settling
<1>42. ASSUME BeginCancel(c) PROVE LocalCopies(c)'
  <2>1. held'[c] = job
    BY <1>42 DEF BeginCancel
  <2>2. CASE job.status \in Terminal
    BY <1>42, <2>1, <2>2 DEF BeginCancel, Goto
  <2>3. CASE job.status \notin Terminal
    <3>1. pc'[c] \in {"cancelStep", "cancelJob"}
      BY <1>42, <2>3 DEF BeginCancel, Goto
    <3>2. [Leaving(job, "cancelled") EXCEPT !.cancel = TRUE].owner = NoCall
      BY DEF Leaving, Job
    <3>3. mine'[c].owner = NoCall \/ mine'[c] = [job EXCEPT !.cancel = TRUE]
      BY <1>42, <3>2 DEF BeginCancel
    <3> QED
      BY <2>1, <2>3, <3>1, <3>3
  <2> QED
    BY <2>2, <2>3
<1>43. ASSUME CancelStep(c) PROVE LocalCopies(c)'
  BY <1>43, <1>l DEF CancelStep, local, Goto, Final, Settled, Terminal
<1>44. ASSUME CancelJob(c) PROVE LocalCopies(c)'
  BY <1>44, <1>l DEF CancelJob, local, Goto, Final, Settled, Terminal
<1> QED
  BY <1>1, <1>2, <1>3, <1>4, <1>5, <1>6, <1>7, <1>8, <1>9, <1>10, <1>11, <1>12, <1>13, <1>14,
     <1>15, <1>16, <1>17, <1>18, <1>19, <1>20, <1>21, <1>22, <1>23, <1>24, <1>25, <1>26, <1>27,
     <1>28, <1>29, <1>30, <1>31, <1>32, <1>33, <1>34, <1>35, <1>36, <1>37, <1>38, <1>39, <1>40,
     <1>41, <1>42, <1>43, <1>44 DEF CallStep, StoreStep, RecoverStep, ExecuteStep, UserStep

-----------------------------------------------------------------------------
\* A step leaves no owner in the record of a job that has ended, and reopens such a
\* job only by the write of an outdated record or by a Skill check.
SkillChecked(c) == pc[c] = "skill" /\ pc'[c] = "done"
FinalKept(c) == /\ FinalUnowned'
                /\ job.status \in Final => \/ job'.status \in Terminal
                                           \/ Outdated(c) \/ SkillChecked(c)

LEMMA WriteJobFinal ==
  ASSUME job \in Job, FinalUnowned, NEW c \in Call, NEW j \in Job,
         j.status \in Final => j.owner = NoCall, NEW to, NEW refused,
         WriteJob(c, j, to, refused)
  PROVE  FinalKept(c)
<1>1. CASE MayWrite(c, j)
  <2>1. job' = Stamped(c, j)
    BY <1>1 DEF WriteJob
  <2>2. job.owner = c
    BY <1>1 DEF MayWrite, Owned
  <2>3. job.status \notin Final
    BY <2>2, JobAssumption DEF FinalUnowned
  <2> QED
    BY <2>1, <2>3, StampedFields DEF FinalKept, FinalUnowned
<1>2. CASE ~MayWrite(c, j)
  BY <1>2 DEF WriteJob, FinalKept, FinalUnowned, Final, Terminal
<1> QED
  BY <1>1, <1>2

LEMMA FinalStep == ASSUME JobInv, Copies, NEW c \in Call, CallStep(c) PROVE FinalKept(c)
<1>c. /\ job \in Job /\ pc \in [Call -> At] /\ CopyInHand
      /\ held \in [Call -> Job \cup {NoCopy}] /\ mine \in [Call -> Job]
      /\ fence \in [Call -> Nat] /\ ProcOf \in [Call -> Proc]
  BY JobAssumption DEF JobInv, Control, Records
<1>l. LocalCopies(c) /\ FinalUnowned
  BY CopiesAreLocal
<1>r. InProgress(mine[c]) \in Job /\ InProgress(mine[c]).status \notin Final
  BY <1>c, RecordTypes, RecordFields
<1>1. ASSUME Acquire(c) PROVE FinalKept(c)
  BY <1>1, <1>c, <1>l DEF Acquire, Goto, Enters, disk, FinalKept, FinalUnowned, Final, Terminal
<1>2. ASSUME WriteOwnerLock(c) PROVE FinalKept(c)
  BY <1>2, <1>c, <1>l DEF WriteOwnerLock, Goto, local, FinalKept, FinalUnowned, Final, Terminal
<1>3. ASSUME WriteOwnerJob(c) PROVE FinalKept(c)
  <2>1. /\ held[c] \in Job /\ held[c].status \notin Final
        /\ job' = [held[c] EXCEPT !.owner = c, !.fence = fence[c], !.pid = ProcOf[c]]
        /\ pc[c] = "ownerJob" /\ pc'[c] # "ownerJob"
    BY <1>3, <1>c, <1>l DEF WriteOwnerJob, Goto, LocalCopies, Copying, CopyInHand, Final, Terminal
  <2>2. job'.status = held[c].status
    BY <2>1 DEF Job
  <2>3. job.status \in Final => Outdated(c)
    BY <2>1 DEF Outdated, Seen
  <2> QED
    BY <2>1, <2>2, <2>3 DEF FinalKept, FinalUnowned
<1>4. ASSUME AcquireRefused(c) PROVE FinalKept(c)
  BY <1>4, <1>c, <1>l DEF AcquireRefused, FinalKept, FinalUnowned, Final, Terminal, disk,
     history, Goto
<1>5. ASSUME Release(c) PROVE FinalKept(c)
  BY <1>5, <1>c, <1>l DEF Release, Goto, Enters, disk, FinalKept, FinalUnowned, Final, Terminal
<1>6. ASSUME ClearOwner(c) PROVE FinalKept(c)
  <2>1. /\ held[c] \in Job
        /\ pc[c] \in {"clear", "returnClear"} /\ pc'[c] \in {"unlock", "returnUnlock"}
        /\ job' \in {job, [held[c] EXCEPT !.owner = NoCall, !.pid = NoProc]}
    BY <1>6, <1>c DEF ClearOwner, Goto, Copying, CopyInHand
  <2>2. job' = job \/ (job'.status = held[c].status /\ job'.owner = NoCall)
    BY <2>1 DEF Job
  <2>3. job = held[c] \/ Outdated(c)
    BY <2>1 DEF Outdated, Seen
  <2> QED
    BY <1>l, <2>2, <2>3 DEF FinalKept, FinalUnowned, Final, Terminal
<1>7. ASSUME RemoveLock(c) PROVE FinalKept(c)
  BY <1>7, <1>c, <1>l DEF RemoveLock, Goto, Returns, local, history, FinalKept, FinalUnowned,
     Final, Terminal
<1>8. ASSUME ReleaseNothing(c) PROVE FinalKept(c)
  BY <1>8, <1>c, <1>l DEF ReleaseNothing, Goto, Returns, disk, local, history, FinalKept,
     FinalUnowned, Final, Terminal
<1>9. ASSUME LockTimeout(c) PROVE FinalKept(c)
  BY <1>9, <1>c, <1>l DEF LockTimeout, Goto, disk, local, history, FinalKept, FinalUnowned,
     Final, Terminal
<1>10. ASSUME Settle(c) PROVE FinalKept(c)
  <2>1. mine[c] \in Job /\ (mine[c].status \in Final => mine[c].owner = NoCall)
    BY <1>10, <1>c, <1>l DEF Settle, LocalCopies, Leave
  <2>2. \E to, refused : WriteJob(c, mine[c], to, refused)
    BY <1>10 DEF Settle
  <2> QED
    BY <1>c, <1>l, <2>1, <2>2, WriteJobFinal
<1>11. ASSUME Inspect(c) PROVE FinalKept(c)
  BY <1>11, <1>c, <1>l DEF Inspect, FinalKept, FinalUnowned, Final, Terminal, disk, history,
     Goto
<1>12. ASSUME MarkStale(c) PROVE FinalKept(c)
  <2>1. /\ held[c] \in Job /\ held[c].status \notin Final
        /\ mine[c] \in {held[c], [held[c] EXCEPT !.status = "stale"]}
    BY <1>12, <1>l DEF MarkStale, Goto, LocalCopies, Settled, Final, Terminal
  <2>2. mine[c].status \notin Final
    BY <2>1 DEF Job, Final
  <2>3. job' = mine[c] /\ pc[c] = "inspected" /\ pc'[c] # "inspected"
    BY <1>12, <1>c DEF MarkStale, Goto
  <2>4. job.status \in Final => Outdated(c)
    BY <2>1, <2>3 DEF Outdated, Seen
  <2> QED
    BY <2>2, <2>3, <2>4 DEF FinalKept, FinalUnowned
<1>13. ASSUME BeginRecovery(c) PROVE FinalKept(c)
  BY <1>13, <1>c, <1>l DEF BeginRecovery, FinalKept, FinalUnowned, Final, Terminal, disk,
     local, history, Goto
<1>14. ASSUME SkillOutdated(c) PROVE FinalKept(c)
  BY <1>14, <1>c, <1>l DEF SkillOutdated, Goto, disk, history, FinalKept, FinalUnowned, Final,
     Terminal
<1>15. ASSUME MarkSkillRecovery(c) PROVE FinalKept(c)
  <2>1. /\ held[c] \in Job /\ job' = [held[c] EXCEPT !.status = "recovery_required"]
        /\ SkillChecked(c)
    BY <1>15, <1>c DEF MarkSkillRecovery, Goto, Copying, CopyInHand, SkillChecked
  <2>2. job'.status = "recovery_required"
    BY <2>1 DEF Job
  <2> QED
    BY <2>1, <2>2 DEF FinalKept, FinalUnowned, Final
<1>16. ASSUME PrepareUncertain(c) PROVE FinalKept(c)
  BY <1>16, <1>c, <1>l DEF PrepareUncertain, Prepare, FinalKept, FinalUnowned, Final,
     Terminal, history
<1>17. ASSUME PrepareRequeue(c) PROVE FinalKept(c)
  BY <1>17, <1>c, <1>l DEF PrepareRequeue, Prepare, FinalKept, FinalUnowned, Final,
     Terminal, history
<1>18. ASSUME PrepareNothing(c) PROVE FinalKept(c)
  BY <1>18, <1>c, <1>l DEF PrepareNothing, FinalKept, FinalUnowned, Final, Terminal, disk,
     local, history, Goto
<1>19. ASSUME Begin(c) PROVE FinalKept(c)
  BY <1>19, <1>c, <1>l DEF Begin, FinalKept, FinalUnowned, Final, Terminal, disk, history,
     Goto
<1>20. ASSUME Load(c) PROVE FinalKept(c)
  BY <1>20, <1>c, <1>l DEF Load, FinalKept, FinalUnowned, Final, Terminal, disk, history,
     Goto
<1>21. ASSUME TakeJob(c) PROVE FinalKept(c)
  <2> DEFINE j == InProgress([mine[c] EXCEPT !.owner = c])
  <2>1. j \in Job /\ (j.status \in Final => j.owner = NoCall)
    BY <1>c, RecordTypes, RecordFields DEF Owner
  <2>2. \E to, refused : WriteJob(c, j, to, refused)
    BY <1>21 DEF TakeJob
  <2> QED
    BY <1>c, <1>l, <2>1, <2>2, WriteJobFinal
<1>22. ASSUME Granted(c) PROVE FinalKept(c)
  BY <1>22, <1>c, <1>l DEF Granted, FinalKept, FinalUnowned, Final, Terminal, disk, local,
     history, Goto
<1>23. ASSUME WaitEnds(c) PROVE FinalKept(c)
  BY <1>23, <1>c, <1>l DEF WaitEnds, StepThenJob, FinalKept, FinalUnowned, Final, Terminal,
     history
<1>24. ASSUME WaitCancelled(c) PROVE FinalKept(c)
  BY <1>24, <1>c, <1>l DEF WaitCancelled, FinalKept, FinalUnowned, Final, Terminal, disk,
     history, Goto
<1>25. ASSUME Throw(c) PROVE FinalKept(c)
  BY <1>25, <1>c, <1>l DEF Throw, FinalKept, FinalUnowned, Final, Terminal, disk, local,
     history, Goto
<1>26. ASSUME HeartbeatRead(c) PROVE FinalKept(c)
  BY <1>26, <1>c, <1>l DEF HeartbeatRead, FinalKept, FinalUnowned, Final, Terminal, disk,
     history
<1>27. ASSUME HeartbeatWrite(c) PROVE FinalKept(c)
  <2>1. held[c].owner = c /\ held[c].status \notin Final
    BY <1>27, <1>l DEF HeartbeatWrite, LocalCopies, Copying
  <2>2. Owned(c) => job.status \notin Final
    BY <1>l, JobAssumption DEF Owned, FinalUnowned
  <2> QED
    BY <1>27, <1>l, <2>1, <2>2 DEF HeartbeatWrite, FinalKept, FinalUnowned, Final, Terminal
<1>28. ASSUME Complete(c) PROVE FinalKept(c)
  BY <1>28, <1>c, <1>l DEF Complete, FinalKept, FinalUnowned, Final, Terminal, disk,
     history, Goto
<1>29. ASSUME StopBefore(c) PROVE FinalKept(c)
  BY <1>29, <1>c, <1>l DEF StopBefore, StepThenJob, FinalKept, FinalUnowned, Final,
     Terminal, history
<1>30. ASSUME MarkStep(c) PROVE FinalKept(c)
  BY <1>30, <1>c, <1>l DEF MarkStep, StepThenJob, FinalKept, FinalUnowned, Final, Terminal,
     history
<1>31. ASSUME StartStep(c) PROVE FinalKept(c)
  <2> DEFINE j == InProgress(mine[c])
  <2>1. j \in Job /\ (j.status \in Final => j.owner = NoCall)
    BY <1>r
  <2>2. \E to, refused : WriteJob(c, j, to, refused)
    BY <1>31 DEF StartStep
  <2> QED
    BY <1>c, <1>l, <2>1, <2>2, WriteJobFinal
<1>32. ASSUME HandlerReturns(c) PROVE FinalKept(c)
  BY <1>32, <1>c, <1>l DEF HandlerReturns, FinalKept, FinalUnowned, Final, Terminal, disk,
     local, history, Goto
<1>33. ASSUME HandlerThrows(c) PROVE FinalKept(c)
  BY <1>33, <1>c, <1>l DEF HandlerThrows, FinalKept, FinalUnowned, Final, Terminal, disk,
     local, history, Goto
<1>34. ASSUME WriteOutput(c) PROVE FinalKept(c)
  BY <1>34, <1>c, <1>l DEF WriteOutput, FinalKept, FinalUnowned, Final, Terminal, local,
     history, Goto
<1>35. ASSUME CompleteStep(c) PROVE FinalKept(c)
  BY <1>35, <1>c, <1>l DEF CompleteStep, FinalKept, FinalUnowned, Final, Terminal, local,
     history, Goto
<1>36. ASSUME RecordStep(c) PROVE FinalKept(c)
  <2> DEFINE j == [mine[c] EXCEPT !.cancel = @ \/ job.cancel]
  <2>1. j \in Job /\ (j.status \in Final => j.owner = NoCall)
    BY <1>36, <1>c, <1>l DEF RecordStep, LocalCopies, Job
  <2>2. \E to, refused : WriteJob(c, j, to, refused)
    BY <1>36 DEF RecordStep
  <2> QED
    BY <1>c, <1>l, <2>1, <2>2, WriteJobFinal
<1>37. ASSUME Reload(c) PROVE FinalKept(c)
  BY <1>37, <1>c, <1>l DEF Reload, FinalKept, FinalUnowned, Final, Terminal, disk, history,
     Goto
<1>38. ASSUME FailStep(c) PROVE FinalKept(c)
  BY <1>38, <1>c, <1>l DEF FailStep, StepThenJob, FinalKept, FinalUnowned, Final, Terminal,
     history
<1>39. ASSUME Conclude(c) PROVE FinalKept(c)
  <2>1. PICK status : /\ job' = [mine[c] EXCEPT !.status = status]
                      /\ mine[c].status = "completed"
                           => status \in {"completed", "failed", "blocked"}
                      /\ mine[c].status # "completed" => status = mine[c].status
    BY <1>39 DEF Conclude
  <2>2. job'.status = status /\ job'.owner = mine[c].owner
    BY <1>c, <2>1 DEF Job
  <2>3. /\ pc[c] = "conclude" /\ pc'[c] # "conclude"
        /\ mine[c].status \in Final => mine[c].owner = NoCall
    BY <1>39, <1>c, <1>l DEF Conclude, Goto, LocalCopies, Leave
  <2>4. job = mine[c] \/ Outdated(c)
    BY <2>3 DEF Outdated, Seen
  <2> QED
    BY <2>1, <2>2, <2>3, <2>4 DEF FinalKept, FinalUnowned, Final, Terminal
<1>40. ASSUME RetryThrows(c) PROVE FinalKept(c)
  BY <1>40, <1>c, <1>l DEF RetryThrows, FinalKept, FinalUnowned, Final, Terminal, disk,
     local, history, Goto
<1>41. ASSUME Retry(c) PROVE FinalKept(c)
  BY <1>41, <1>c, <1>l DEF Retry, StepThenJob, FinalKept, FinalUnowned, Final, Terminal,
     history
<1>42. ASSUME BeginCancel(c) PROVE FinalKept(c)
  BY <1>42, <1>c, <1>l DEF BeginCancel, FinalKept, FinalUnowned, Final, Terminal, disk,
     history, Goto
<1>43. ASSUME CancelStep(c) PROVE FinalKept(c)
  BY <1>43, <1>c, <1>l DEF CancelStep, FinalKept, FinalUnowned, Final, Terminal, local, Goto
<1>44. ASSUME CancelJob(c) PROVE FinalKept(c)
  <2>1. /\ held[c] \in Job /\ held[c].status \notin Final
        /\ mine[c].owner = NoCall \/ mine[c] = [held[c] EXCEPT !.cancel = TRUE]
    BY <1>44, <1>l DEF CancelJob, Goto, LocalCopies, Final, Terminal
  <2>2. mine[c].owner = NoCall \/ mine[c].status \notin Final
    BY <2>1 DEF Job
  <2>3. job' = mine[c] /\ pc[c] = "cancelJob" /\ pc'[c] # "cancelJob"
    BY <1>44, <1>c DEF CancelJob, Goto
  <2>4. job.status \in Final => Outdated(c)
    BY <2>1, <2>3 DEF Outdated, Seen
  <2> QED
    BY <2>2, <2>3, <2>4 DEF FinalKept, FinalUnowned
<1> QED
  BY <1>1, <1>2, <1>3, <1>4, <1>5, <1>6, <1>7, <1>8, <1>9, <1>10, <1>11, <1>12, <1>13, <1>14,
     <1>15, <1>16, <1>17, <1>18, <1>19, <1>20, <1>21, <1>22, <1>23, <1>24, <1>25, <1>26, <1>27,
     <1>28, <1>29, <1>30, <1>31, <1>32, <1>33, <1>34, <1>35, <1>36, <1>37, <1>38, <1>39, <1>40,
     <1>41, <1>42, <1>43, <1>44 DEF CallStep, StoreStep, RecoverStep, ExecuteStep, UserStep

-----------------------------------------------------------------------------
\* While no old owner is brought back, a call owns the job only if it has owned it
\* before, or has just acquired it; in particular a call at work.
OwnerKept(c) ==
  ~undone' => \A d \in Call :
    Owned(d)' => \/ Owned(d)
                 \/ d = c /\ pc[c] = "ownerJob" /\ pc'[c] \in {"load", "retry", "prepare"}

StillOwned == ~undone' => \A d \in Call : Owned(d)' /\ pc'[d] \in Working => Owned(d)

LEMMA WriteJobOwned ==
  ASSUME NEW c \in Call, NEW j \in Job, NEW to, NEW refused, WriteJob(c, j, to, refused),
         fence' = fence
  PROVE  OwnerKept(c)
<1>1. CASE MayWrite(c, j)
  <2>1. job' = Stamped(c, j)
    BY <1>1 DEF WriteJob
  <2>2. Owned(c) /\ job'.owner \in {NoCall, c}
    BY <1>1, <2>1, StampedFields DEF MayWrite
  <2> QED
    BY <2>2, JobAssumption DEF OwnerKept, Owned
<1>2. CASE ~MayWrite(c, j)
  BY <1>2 DEF WriteJob, OwnerKept, Owned
<1> QED
  BY <1>1, <1>2

LEMMA OwnershipStep ==
  ASSUME JobInv, Copies, NEW c \in Call, CallStep(c) PROVE OwnerKept(c)
<1>c. /\ job \in Job /\ CopyInHand /\ held \in [Call -> Job \cup {NoCopy}] /\ mine \in [Call -> Job]
      /\ fence \in [Call -> Nat] /\ pc \in [Call -> At] /\ ProcOf \in [Call -> Proc]
      /\ lockFence \in Nat
  BY JobAssumption DEF JobInv, Control, Records
<1>l. LocalCopies(c)
  BY CopiesAreLocal
<1>r. InProgress(mine[c]) \in Job
  BY <1>c, RecordTypes
<1>1. ASSUME Acquire(c) PROVE OwnerKept(c)
  <2>1. /\ job' = job /\ fence'[c] = Larger(job.fence, lockFence) + 1
        /\ \A d \in Call \ {c} : fence'[d] = fence[d]
    BY <1>1, <1>c DEF Acquire, disk
  <2>2. job.fence \in Nat
    BY <1>c DEF Job
  <2>3. job.fence # fence'[c]
    BY <1>c, <2>1, <2>2 DEF Larger
  <2> QED
    BY <2>1, <2>3 DEF OwnerKept, Owned
<1>2. ASSUME WriteOwnerLock(c) PROVE OwnerKept(c)
  BY <1>2 DEF WriteOwnerLock, OwnerKept, Owned, local
<1>3. ASSUME WriteOwnerJob(c) PROVE OwnerKept(c)
  <2>1. /\ held[c] \in Job
        /\ job' = [held[c] EXCEPT !.owner = c, !.fence = fence[c], !.pid = ProcOf[c]]
        /\ pc[c] = "ownerJob" /\ pc'[c] \in {"load", "retry", "prepare"}
    BY <1>3, <1>c DEF WriteOwnerJob, Goto, Copying, CopyInHand
  <2>2. job'.owner = c
    BY <2>1 DEF Job
  <2> QED
    BY <2>1, <2>2 DEF OwnerKept, Owned
<1>4. ASSUME AcquireRefused(c) PROVE OwnerKept(c)
  BY <1>4 DEF AcquireRefused, OwnerKept, Owned, disk, history
<1>5. ASSUME Release(c) PROVE OwnerKept(c)
  BY <1>5 DEF Release, Goto, Enters, disk, OwnerKept, Owned
<1>6. ASSUME ClearOwner(c) PROVE OwnerKept(c)
  <2>1. /\ held[c] \in Job /\ fence' = fence
        /\ job' \in {job, [held[c] EXCEPT !.owner = NoCall, !.pid = NoProc]}
    BY <1>6, <1>c DEF ClearOwner, Goto, Copying, CopyInHand
  <2>2. job' = job \/ job'.owner = NoCall
    BY <2>1 DEF Job
  <2> QED
    BY <2>1, <2>2, JobAssumption DEF OwnerKept, Owned
<1>7. ASSUME RemoveLock(c) PROVE OwnerKept(c)
  BY <1>7 DEF RemoveLock, Goto, Returns, local, history, OwnerKept, Owned
<1>8. ASSUME ReleaseNothing(c) PROVE OwnerKept(c)
  BY <1>8 DEF ReleaseNothing, Goto, Returns, disk, local, history, OwnerKept, Owned
<1>9. ASSUME LockTimeout(c) PROVE OwnerKept(c)
  BY <1>9 DEF LockTimeout, Goto, disk, local, history, OwnerKept, Owned
<1>10. ASSUME Settle(c) PROVE OwnerKept(c)
  <2>1. mine[c] \in Job
    BY <1>c
  <2>2. \E to, refused : WriteJob(c, mine[c], to, refused)
    BY <1>10 DEF Settle
  <2>3. fence' = fence
    BY <1>10 DEF Settle
  <2> QED
    BY <2>1, <2>2, <2>3, WriteJobOwned
<1>11. ASSUME Inspect(c) PROVE OwnerKept(c)
  BY <1>11 DEF Inspect, OwnerKept, Owned, disk, history
<1>12. ASSUME MarkStale(c) PROVE OwnerKept(c)
  <2>1. /\ held[c] \in Job
        /\ mine[c] \in {held[c], [held[c] EXCEPT !.status = "stale"]}
    BY <1>12, <1>l DEF MarkStale, Overwrites, Goto, LocalCopies
  <2>2. mine[c].owner = held[c].owner /\ mine[c].fence = held[c].fence
    BY <2>1 DEF Job
  <2> QED
    BY <1>12, <2>1, <2>2 DEF MarkStale, Overwrites, OwnerKept, Owned
<1>13. ASSUME BeginRecovery(c) PROVE OwnerKept(c)
  BY <1>13 DEF BeginRecovery, OwnerKept, Owned, disk, local, history
<1>14. ASSUME SkillOutdated(c) PROVE OwnerKept(c)
  BY <1>14 DEF SkillOutdated, Goto, disk, history, OwnerKept, Owned
<1>15. ASSUME MarkSkillRecovery(c) PROVE OwnerKept(c)
  <2> DEFINE j == [held[c] EXCEPT !.status = "recovery_required"]
  <2>1. job' = j /\ fence' = fence /\ (~undone' => job.owner = j.owner /\ job.fence = j.fence)
    BY <1>15 DEF MarkSkillRecovery
  <2> HIDE DEF j
  <2> QED
    BY <2>1 DEF OwnerKept, Owned
<1>16. ASSUME PrepareUncertain(c) PROVE OwnerKept(c)
  BY <1>16 DEF PrepareUncertain, Prepare, OwnerKept, Owned, history
<1>17. ASSUME PrepareRequeue(c) PROVE OwnerKept(c)
  BY <1>17 DEF PrepareRequeue, Prepare, OwnerKept, Owned, history
<1>18. ASSUME PrepareNothing(c) PROVE OwnerKept(c)
  BY <1>18 DEF PrepareNothing, OwnerKept, Owned, disk, local, history
<1>19. ASSUME Begin(c) PROVE OwnerKept(c)
  BY <1>19 DEF Begin, OwnerKept, Owned, disk, history
<1>20. ASSUME Load(c) PROVE OwnerKept(c)
  BY <1>20 DEF Load, OwnerKept, Owned, disk, history
<1>21. ASSUME TakeJob(c) PROVE OwnerKept(c)
  <2>1. InProgress([mine[c] EXCEPT !.owner = c]) \in Job
    BY <1>c, RecordTypes DEF Owner
  <2>2. \E to, refused : WriteJob(c, InProgress([mine[c] EXCEPT !.owner = c]), to, refused)
    BY <1>21 DEF TakeJob
  <2>3. fence' = fence
    BY <1>21 DEF TakeJob
  <2> QED
    BY <2>1, <2>2, <2>3, WriteJobOwned
<1>22. ASSUME Granted(c) PROVE OwnerKept(c)
  BY <1>22 DEF Granted, OwnerKept, Owned, disk, local, history
<1>23. ASSUME WaitEnds(c) PROVE OwnerKept(c)
  BY <1>23 DEF WaitEnds, StepThenJob, OwnerKept, Owned, history
<1>24. ASSUME WaitCancelled(c) PROVE OwnerKept(c)
  BY <1>24 DEF WaitCancelled, OwnerKept, Owned, disk, history
<1>25. ASSUME Throw(c) PROVE OwnerKept(c)
  BY <1>25 DEF Throw, OwnerKept, Owned, disk, local, history
<1>26. ASSUME HeartbeatRead(c) PROVE OwnerKept(c)
  BY <1>26 DEF HeartbeatRead, OwnerKept, Owned, disk, history
<1>27. ASSUME HeartbeatWrite(c) PROVE OwnerKept(c)
  <2>1. held[c].owner = c /\ held[c].fence = fence[c]
    BY <1>27, <1>l DEF HeartbeatWrite, LocalCopies, Copying
  <2> QED
    BY <1>27, <2>1 DEF HeartbeatWrite, OwnerKept, Owned
<1>28. ASSUME Complete(c) PROVE OwnerKept(c)
  BY <1>28 DEF Complete, OwnerKept, Owned, disk, history
<1>29. ASSUME StopBefore(c) PROVE OwnerKept(c)
  BY <1>29 DEF StopBefore, StepThenJob, OwnerKept, Owned, history
<1>30. ASSUME MarkStep(c) PROVE OwnerKept(c)
  BY <1>30 DEF MarkStep, StepThenJob, OwnerKept, Owned, history
<1>31. ASSUME StartStep(c) PROVE OwnerKept(c)
  <2>1. InProgress(mine[c]) \in Job
    BY <1>r
  <2>2. \E to, refused : WriteJob(c, InProgress(mine[c]), to, refused)
    BY <1>31 DEF StartStep
  <2>3. fence' = fence
    BY <1>31 DEF StartStep
  <2> QED
    BY <2>1, <2>2, <2>3, WriteJobOwned
<1>32. ASSUME HandlerReturns(c) PROVE OwnerKept(c)
  BY <1>32 DEF HandlerReturns, OwnerKept, Owned, disk, local, history
<1>33. ASSUME HandlerThrows(c) PROVE OwnerKept(c)
  BY <1>33 DEF HandlerThrows, OwnerKept, Owned, disk, local, history
<1>34. ASSUME WriteOutput(c) PROVE OwnerKept(c)
  BY <1>34 DEF WriteOutput, OwnerKept, Owned, local, history
<1>35. ASSUME CompleteStep(c) PROVE OwnerKept(c)
  BY <1>35 DEF CompleteStep, OwnerKept, Owned, local, history
<1>36. ASSUME RecordStep(c) PROVE OwnerKept(c)
  <2>1. [mine[c] EXCEPT !.cancel = @ \/ job.cancel] \in Job
    BY <1>c DEF Job
  <2>2. \E to, refused : WriteJob(c, [mine[c] EXCEPT !.cancel = @ \/ job.cancel], to, refused)
    BY <1>36 DEF RecordStep
  <2>3. fence' = fence
    BY <1>36 DEF RecordStep
  <2> QED
    BY <2>1, <2>2, <2>3, WriteJobOwned
<1>37. ASSUME Reload(c) PROVE OwnerKept(c)
  BY <1>37 DEF Reload, OwnerKept, Owned, disk, history
<1>38. ASSUME FailStep(c) PROVE OwnerKept(c)
  BY <1>38 DEF FailStep, StepThenJob, OwnerKept, Owned, history
<1>39. ASSUME Conclude(c) PROVE OwnerKept(c)
  <2>1. PICK status : job' = [mine[c] EXCEPT !.status = status]
    BY <1>39 DEF Conclude, Overwrites
  <2>2. job'.owner = mine[c].owner /\ job'.fence = mine[c].fence
    BY <1>c, <2>1 DEF Job
  <2>3. /\ ~undone' => job.owner = mine[c].owner /\ job.fence = mine[c].fence
        /\ fence' = fence
    BY <1>39 DEF Conclude, Overwrites, Overwrites, local
  <2> QED
    BY <2>2, <2>3 DEF OwnerKept, Owned
<1>40. ASSUME RetryThrows(c) PROVE OwnerKept(c)
  BY <1>40 DEF RetryThrows, OwnerKept, Owned, disk, local, history
<1>41. ASSUME Retry(c) PROVE OwnerKept(c)
  BY <1>41 DEF Retry, StepThenJob, OwnerKept, Owned, history
<1>42. ASSUME BeginCancel(c) PROVE OwnerKept(c)
  BY <1>42 DEF BeginCancel, OwnerKept, Owned, disk, history
<1>43. ASSUME CancelStep(c) PROVE OwnerKept(c)
  BY <1>43 DEF CancelStep, OwnerKept, Owned, local
<1>44. ASSUME CancelJob(c) PROVE OwnerKept(c)
  <2>1. /\ held[c] \in Job
        /\ mine[c].owner = NoCall \/ mine[c] = [held[c] EXCEPT !.cancel = TRUE]
    BY <1>44, <1>l DEF CancelJob, Overwrites, Goto, LocalCopies
  <2>2. mine[c].owner = NoCall \/ (mine[c].owner = held[c].owner /\ mine[c].fence = held[c].fence)
    BY <2>1 DEF Job
  <2>3. /\ job' = mine[c] /\ fence' = fence
        /\ ~undone' => job.owner = held[c].owner /\ job.fence = held[c].fence
    BY <1>44 DEF CancelJob, Overwrites, Overwrites, local
  <2> QED
    BY <2>2, <2>3, JobAssumption DEF OwnerKept, Owned
<1> QED
  BY <1>1, <1>2, <1>3, <1>4, <1>5, <1>6, <1>7, <1>8, <1>9, <1>10, <1>11, <1>12, <1>13, <1>14,
     <1>15, <1>16, <1>17, <1>18, <1>19, <1>20, <1>21, <1>22, <1>23, <1>24, <1>25, <1>26, <1>27,
     <1>28, <1>29, <1>30, <1>31, <1>32, <1>33, <1>34, <1>35, <1>36, <1>37, <1>38, <1>39, <1>40,
     <1>41, <1>42, <1>43, <1>44 DEF CallStep, StoreStep, RecoverStep, ExecuteStep, UserStep

LEMMA AtWorkOwned == ASSUME NEW c \in Call, OwnerKept(c) PROVE StillOwned
BY DEF OwnerKept, StillOwned, Working

-----------------------------------------------------------------------------
LEMMA StoppedAttempts ==
  ASSUME NEW r \in Budgeted, NEW status
  PROVE  Stopped(r, status).attempts = r.attempts
BY DEF Budgeted, Stopped, StepFile

\* The counts stay true when no step file and no copy of its owner changes its count.
LEMMA CountsKept ==
  ASSUME JobInv, Counted, NEW c \in Call, StillOwned, Frame(c), starts' = starts,
         ~undone' => \A s \in Step : step'[s].attempts = step[s].attempts,
         pc'[c] \in Working =>
           /\ pc[c] \in Working /\ pc'[c] # "start"
           /\ \A s \in Step : steps'[c][s].attempts = steps[c][s].attempts
  PROVE  Counted'
<1> SUFFICES ASSUME ~undone' PROVE Counted'
  BY DEF Counted
<1>1. ~undone /\ \A s \in Step : step'[s].attempts = step[s].attempts
  BY DEF Frame
<1>2. \A s \in Step : starts'[s] <= step'[s].attempts
  BY <1>1 DEF Counted
<1>3. ASSUME NEW d \in Call, Owned(d)', pc'[d] \in Working
      PROVE  /\ \A s \in Step : steps'[d][s].attempts = step'[s].attempts
             /\ pc'[d] = "start" => starts'[First(steps'[d])] < step'[First(steps'[d])].attempts
  <2>1. Owned(d)
    BY <1>3 DEF StillOwned
  <2>2. CASE d = c
    BY <1>1, <1>3, <2>1, <2>2 DEF Counted
  <2>3. CASE d # c
    <3>1. pc'[d] = pc[d] /\ steps'[d] = steps[d]
      BY <2>3 DEF Frame
    <3>2. /\ \A s \in Step : steps[d][s].attempts = step[s].attempts
          /\ pc[d] = "start" => starts[First(steps[d])] < step[First(steps[d])].attempts
      BY <1>1, <1>3, <2>1, <3>1 DEF Counted
    <3>3. pc[d] = "start" => First(steps[d]) \in Step
      BY FirstIsStep DEF JobInv, Files, StepInHand
    <3> QED
      BY <1>1, <3>1, <3>2, <3>3
  <2> QED
    BY <2>2, <2>3
<1> QED
  BY <1>2, <1>3 DEF Counted

\* The first step that is not completed is the only one.
LEMMA OnlyFirst ==
  ASSUME NEW f, NEW s \in Step, f[s].status # "completed",
         \A t \in 1..(s - 1) : f[t].status = "completed"
  PROVE  First(f) = s
<1> DEFINE m == First(f)
<1>1. ~AllDone(f)
  BY DEF AllDone
<1>2. /\ m \in Step /\ f[m].status # "completed"
      /\ \A t \in 1..(m - 1) : f[t].status = "completed"
  BY <1>1, FirstIsStep
<1>3. s \in Nat \ {0} /\ m \in Nat \ {0}
  BY <1>2, JobAssumption DEF Step
<1> HIDE DEF m
<1>4. ~(m < s)
  BY <1>2, <1>3
<1>5. ~(s < m)
  BY <1>2, <1>3
<1> QED
  BY <1>3, <1>4, <1>5 DEF m

\* The owner stops a step.
LEMMA OwnerKnows ==
  ASSUME JobInv, Counted, NEW c \in Call, Frame(c), ~undone', Owned(c), pc[c] \in Working,
         NEW status
  PROVE  \A s \in Step : Stopped(steps[c][s], status).attempts = step[s].attempts
<1>1. \A s \in Step : steps[c][s] \in Budgeted /\ steps[c][s].attempts = step[s].attempts
  BY DEF JobInv, Files, Counted, Frame
<1> QED
  BY <1>1, StoppedAttempts

LEMMA StopKeepsCounts ==
  ASSUME JobInv, Counted, NEW c \in Call, StillOwned, Frame(c), starts' = starts,
         pc[c] \in Working, NEW status, NEW j,
         StepThenJob(c, First(steps[c]), Stopped(steps[c][First(steps[c])], status), j, "settle")
  PROVE  Counted'
<1> DEFINE s == First(steps[c])
<1>1. pc[c] \in Working /\ step \in [Step -> Budgeted] /\ pc \in [Call -> At]
  BY DEF JobInv, Files, Control
<1>2. ASSUME ~undone', NEW t \in Step PROVE step'[t].attempts = step[t].attempts
  <2>1. CASE MayWriteStep(c, s)
    <3>1. s \in Step => Stopped(steps[c][s], status).attempts = step[s].attempts
      BY <1>2, <2>1, OwnerKnows DEF MayWriteStep
    <3>2. step' = [step EXCEPT ![s] = Stopped(steps[c][s], status)]
      BY <2>1 DEF StepThenJob
    <3> QED
      BY <1>1, <3>1, <3>2
  <2>2. CASE ~MayWriteStep(c, s)
    BY <2>2 DEF StepThenJob
  <2> QED
    BY <2>1, <2>2
<1>3. pc'[c] \notin Working
  BY <1>1 DEF StepThenJob, Working
<1> QED
  BY <1>2, <1>3, CountsKept

LEMMA CountStep ==
  ASSUME JobInv, Copies, Counted, NEW c \in Call, CallStep(c) PROVE Counted'
<1>o. StillOwned /\ Frame(c)
  BY OwnershipStep, AtWorkOwned, FrameStep
<1>c. /\ step \in [Step -> Budgeted] /\ steps \in [Call -> [Step -> Budgeted]]
      /\ pc \in [Call -> At] /\ starts \in [Step -> Nat]
      /\ \A r \in Budgeted : r.attempts \in Nat
  BY DEF JobInv, Control, Files, Budgeted, StepFile
<1>1. ASSUME Acquire(c) PROVE Counted'
  BY <1>1, <1>o, <1>c, CountsKept DEF Acquire, Goto, Enters, disk, Working
<1>2. ASSUME WriteOwnerLock(c) PROVE Counted'
  BY <1>2, <1>o, <1>c, CountsKept DEF WriteOwnerLock, Goto, local, Working
<1>3. ASSUME WriteOwnerJob(c) PROVE Counted'
  BY <1>3, <1>o, <1>c, CountsKept DEF WriteOwnerJob, Goto, Working
<1>4. ASSUME AcquireRefused(c) PROVE Counted'
  BY <1>4, <1>o, <1>c, CountsKept DEF AcquireRefused, Working, disk, history, Goto
<1>5. ASSUME Release(c) PROVE Counted'
  BY <1>5, <1>o, <1>c, CountsKept DEF Release, Goto, Enters, disk, Working
<1>6. ASSUME ClearOwner(c) PROVE Counted'
  BY <1>6, <1>o, <1>c, CountsKept DEF ClearOwner, Goto, Working
<1>7. ASSUME RemoveLock(c) PROVE Counted'
  BY <1>7, <1>o, <1>c, CountsKept DEF RemoveLock, Goto, Returns, local, history, Working
<1>8. ASSUME ReleaseNothing(c) PROVE Counted'
  BY <1>8, <1>o, <1>c, CountsKept DEF ReleaseNothing, Goto, Returns, disk, local, history, Working
<1>9. ASSUME LockTimeout(c) PROVE Counted'
  BY <1>9, <1>o, <1>c, CountsKept DEF LockTimeout, Goto, disk, local, history, Working
<1>10. ASSUME Settle(c) PROVE Counted'
  BY <1>10, <1>o, <1>c, CountsKept DEF Settle, WriteJob, Working, history
<1>11. ASSUME Inspect(c) PROVE Counted'
  BY <1>11, <1>o, <1>c, CountsKept DEF Inspect, Working, disk, history, Goto
<1>12. ASSUME MarkStale(c) PROVE Counted'
  BY <1>12, <1>o, <1>c, CountsKept DEF MarkStale, Overwrites, Working, Goto
<1>13. ASSUME BeginRecovery(c) PROVE Counted'
  BY <1>13, <1>o, <1>c, CountsKept DEF BeginRecovery, Working, disk, local, history, Goto
<1>14. ASSUME SkillOutdated(c) PROVE Counted'
  BY <1>14, <1>o, <1>c, CountsKept DEF SkillOutdated, Goto, disk, history, Working
<1>15. ASSUME MarkSkillRecovery(c) PROVE Counted'
  BY <1>15, <1>o, <1>c, CountsKept DEF MarkSkillRecovery, Goto, Working
<1>16. ASSUME PrepareUncertain(c) PROVE Counted'
  <2>1. \A s \in Step : Stopped(step[s], "recovery_required").attempts = step[s].attempts
    BY <1>c, StoppedAttempts
  <2>2. \A s \in Step : step'[s].attempts = step[s].attempts
    BY <1>16, <1>c, <2>1 DEF PrepareUncertain
  <2>3. pc'[c] \notin Working /\ starts' = starts
    BY <1>16, <1>c DEF PrepareUncertain, Working, history
  <2> QED
    BY <1>o, <2>2, <2>3, CountsKept
<1>17. ASSUME PrepareRequeue(c) PROVE Counted'
  <2>1. \A s \in Step : Stopped(step[s], "queued").attempts = step[s].attempts
    BY <1>c, StoppedAttempts
  <2>2. \A s \in Step : step'[s].attempts = step[s].attempts
    BY <1>17, <1>c, <2>1 DEF PrepareRequeue
  <2>3. pc'[c] \notin Working /\ starts' = starts
    BY <1>17, <1>c DEF PrepareRequeue, Working, history
  <2> QED
    BY <1>o, <2>2, <2>3, CountsKept
<1>18. ASSUME PrepareNothing(c) PROVE Counted'
  BY <1>18, <1>o, <1>c, CountsKept DEF PrepareNothing, Working, disk, local, history, Goto
<1>19. ASSUME Begin(c) PROVE Counted'
  BY <1>19, <1>o, <1>c, CountsKept DEF Begin, Working, disk, history, Goto
<1>20. ASSUME Load(c) PROVE Counted'
  BY <1>20, <1>o, <1>c, CountsKept DEF Load, Working, disk, history, Goto
<1>21. ASSUME TakeJob(c) PROVE Counted'
  <2> SUFFICES ASSUME ~undone' PROVE Counted'
    BY DEF Counted
  <2>1. ~undone /\ step' = step /\ starts' = starts
    BY <1>21 DEF TakeJob, history
  <2>2. /\ pc'[c] \in {"wait", "release"} /\ steps'[c] = step
    BY <1>21, <1>c DEF TakeJob, WriteJob
  <2>3. ASSUME NEW d \in Call \ {c}, Owned(d)', pc'[d] \in Working
        PROVE  /\ \A s \in Step : steps[d][s].attempts = step[s].attempts
               /\ pc[d] = "start" => starts[First(steps[d])] < step[First(steps[d])].attempts
    BY <1>o, <2>1, <2>3 DEF Counted, StillOwned, Frame
  <2> QED
    BY <1>o, <2>1, <2>2, <2>3 DEF Counted, Frame
<1>22. ASSUME Granted(c) PROVE Counted'
  BY <1>22, <1>o, <1>c, CountsKept DEF Granted, Working, disk, local, history, Goto
<1>23. ASSUME WaitEnds(c) PROVE Counted'
  <2>1. pc[c] \in Working /\ starts' = starts
    BY <1>23 DEF WaitEnds, Working, history
  <2>2. PICK status, j :
          StepThenJob(c, First(steps[c]), Stopped(steps[c][First(steps[c])], status), j, "settle")
    BY <1>23 DEF WaitEnds
  <2> QED
    BY <1>o, <2>1, <2>2, StopKeepsCounts
<1>24. ASSUME WaitCancelled(c) PROVE Counted'
  BY <1>24, <1>o, <1>c, CountsKept DEF WaitCancelled, Working, disk, history, Goto
<1>25. ASSUME Throw(c) PROVE Counted'
  BY <1>25, <1>o, <1>c, CountsKept DEF Throw, Working, disk, local, history, Goto
<1>26. ASSUME HeartbeatRead(c) PROVE Counted'
  BY <1>26, <1>o, <1>c, CountsKept DEF HeartbeatRead, Working, disk, history
<1>27. ASSUME HeartbeatWrite(c) PROVE Counted'
  BY <1>27, <1>o, <1>c, CountsKept DEF HeartbeatWrite, Working, history
<1>28. ASSUME Complete(c) PROVE Counted'
  BY <1>28, <1>o, <1>c, CountsKept DEF Complete, Working, disk, history, Goto
<1>29. ASSUME StopBefore(c) PROVE Counted'
  <2>1. pc[c] \in Working /\ starts' = starts
    BY <1>29 DEF StopBefore, Working, history
  <2>2. PICK status, j :
          StepThenJob(c, First(steps[c]), Stopped(steps[c][First(steps[c])], status), j, "settle")
    BY <1>29 DEF StopBefore
  <2> QED
    BY <1>o, <2>1, <2>2, StopKeepsCounts
<1>30. ASSUME MarkStep(c) PROVE Counted'
  <2> DEFINE s == First(steps[c])
             r == steps[c][s]
  <2>a. s \in Step /\ r \in Budgeted /\ r.attempts \in Nat /\ starts' = starts
    BY <1>30, <1>c, FirstIsStep DEF MarkStep, history
  <2>b. steps' = [steps EXCEPT ![c][s] = Running(c, r)]
    BY <1>30 DEF MarkStep
  <2>c. StepThenJob(c, s, Running(c, r), mine[c], "start")
    BY <1>30 DEF MarkStep
  <2> HIDE DEF s
  <2>1. CASE ~MayWriteStep(c, s)
    BY <1>o, <1>c, <2>a, <2>c, <2>1, CountsKept DEF StepThenJob, Working
  <2>2. CASE MayWriteStep(c, s)
    <3> SUFFICES ASSUME ~undone' PROVE Counted'
      BY DEF Counted
    <3>1. /\ ~undone /\ Owned(c) /\ pc[c] \in Working
      BY <1>30, <1>o, <2>2 DEF Frame, MayWriteStep, MarkStep, Working
    <3>2. /\ \A t \in Step : starts[t] <= step[t].attempts /\ starts[t] \in Nat
          /\ \A t \in Step : steps[c][t].attempts = step[t].attempts /\ step[t].attempts \in Nat
      BY <1>c, <3>1 DEF Counted
    <3>3. step' = [step EXCEPT ![s] = Running(c, r)] /\ pc' = [pc EXCEPT ![c] = "start"]
      BY <2>c, <2>2 DEF StepThenJob
    <3>4. Running(c, r).attempts = r.attempts + 1 /\ r.attempts = step[s].attempts
      BY <2>a, <3>2 DEF Running
    <3>5. \A d \in Call : Owned(d)' /\ pc'[d] \in Working => d = c
      BY <1>o, <3>1 DEF StillOwned, Owned
    <3>6. \A t \in Step : starts'[t] <= step'[t].attempts
      BY <1>c, <2>a, <3>2, <3>3, <3>4
    <3>7. \A t \in Step : steps'[c][t].attempts = step'[t].attempts
      BY <1>c, <2>a, <2>b, <3>2, <3>3, <3>4
    <3>8. First(steps'[c]) = s
      <4>1. steps'[c] = [steps[c] EXCEPT ![s] = Running(c, r)]
        BY <1>c, <2>b
      <4>2. \A t \in 1..(s - 1) : t \in Step /\ t # s /\ steps[c][t].status = "completed"
        BY <1>30, FirstIsStep, JobAssumption DEF MarkStep, Step, s
      <4>3. \A t \in 1..(s - 1) : steps'[c][t].status = "completed"
        BY <4>1, <4>2, <1>c
      <4>4. steps'[c][s].status # "completed"
        BY <4>1, <1>c, <2>a DEF Running
      <4> QED
        BY <2>a, <4>3, <4>4, OnlyFirst
    <3>9. starts'[First(steps'[c])] < step'[First(steps'[c])].attempts
      BY <1>c, <2>a, <3>2, <3>3, <3>4, <3>8
    <3> QED
      BY <3>5, <3>6, <3>7, <3>9 DEF Counted
  <2> QED
    BY <2>1, <2>2
<1>31. ASSUME StartStep(c) PROVE Counted'
  <2> DEFINE s == First(steps[c])
  <2>a. s \in Step
    BY <1>31, FirstIsStep DEF StartStep, JobInv, Files, StepInHand
  <2>b. MayWrite(c, InProgress(mine[c])) <=> MayWrite(c, mine[c])
    BY RecordFields DEF MayWrite, JobInv, Records
  <2>c. /\ step' = step /\ steps' = steps
        /\ starts' = IF MayWrite(c, mine[c]) THEN [starts EXCEPT ![s] = starts[s] + 1] ELSE starts
        /\ pc' = [pc EXCEPT ![c] = IF MayWrite(c, mine[c]) THEN "run" ELSE "release"]
    BY <1>31, <2>b DEF StartStep, WriteJob
  <2> HIDE DEF s
  <2>1. CASE ~MayWrite(c, mine[c])
    BY <1>o, <1>c, <2>c, <2>1, CountsKept DEF Working
  <2>2. CASE MayWrite(c, mine[c])
    <3> SUFFICES ASSUME ~undone' PROVE Counted'
      BY DEF Counted
    <3>1. ~undone /\ Owned(c) /\ pc[c] = "start"
      BY <1>31, <1>o, <2>2 DEF Frame, MayWrite, StartStep
    <3>2. /\ \A t \in Step : starts[t] <= step[t].attempts /\ starts[t] \in Nat
          /\ \A t \in Step : steps[c][t].attempts = step[t].attempts /\ step[t].attempts \in Nat
          /\ starts[s] < step[s].attempts
      BY <1>c, <3>1 DEF Counted, Working, s
    <3>3. \A t \in Step : starts'[t] <= step'[t].attempts
      BY <1>c, <2>a, <2>c, <2>2, <3>2
    <3>4. \A d \in Call : Owned(d)' /\ pc'[d] \in Working => d = c
      BY <1>o, <3>1 DEF StillOwned, Owned
    <3>5. pc'[c] = "run"
      BY <1>c, <2>c, <2>2
    <3> QED
      BY <2>c, <3>2, <3>3, <3>4, <3>5 DEF Counted
  <2> QED
    BY <2>1, <2>2
<1>32. ASSUME HandlerReturns(c) PROVE Counted'
  BY <1>32, <1>o, <1>c, CountsKept DEF HandlerReturns, Working, disk, local, history, Goto
<1>33. ASSUME HandlerThrows(c) PROVE Counted'
  BY <1>33, <1>o, <1>c, CountsKept DEF HandlerThrows, Working, disk, local, history, Goto
<1>34. ASSUME WriteOutput(c) PROVE Counted'
  BY <1>34, <1>o, <1>c, CountsKept DEF WriteOutput, Working, local, history, Goto
<1>35. ASSUME CompleteStep(c) PROVE Counted'
  <2> DEFINE s == First(steps[c])
  <2>1. ASSUME ~undone' PROVE \A t \in Step : step'[t].attempts = step[t].attempts
    <3>1. CASE MayWriteStep(c, s)
      <4>1. pc[c] \in Working /\ Owned(c)
        BY <1>35, <3>1 DEF CompleteStep, Goto, Working, MayWriteStep
      <4>2. s \in Step => Stopped(steps[c][s], "completed").attempts = step[s].attempts
        BY <1>o, <2>1, <4>1, OwnerKnows
      <4>3. step' = [step EXCEPT ![s] = Stopped(steps[c][s], "completed")]
        BY <1>35, <3>1 DEF CompleteStep
      <4> QED
        BY <1>c, <4>2, <4>3
    <3>2. CASE ~MayWriteStep(c, s)
      BY <1>35, <3>2 DEF CompleteStep
    <3> QED
      BY <3>1, <3>2
  <2>2. /\ pc[c] \in Working /\ pc'[c] # "start" /\ steps' = steps /\ starts' = starts
    BY <1>35, <1>c DEF CompleteStep, Goto, Working, local, history
  <2> QED
    BY <1>o, <2>1, <2>2, CountsKept
<1>36. ASSUME RecordStep(c) PROVE Counted'
  <2> DEFINE s == First(steps[c])
  <2>1. \A t \in Step : Stopped(steps[c][t], "completed").attempts = steps[c][t].attempts
    BY <1>c, StoppedAttempts
  <2>2. \A t \in Step : steps'[c][t].attempts = steps[c][t].attempts
    BY <1>36, <1>c, <2>1 DEF RecordStep
  <2>3. /\ pc[c] \in Working /\ pc'[c] # "start" /\ step' = step /\ starts' = starts
    BY <1>36, <1>c DEF RecordStep, WriteJob, Working, history
  <2> QED
    BY <1>o, <2>2, <2>3, CountsKept
<1>37. ASSUME Reload(c) PROVE Counted'
  BY <1>37, <1>o, <1>c, CountsKept DEF Reload, Working, disk, history, Goto
<1>38. ASSUME FailStep(c) PROVE Counted'
  <2>1. pc[c] \in Working /\ starts' = starts
    BY <1>38 DEF FailStep, Working, history
  <2>2. PICK status, j :
          StepThenJob(c, First(steps[c]), Stopped(steps[c][First(steps[c])], status), j, "settle")
    BY <1>38 DEF FailStep
  <2> QED
    BY <1>o, <2>1, <2>2, StopKeepsCounts
<1>39. ASSUME Conclude(c) PROVE Counted'
  BY <1>39, <1>o, <1>c, CountsKept DEF Conclude, Overwrites, Working, local, Goto
<1>40. ASSUME RetryThrows(c) PROVE Counted'
  BY <1>40, <1>o, <1>c, CountsKept DEF RetryThrows, Working, disk, local, history, Goto
<1>41. ASSUME Retry(c) PROVE Counted'
  <2>1. \A s \in Step : /\ Stopped(step[s], "queued").attempts = step[s].attempts
                       /\ [step[s] EXCEPT !.status = "blocked"].attempts = step[s].attempts
    BY <1>c, StoppedAttempts DEF Budgeted, StepFile
  <2>2. PICK s, r, j :
          /\ s \in Step
          /\ r = Stopped(step[s], "queued") \/ r = [step[s] EXCEPT !.status = "blocked"]
          /\ StepThenJob(c, s, r, j, "settle")
    BY <1>41, JobAssumption DEF Retry
  <2>3. r.attempts = step[s].attempts
    BY <2>1, <2>2
  <2>4. \A t \in Step : step'[t].attempts = step[t].attempts
    BY <1>c, <2>2, <2>3 DEF StepThenJob
  <2>5. pc'[c] \notin Working
    BY <1>c, <2>2 DEF StepThenJob, Working
  <2>6. starts' = starts
    BY <1>41 DEF Retry, history
  <2> QED
    BY <1>o, <2>4, <2>5, <2>6, CountsKept
<1>42. ASSUME BeginCancel(c) PROVE Counted'
  <2>1. pc'[c] \in {"done", "cancelStep", "cancelJob"} /\ step' = step /\ starts' = starts
    BY <1>42, <1>c DEF BeginCancel, Goto, disk, history
  <2> QED
    BY <1>o, <2>1, CountsKept DEF Working
<1>43. ASSUME CancelStep(c) PROVE Counted'
  <2>1. ASSUME ~undone' PROVE \A s \in Step : step'[s].attempts = step[s].attempts
    <3>1. \A t \in Step : step[t].attempts = steps[c][t].attempts
      BY <1>43, <2>1 DEF CancelStep
    <3>2. \A s \in Step : Stopped(steps[c][s], "cancelled").attempts = step[s].attempts
      BY <1>c, <3>1, StoppedAttempts
    <3> QED
      BY <1>43, <1>c, <3>2 DEF CancelStep
  <2>2. pc'[c] \notin Working /\ starts' = starts
    BY <1>43, <1>c DEF CancelStep, Goto, Working
  <2> QED
    BY <1>o, <2>1, <2>2, CountsKept
<1>44. ASSUME CancelJob(c) PROVE Counted'
  BY <1>44, <1>o, <1>c, CountsKept DEF CancelJob, Overwrites, Working, local, Goto
<1> QED
  BY <1>1, <1>2, <1>3, <1>4, <1>5, <1>6, <1>7, <1>8, <1>9, <1>10, <1>11, <1>12, <1>13, <1>14,
     <1>15, <1>16, <1>17, <1>18, <1>19, <1>20, <1>21, <1>22, <1>23, <1>24, <1>25, <1>26, <1>27,
     <1>28, <1>29, <1>30, <1>31, <1>32, <1>33, <1>34, <1>35, <1>36, <1>37, <1>38, <1>39, <1>40,
     <1>41, <1>42, <1>43, <1>44 DEF CallStep, StoreStep, RecoverStep, ExecuteStep, UserStep

-----------------------------------------------------------------------------
\* A death and a stutter change none of it.
LEMMA QuietStep ==
  ASSUME Copies, Counted, UNCHANGED <<job, step, pc, local, history>>
  PROVE  Copies' /\ Counted'
<1>1. \A d \in Call : LocalCopies(d)'
  BY CopiesAreLocal, OthersKeepCopies DEF local
<1>2. FinalUnowned' /\ (undone => clobbered)'
  BY DEF Copies, FinalUnowned, history
<1>3. Counted'
  BY DEF Counted, Owned, local, history
<1> QED
  BY <1>1, <1>2, <1>3 DEF Copies, LocalCopies, HeldFollows, ClaimFollows, InspectedFollows,
     CancelFollows, MineFollows

LEMMA HistoryStep ==
  ASSUME JobInv, Copies, Counted, [Next]_vars
  PROVE  /\ Copies' /\ Counted'
         /\ job.status \in Final /\ job'.status \notin Terminal
              => \E c \in Call : Outdated(c) \/ SkillChecked(c)
<1>1. ASSUME NEW c \in Call, CallStep(c)
      PROVE  /\ Copies' /\ Counted'
             /\ job.status \in Final /\ job'.status \notin Terminal
                  => Outdated(c) \/ SkillChecked(c)
  <2>1. LocalCopies(c)' /\ FinalKept(c) /\ Counted' /\ Frame(c)
    BY <1>1, OwnStep, FinalStep, CountStep, FrameStep
  <2>2. \A d \in Call : LocalCopies(d)'
    <3> TAKE d \in Call
    <3>1. LocalCopies(d)
      BY CopiesAreLocal
    <3> QED
      BY <2>1, <3>1, OthersKeepCopies DEF Frame
  <2>3. FinalUnowned' /\ (undone => clobbered)'
    BY <2>1 DEF FinalKept, Frame, Copies
  <2>4. Copies'
    BY <2>2, <2>3 DEF Copies, LocalCopies, HeldFollows, ClaimFollows, InspectedFollows,
       CancelFollows, MineFollows
  <2> QED
    BY <2>1, <2>4 DEF FinalKept
<1>2. CASE UNCHANGED <<job, step, pc, local, history>>
  BY <1>2, QuietStep DEF Final, Terminal
<1>3. ASSUME NEW p \in Proc, Crash(p) PROVE UNCHANGED <<job, step, pc, local, history>>
  BY <1>3 DEF Crash, disk
<1>4. UNCHANGED vars => UNCHANGED <<job, step, pc, local, history>>
  BY DEF vars, disk
<1> QED
  BY <1>1, <1>2, <1>3, <1>4 DEF Next, CallStep

LEMMA HistoryAlways == Spec => [](JobInv /\ Copies /\ Counted)
<1>1. Init => JobInv /\ Copies /\ Counted
  BY InitInv, InitCopies
<1>2. JobInv /\ Copies /\ Counted /\ [Next]_vars => (JobInv /\ Copies /\ Counted)'
  BY NextInv, HistoryStep
<1> QED
  BY <1>1, <1>2, PTL DEF Spec

\* Unless a write that does not ask who owns the job (markStale, requestCancel, a Skill
\* check, executeDurableAsyncTask) brought back an old owner or an old count, the handler
\* of a step is started at most loop_budget.max_attempts_per_step times, over all
\* executions, crashes, takeovers, retries and broken fence locks: the step file counts
\* every start before it happens.
THEOREM BudgetHolds == Spec => []StartsWithinBudget
<1>1. JobInv /\ Counted => StartsWithinBudget
  <2> SUFFICES ASSUME JobInv, Counted, ~undone, NEW s \in Step PROVE starts[s] <= budget
    BY DEF StartsWithinBudget
  <2>1. /\ starts[s] \in Nat /\ step[s].attempts \in Nat /\ step[s].attempts <= budget
        /\ budget \in Nat
    BY JobAssumption DEF JobInv, Control, Files, Budgeted, StepFile
  <2>2. starts[s] <= step[s].attempts
    BY DEF Counted
  <2> QED
    BY <2>1, <2>2
<1> QED
  BY <1>1, HistoryAlways, PTL

\* A job that was completed or cancelled becomes runnable again only in the very step
\* that writes back a record read before the end, or by a Skill check
\* (markSkillRecoveryRequired); never by a retry, a recovery, a heartbeat or an
\* execution under its own guard, and as firmly after such a write as before.
THEOREM EndedStaysEnded == Spec => FinalIsFinal
<1>1. /\ JobInv /\ Copies /\ Counted /\ [Next]_vars
      => [job.status \in {"completed", "cancelled"} /\ job'.status \notin Terminal
          => \E c \in Call : Outdated(c) \/ (pc[c] = "skill" /\ pc'[c] = "done")]_vars
  BY HistoryStep DEF Final, SkillChecked
<1> QED
  BY <1>1, HistoryAlways, PTL DEF Spec, FinalIsFinal

-----------------------------------------------------------------------------
(* A running step has an owner that knows of it.                           *)

InFlight(s) == step[s].status = "running"

\* The job has an owner and has not ended, or it was cancelled for good.
Claimed == job.status = "cancelled" \/ (job.owner # NoCall /\ job.status \notin Terminal)

\* The owner is a recovery that has not looked yet, or an executor at work on it.
InStep == {"start", "run", "output", "stepDone", "failed"}
Engaged(c, s) ==
  \/ Takeover(c) /\ pc[c] = "prepare"
  \/ pc[c] \in InStep /\ s = First(steps[c]) /\ step[s].owner = c

\* What an executor that owns the job has in hand: the job has not ended, is its own, and
\* neither its copy nor what its heartbeat will write back ends it.
Naming == {"wait", "next", "start", "run", "output", "stepDone", "jobDone"}
Busy(c) ==
  /\ pc[c] \in Working => job.status \notin Terminal
  /\ pc[c] \in Naming => mine[c].owner = c
  /\ pc[c] \in {"run", "output", "stepDone", "jobDone"} => mine[c].status \notin Terminal
  /\ pc[c] \in {"wait", "run"} => held[c] = NoCopy \/ held[c].status \notin Terminal

\* A cancellation writes back the record it read with the request, or cancelled.
Cancelling(c) ==
  pc[c] \in {"cancelStep", "cancelJob"} =>
    mine[c].status = "cancelled" \/ mine[c] = [held[c] EXCEPT !.cancel = TRUE]

Attends(c) ==
  /\ Owned(c) => Busy(c) /\ \A s \in Step : InFlight(s) => Engaged(c, s)
  /\ Cancelling(c)

Attended ==
  clobbered \/
  /\ \A s, t \in Step : InFlight(s) /\ InFlight(t) => s = t
  /\ \A s \in Step : InFlight(s) => Claimed
  /\ \A c \in Call : Attends(c)

\* A running step that is not idempotent gets an outcome or stays as it is.
Uncertainty ==
  \A s \in Step \ Idempotent :
    InFlight(s) => step'[s] = step[s] \/ step'[s].status \notin {"queued", "running"}

\* What has to be shown of an action of call c that starts no step.
Careful(c) ==
  /\ \A s \in Step : InFlight(s)' => InFlight(s) /\ step'[s].owner = step[s].owner
  /\ \A s \in Step : InFlight(s)' => Claimed'
  /\ job.status \notin Terminal => job'.status \notin Terminal \/ job'.owner \in {NoCall, c}
  /\ Attends(c)'

LEMMA InitAttended == Init => Attended
BY JobAssumption DEF Init, Attended, InFlight, NewStep, NewJob, Attends, Busy, Cancelling,
   Owned

\* The other calls still know what they knew.
LEMMA OthersAttend ==
  ASSUME Attended, ~clobbered', ~undone', NEW c \in Call, Frame(c), OwnerKept(c),
         NEW d \in Call \ {c},
         \A s \in Step : InFlight(s)' => InFlight(s) /\ step'[s].owner = step[s].owner,
         job.status \notin Terminal => job'.status \notin Terminal \/ job'.owner \in {NoCall, c}
  PROVE  Attends(d)'
<1>1. Attends(d)
  BY DEF Attended, Frame
<1>2. /\ pc'[d] = pc[d] /\ held'[d] = held[d] /\ mine'[d] = mine[d]
      /\ fence'[d] = fence[d] /\ steps'[d] = steps[d]
  BY DEF Frame
<1>3. Owned(d)' => Owned(d) /\ job'.owner = d
  BY DEF OwnerKept, Owned
<1>4. Owned(d)' => Busy(d)'
  BY <1>1, <1>2, <1>3, JobAssumption DEF Attends, Busy
<1> QED
  BY <1>1, <1>2, <1>3, <1>4 DEF Attends, Engaged, Cancelling

LEMMA CarefulStep ==
  ASSUME Attended, NEW c \in Call, Frame(c), OwnerKept(c), ~clobbered', ~undone', Careful(c)
  PROVE  Attended'
<1>1. ~clobbered
  BY DEF Frame
<1>2. \A d \in Call : Attends(d)'
  BY OthersAttend DEF Careful
<1> QED
  BY <1>1, <1>2 DEF Attended, Careful

\* An action that writes no step.
LEMMA FilesKept ==
  ASSUME Attended, ~clobbered, ~clobbered', ~undone', NEW c \in Call, OwnerKept(c),
         pc[c] # "ownerJob", step' = step,
         \A s \in Step : InFlight(s) /\ Claimed => Claimed',
         job.status \notin Terminal => job'.status \notin Terminal \/ job'.owner \in {NoCall, c},
         Owned(c)' => Busy(c)', Cancelling(c)',
         \/ pc[c] \notin InStep \cup {"prepare"}
         \/ pc[c] \in InStep /\ pc'[c] \in InStep /\ steps'[c] = steps[c]
         \/ ~Owned(c) \/ \A s \in Step : ~InFlight(s)
  PROVE  Careful(c) /\ Uncertainty
<1>1. /\ \A s \in Step : InFlight(s) => Claimed
      /\ Attends(c)
  BY DEF Attended
<1>2. \A s \in Step : InFlight(s)' <=> InFlight(s)
  BY DEF InFlight
<1>3. Owned(c)' => Owned(c)
  BY DEF OwnerKept
<1>4. ASSUME Owned(c)', NEW s \in Step, InFlight(s)' PROVE Engaged(c, s)'
  <2>1. InFlight(s) /\ Engaged(c, s)
    BY <1>1, <1>2, <1>3, <1>4 DEF Attends
  <2>2. pc[c] \in InStep /\ pc'[c] \in InStep /\ steps'[c] = steps[c]
    BY <1>3, <1>4, <2>1 DEF Engaged
  <2>3. s = First(steps[c]) /\ step[s].owner = c
    BY <2>1, <2>2 DEF Engaged, InStep
  <2> QED
    BY <2>2, <2>3 DEF Engaged
<1>5. Careful(c)
  BY <1>1, <1>2, <1>4 DEF Careful, Attends
<1> QED
  BY <1>5 DEF Uncertainty

\* An action that writes neither a step nor the job.
LEMMA DiskKept ==
  ASSUME Attended, ~clobbered, ~clobbered', ~undone', NEW c \in Call, OwnerKept(c),
         pc[c] # "ownerJob", step' = step, job' = job, Owned(c) => Busy(c)', Cancelling(c)',
         \/ pc[c] \notin InStep \cup {"prepare"}
         \/ pc[c] \in InStep /\ pc'[c] \in InStep /\ steps'[c] = steps[c]
         \/ ~Owned(c) \/ \A s \in Step : ~InFlight(s)
  PROVE  Careful(c) /\ Uncertainty
<1>1. Owned(c)' => Owned(c)
  BY DEF OwnerKept
<1>2. Owned(c)' => Busy(c)'
  BY <1>1
<1>3. Claimed => Claimed'
  BY DEF Claimed
<1> QED
  BY <1>2, <1>3, FilesKept

\* An action after which no step runs.
LEMMA NoneLeft ==
  ASSUME NEW c \in Call, \A s \in Step : ~InFlight(s)', Owned(c)' => Busy(c)', Cancelling(c)',
         job.status \notin Terminal => job'.status \notin Terminal \/ job'.owner \in {NoCall, c}
  PROVE  Careful(c)
BY DEF Careful, Attends

\* The owner writes the only step that may run, and the call is about to settle.
LEMMA StepStopped ==
  ASSUME JobInv, Attended, ~clobbered, ~clobbered', ~undone', NEW c \in Call, OwnerKept(c),
         pc[c] # "ownerJob", NEW s \in Step, NEW r, r.status # "running",
         NEW j, StepThenJob(c, s, r, j, "settle"), job' = job,
         Owned(c) => \A t \in Step : InFlight(t) => /\ t = s /\ step[s].owner = c
                                                    /\ r.status # "queued"
  PROVE  Careful(c) /\ Uncertainty
<1>1. step \in [Step -> Budgeted] /\ pc \in [Call -> At]
  BY DEF JobInv, Files, Control
<1>2. pc'[c] \in {"settle", "release"}
  BY <1>1 DEF StepThenJob
<1>3. Busy(c)' /\ Cancelling(c)'
  BY <1>2 DEF Busy, Cancelling, Working, Naming
<1>4. CASE MayWriteStep(c, s)
  <2>1. Owned(c) /\ step' = [step EXCEPT ![s] = r]
    BY <1>4 DEF StepThenJob, MayWriteStep
  <2>2. \A t \in Step : ~InFlight(t)'
    BY <1>1, <2>1 DEF InFlight
  <2>3. Uncertainty
    BY <1>1, <2>1 DEF Uncertainty
  <2> QED
    BY <1>3, <2>2, <2>3, NoneLeft
<1>5. CASE ~MayWriteStep(c, s)
  <2>1. step' = step
    BY <1>5 DEF StepThenJob
  <2>2. ~Owned(c) \/ \A t \in Step : ~InFlight(t)
    BY <1>5 DEF MayWriteStep
  <2> QED
    BY <1>3, <2>1, <2>2, DiskKept
<1> QED
  BY <1>4, <1>5

LEMMA InProgressFields ==
  ASSUME NEW j \in Job
  PROVE  /\ InProgress(j).status \notin Terminal
         /\ InProgress(j).owner = j.owner
BY DEF Job, InProgress, Terminal

\* An owned write of the job by a call whose step, if it runs, goes on.
LEMMA JobWritten ==
  ASSUME JobInv, Attended, ~clobbered, ~clobbered', ~undone', NEW c \in Call, OwnerKept(c),
         pc[c] # "ownerJob",
         step' = step, NEW j \in Job, NEW to, NEW refused, WriteJob(c, j, to, refused),
         Owned(c)' => Busy(c)', Cancelling(c)',
         \/ \A s \in Step : ~InFlight(s)
         \/ pc[c] \notin InStep \cup {"prepare"}
         \/ ~Owned(c)
         \/ /\ j.status \notin Terminal /\ j.owner = c /\ pc[c] \in InStep
            /\ to \in InStep /\ steps'[c] = steps[c]
  PROVE  Careful(c) /\ Uncertainty
<1>1. CASE MayWrite(c, j)
  <2>1. job' = Stamped(c, j) /\ pc'[c] = to /\ Owned(c) /\ j.owner \in {NoCall, c}
    BY <1>1 DEF WriteJob, MayWrite, JobInv, Control
  <2>2. job'.status = j.status /\ job'.owner = j.owner
    BY <2>1, StampedFields
  <2>3. Attends(c)
    BY DEF Attended
  <2>4. \A s \in Step : InFlight(s) => Claimed'
    BY <2>1, <2>2, <2>3, JobAssumption DEF Claimed, Attends, Engaged
  <2> QED
    BY <2>1, <2>2, <2>3, <2>4, FilesKept DEF Attends, Engaged
<1>2. CASE ~MayWrite(c, j)
  <2>1. job' = job
    BY <1>2 DEF WriteJob
  <2>2. Attends(c)
    BY DEF Attended
  <2>3. ~Owned(c) \/ ~(j.owner = c)
    BY <1>2 DEF MayWrite
  <2>4. Claimed => Claimed'
    BY <2>1 DEF Claimed
  <2> QED
    BY <2>1, <2>2, <2>3, <2>4, FilesKept
<1> QED
  BY <1>1, <1>2

-----------------------------------------------------------------------------
\* A running step is the first of those that are left.
LEMMA StillFirst ==
  ASSUME JobInv, NEW c \in Call, ~AllDone(steps[c]), NEW r, r.status = "running",
         steps' = [steps EXCEPT ![c][First(steps[c])] = r]
  PROVE  First(steps'[c]) = First(steps[c])
<1> DEFINE s == First(steps[c])
<1>c. steps \in [Call -> [Step -> Budgeted]]
  BY DEF JobInv, Files
<1>1. s \in Step /\ \A t \in 1..(s - 1) : steps[c][t].status = "completed"
  BY FirstIsStep
<1>2. steps'[c] = [steps[c] EXCEPT ![s] = r]
  BY <1>c
<1> HIDE DEF s
<1>3. \A t \in 1..(s - 1) : t \in Step /\ t # s
  BY <1>1, JobAssumption DEF Step
<1>4. \A t \in 1..(s - 1) : steps'[c][t].status = "completed"
  BY <1>1, <1>2, <1>3, <1>c
<1>5. steps'[c][s].status # "completed"
  BY <1>1, <1>2, <1>c
<1> QED
  BY <1>1, <1>4, <1>5, OnlyFirst DEF s

\* Each action of a call keeps a running step attended, and an uncertain one as it is.
LEMMA AttendedStep ==
  ASSUME JobInv, Copies, Attended, NEW c \in Call, CallStep(c), ~clobbered'
  PROVE  Attended' /\ Uncertainty
<1>o. Frame(c) /\ OwnerKept(c) /\ ~clobbered /\ ~undone'
  BY FrameStep, OwnershipStep DEF Frame, Copies
<1>c. /\ job \in Job /\ CopyInHand /\ held \in [Call -> Job \cup {NoCopy}] /\ mine \in [Call -> Job]
      /\ fence \in [Call -> Nat] /\ pc \in [Call -> At]
      /\ step \in [Step -> Budgeted] /\ steps \in [Call -> [Step -> Budgeted]]
  BY DEF JobInv, Control, Records, Files
<1>l. LocalCopies(c) /\ FinalUnowned
  BY CopiesAreLocal
<1>a. /\ Attends(c) /\ \A s, t \in Step : InFlight(s) /\ InFlight(t) => s = t
      /\ \A s \in Step : InFlight(s) => Claimed
  BY <1>o DEF Attended
<1>b. Owned(c) => Busy(c)
  BY <1>a DEF Attends
<1>e. /\ Owned(c) /\ pc[c] \notin InStep \cup {"prepare"} => \A s \in Step : ~InFlight(s)
      /\ Owned(c) /\ pc[c] \in InStep
         => \A s \in Step : InFlight(s) => s = First(steps[c]) /\ step[s].owner = c
  BY <1>a DEF Attends, Engaged, InStep
<1>f. ~AllDone(steps[c]) => First(steps[c]) \in Step
  BY FirstIsStep
<1>w. Owned(c) => job.status \notin Terminal \/ \A s \in Step : ~InFlight(s)
  BY <1>o, <1>a, <1>l, JobAssumption DEF Claimed, FinalUnowned, Owned, Final, Terminal
<1> USE <1>o, <1>c
<1>1. ASSUME Acquire(c) PROVE Attended' /\ Uncertainty
  <2>1. /\ step' = step /\ job' = job /\ pc[c] \notin {"ownerJob", "prepare"} \cup InStep
        /\ pc'[c] \notin Working \cup {"cancelStep", "cancelJob"}
    BY <1>1 DEF Acquire, Goto, Enters, disk, InStep, Working
  <2>2. Busy(c)' /\ Cancelling(c)'
    BY <2>1 DEF Busy, Cancelling, Working, Naming
  <2> QED
    BY <2>1, <2>2, DiskKept, CarefulStep
<1>2. ASSUME WriteOwnerLock(c) PROVE Attended' /\ Uncertainty
  <2>1. /\ step' = step /\ job' = job /\ pc[c] \notin {"ownerJob", "prepare"} \cup InStep
        /\ pc'[c] \notin Working \cup {"cancelStep", "cancelJob"}
    BY <1>2 DEF WriteOwnerLock, Goto, local, InStep, Working
  <2>2. Busy(c)' /\ Cancelling(c)'
    BY <2>1 DEF Busy, Cancelling, Working, Naming
  <2> QED
    BY <2>1, <2>2, DiskKept, CarefulStep
<1>3. ASSUME WriteOwnerJob(c) PROVE Attended' /\ Uncertainty
  <2>1. /\ held[c] \in Job /\ step' = step /\ pc[c] = "ownerJob"
        /\ job' = [held[c] EXCEPT !.owner = c, !.fence = fence[c], !.pid = ProcOf[c]]
        /\ pc'[c] \in {"load", "retry", "prepare"} /\ (Takeover(c) => pc'[c] = "prepare")
        /\ Takeover(c) \/ job = held[c]
    BY <1>3 DEF WriteOwnerJob, Goto, Takeover, Copying, CopyInHand
  <2>2. job'.owner = c /\ job'.status = held[c].status
    BY <2>1 DEF Job
  <2>3. /\ held[c].status \notin Terminal \/ (KindOf[c] = "retry" /\ held[c].status \notin Final)
        /\ Takeover(c) \/ held[c].owner = NoCall
    BY <1>l, <2>1 DEF LocalCopies
  <2>4. Busy(c)' /\ Cancelling(c)'
    BY <2>1 DEF Busy, Cancelling, Working, Naming
  <2>5. ASSUME NEW s \in Step, InFlight(s)' PROVE Claimed' /\ Engaged(c, s)'
    <3>1. Claimed
      BY <2>1, <2>5, <1>a DEF InFlight
    <3>2. Takeover(c) /\ held[c].status \notin Terminal
      BY <2>1, <2>3, <3>1 DEF Claimed, Takeover, Final, Terminal
    <3> QED
      BY <2>1, <2>2, <3>2, JobAssumption DEF Claimed, Engaged, Takeover
  <2>6. Careful(c)
    BY <2>1, <2>2, <2>4, <2>5 DEF Careful, Attends, InFlight
  <2> QED
    BY <2>1, <2>6, CarefulStep DEF Uncertainty
<1>4. ASSUME AcquireRefused(c) PROVE Attended' /\ Uncertainty
  <2>1. /\ step' = step /\ job' = job /\ fence' = fence /\ pc[c] = "acquire"
        /\ pc'[c] \in {"conclude", "done"}
    BY <1>4 DEF AcquireRefused, disk, Goto
  <2>2. Busy(c)' /\ Cancelling(c)'
    BY <2>1 DEF Busy, Cancelling, Working, Naming
  <2>3. \A s \in Step : Owned(c)' => ~InFlight(s)'
    BY <2>1, <1>e DEF Owned, InFlight, InStep
  <2>4. Careful(c)
    BY <2>1, <2>2, <2>3, <1>a DEF Careful, Attends, Claimed, InFlight
  <2> QED
    BY <2>1, <2>4, CarefulStep DEF Uncertainty
<1>5. ASSUME Release(c) PROVE Attended' /\ Uncertainty
  <2>1. /\ step' = step /\ job' = job /\ pc[c] \notin {"ownerJob", "prepare"} \cup InStep
        /\ pc'[c] \notin Working \cup {"cancelStep", "cancelJob"}
    BY <1>5 DEF Release, Goto, Enters, disk, InStep, Working
  <2>2. Busy(c)' /\ Cancelling(c)'
    BY <2>1 DEF Busy, Cancelling, Working, Naming
  <2> QED
    BY <2>1, <2>2, DiskKept, CarefulStep
<1>6. ASSUME ClearOwner(c) PROVE Attended' /\ Uncertainty
  <2>1. /\ held[c] \in Job /\ step' = step /\ pc[c] \in {"clear", "returnClear"}
        /\ pc'[c] \in {"unlock", "returnUnlock"}
        /\ \/ job' = job
           \/ Owned(c) /\ job' = [held[c] EXCEPT !.owner = NoCall, !.pid = NoProc]
    BY <1>6 DEF ClearOwner, Goto, Copying, CopyInHand, Owned
  <2>2. Busy(c)' /\ Cancelling(c)' /\ pc[c] \notin InStep \cup {"prepare"}
    BY <2>1 DEF Busy, Cancelling, Working, Naming, InStep
  <2>3. job' = job \/ (Owned(c) /\ job'.owner = NoCall)
    BY <2>1 DEF Job
  <2>4. \A s \in Step : InFlight(s) /\ Claimed => Claimed'
    BY <2>2, <2>3, <1>e DEF Claimed
  <2> QED
    BY <2>1, <2>2, <2>3, <2>4, FilesKept, CarefulStep
<1>7. ASSUME RemoveLock(c) PROVE Attended' /\ Uncertainty
  <2>1. /\ step' = step /\ job' = job /\ pc[c] \notin {"ownerJob", "prepare"} \cup InStep
        /\ pc'[c] \notin Working \cup {"cancelStep", "cancelJob"}
    BY <1>7 DEF RemoveLock, Goto, Returns, local, history, InStep, Working
  <2>2. Busy(c)' /\ Cancelling(c)'
    BY <2>1 DEF Busy, Cancelling, Working, Naming
  <2> QED
    BY <2>1, <2>2, DiskKept, CarefulStep
<1>8. ASSUME ReleaseNothing(c) PROVE Attended' /\ Uncertainty
  <2>1. /\ step' = step /\ job' = job /\ pc[c] \notin {"ownerJob", "prepare"} \cup InStep
        /\ pc'[c] \notin Working \cup {"cancelStep", "cancelJob"}
    BY <1>8 DEF ReleaseNothing, Goto, Returns, disk, local, history, InStep, Working
  <2>2. Busy(c)' /\ Cancelling(c)'
    BY <2>1 DEF Busy, Cancelling, Working, Naming
  <2> QED
    BY <2>1, <2>2, DiskKept, CarefulStep
<1>9. ASSUME LockTimeout(c) PROVE Attended' /\ Uncertainty
  <2>1. /\ step' = step /\ job' = job /\ pc[c] \notin {"ownerJob", "prepare"} \cup InStep
        /\ pc'[c] \notin Working \cup {"cancelStep", "cancelJob"}
    BY <1>9 DEF LockTimeout, Goto, disk, local, history, InStep, Working
  <2>2. Busy(c)' /\ Cancelling(c)'
    BY <2>1 DEF Busy, Cancelling, Working, Naming
  <2> QED
    BY <2>1, <2>2, DiskKept, CarefulStep
<1>10. ASSUME Settle(c) PROVE Attended' /\ Uncertainty
  <2>1. /\ step' = step /\ pc[c] = "settle" /\ pc'[c] \in {"claim", "return", "release"}
        /\ \E to : WriteJob(c, mine[c], to, "release")
    BY <1>10 DEF Settle, WriteJob
  <2>2. Busy(c)' /\ Cancelling(c)' /\ pc[c] \notin InStep \cup {"prepare"}
    BY <2>1 DEF Busy, Cancelling, Working, Naming, InStep
  <2> QED
    BY <2>1, <2>2, JobWritten, CarefulStep
<1>11. ASSUME Inspect(c) PROVE Attended' /\ Uncertainty
  <2>1. /\ step' = step /\ job' = job /\ pc[c] # "ownerJob"
        /\ Owned(c) => Busy(c)'
        /\ Cancelling(c)'
    BY <1>11, <1>b, JobAssumption DEF Inspect, disk, history, Goto, Busy, Cancelling,
       Working, Naming
  <2>2. pc[c] \notin InStep \cup {"prepare"}
    BY <1>11 DEF Inspect, disk, history, Goto, InStep
  <2> QED
    BY <2>1, <2>2, DiskKept, CarefulStep
<1>12. ASSUME MarkStale(c) PROVE Attended' /\ Uncertainty
  <2>1. /\ step' = step /\ pc[c] = "inspected" /\ pc'[c] \in {"acquire", "done"}
        /\ job' = mine[c] /\ job = held[c]
    BY <1>12 DEF MarkStale, Overwrites, Goto
  <2>2. job.status \notin Terminal /\ mine[c] \in {job, [job EXCEPT !.status = "stale"]}
    BY <2>1, <1>l DEF LocalCopies, Settled
  <2>3. job'.status \notin Terminal /\ job'.owner = job.owner
    BY <2>1, <2>2 DEF Job, Terminal
  <2>4. Busy(c)' /\ Cancelling(c)' /\ pc[c] \notin InStep \cup {"prepare"}
    BY <2>1 DEF Busy, Cancelling, Working, Naming, InStep
  <2>5. Claimed => Claimed'
    BY <2>2, <2>3 DEF Claimed, Terminal
  <2> QED
    BY <2>1, <2>3, <2>4, <2>5, FilesKept, CarefulStep
<1>13. ASSUME BeginRecovery(c) PROVE Attended' /\ Uncertainty
  <2>1. /\ step' = step /\ job' = job /\ pc[c] # "ownerJob"
        /\ Owned(c) => Busy(c)'
        /\ Cancelling(c)'
    BY <1>13, <1>b, JobAssumption DEF BeginRecovery, disk, local, history, Goto, Busy, Cancelling,
       Working, Naming
  <2>2. pc[c] \notin InStep \cup {"prepare"}
    BY <1>13 DEF BeginRecovery, disk, local, history, Goto, InStep
  <2> QED
    BY <2>1, <2>2, DiskKept, CarefulStep
<1>14. ASSUME SkillOutdated(c) PROVE Attended' /\ Uncertainty
  <2>1. /\ step' = step /\ job' = job /\ pc[c] \notin {"ownerJob", "prepare"} \cup InStep
        /\ pc'[c] \notin Working \cup {"cancelStep", "cancelJob"}
    BY <1>14 DEF SkillOutdated, Goto, disk, history, InStep, Working
  <2>2. Busy(c)' /\ Cancelling(c)'
    BY <2>1 DEF Busy, Cancelling, Working, Naming
  <2> QED
    BY <2>1, <2>2, DiskKept, CarefulStep
<1>15. ASSUME MarkSkillRecovery(c) PROVE Attended' /\ Uncertainty
  <2>1. /\ step' = step /\ pc[c] = "skill" /\ pc'[c] = "done"
        /\ job = held[c] /\ job' = [job EXCEPT !.status = "recovery_required"]
        /\ job.status \notin Terminal
    BY <1>15 DEF MarkSkillRecovery, Goto
  <2>2. job'.status = "recovery_required" /\ job'.owner = job.owner
    BY <2>1 DEF Job
  <2>3. Busy(c)' /\ Cancelling(c)' /\ pc[c] \notin InStep \cup {"prepare"}
    BY <2>1 DEF Busy, Cancelling, Working, Naming, InStep
  <2>4. Claimed => Claimed'
    BY <2>1, <2>2 DEF Claimed, Terminal
  <2> QED
    BY <2>1, <2>2, <2>3, <2>4, FilesKept, CarefulStep DEF Terminal
<1>16. ASSUME PrepareUncertain(c) PROVE Attended' /\ Uncertainty
  <2>1. PICK s \in Step : /\ Uncertain(s)
                            /\ step' = [step EXCEPT ![s] = Stopped(@, "recovery_required")]
    BY <1>16 DEF PrepareUncertain
  <2>2. /\ job' = job /\ pc'[c] = "settle"
    BY <1>16 DEF PrepareUncertain
  <2>3. step'[s].status = "recovery_required" /\ \A t \in Step \ {s} : step'[t] = step[t]
    BY <2>1, StoppedStatus
  <2>4. \A t \in Step : InFlight(t) => t = s
    BY <2>1, <1>a DEF Uncertain, Interrupted, InFlight
  <2>5. \A t \in Step : ~InFlight(t)'
    BY <2>3, <2>4 DEF InFlight
  <2>6. Busy(c)' /\ Cancelling(c)'
    BY <2>2 DEF Busy, Cancelling, Working, Naming
  <2>7. Uncertainty
    BY <2>3 DEF Uncertainty
  <2> QED
    BY <2>2, <2>5, <2>6, <2>7, NoneLeft, CarefulStep
<1>17. ASSUME PrepareRequeue(c) PROVE Attended' /\ Uncertainty
  <2>1. /\ job' = job /\ pc'[c] = "settle" /\ ~\E s \in Step : Uncertain(s)
        /\ \A s \in Step : step'[s] = IF InFlight(s) THEN Stopped(step[s], "queued") ELSE step[s]
    BY <1>17 DEF PrepareRequeue, Interrupted, InFlight
  <2>2. \A s \in Step : ~InFlight(s)'
    BY <2>1, StoppedStatus DEF InFlight
  <2>3. ASSUME NEW s \in Step \ Idempotent, InFlight(s) PROVE FALSE
    <3>1. \A t \in Interrupted : t = s
      BY <2>3, <1>a DEF Interrupted, InFlight
    <3>2. s <= s
      BY JobAssumption DEF Step
    <3> QED
      BY <2>1, <2>3, <3>1, <3>2 DEF Uncertain, Interrupted, InFlight
  <2>4. Busy(c)' /\ Cancelling(c)'
    BY <2>1 DEF Busy, Cancelling, Working, Naming
  <2>5. Uncertainty
    BY <2>3 DEF Uncertainty
  <2> QED
    BY <2>1, <2>2, <2>4, <2>5, NoneLeft, CarefulStep
<1>18. ASSUME PrepareNothing(c) PROVE Attended' /\ Uncertainty
  <2>1. /\ step' = step /\ job' = job /\ pc[c] = "prepare" /\ pc'[c] = "release"
        /\ job.status \in Terminal \/ ~Owned(c)
    BY <1>18 DEF PrepareNothing, disk, Goto
  <2>2. Busy(c)' /\ Cancelling(c)'
    BY <2>1 DEF Busy, Cancelling, Working, Naming
  <2> QED
    BY <2>1, <2>2, <1>w, DiskKept, CarefulStep
<1>19. ASSUME Begin(c) PROVE Attended' /\ Uncertainty
  <2>1. /\ step' = step /\ job' = job /\ pc[c] # "ownerJob"
        /\ Owned(c) => Busy(c)'
        /\ Cancelling(c)'
    BY <1>19, <1>b, JobAssumption DEF Begin, disk, history, Goto, Busy, Cancelling,
       Working, Naming
  <2>2. pc[c] \notin InStep \cup {"prepare"}
    BY <1>19 DEF Begin, disk, history, Goto, InStep
  <2> QED
    BY <2>1, <2>2, DiskKept, CarefulStep
<1>20. ASSUME Load(c) PROVE Attended' /\ Uncertainty
  <2>1. /\ step' = step /\ job' = job /\ pc[c] # "ownerJob"
        /\ Owned(c) => Busy(c)'
        /\ Cancelling(c)'
    BY <1>20, <1>b, JobAssumption DEF Load, disk, history, Goto, Busy, Cancelling,
       Working, Naming
  <2>2. pc[c] \notin InStep \cup {"prepare"}
    BY <1>20 DEF Load, disk, history, Goto, InStep
  <2> QED
    BY <2>1, <2>2, DiskKept, CarefulStep
<1>21. ASSUME TakeJob(c) PROVE Attended' /\ Uncertainty
  <2> DEFINE j == InProgress([mine[c] EXCEPT !.owner = c])
  <2>1. /\ step' = step /\ pc[c] = "claim" /\ pc'[c] \in {"wait", "release"}
        /\ WriteJob(c, j, "wait", "release") /\ held' = held
    BY <1>21 DEF TakeJob, WriteJob
  <2>2. [mine[c] EXCEPT !.owner = c] \in Job /\ [mine[c] EXCEPT !.owner = c].owner = c
    BY DEF Job, Owner
  <2>3. j \in Job /\ j.status \notin Terminal /\ j.owner = c
    BY <2>2, RecordTypes, InProgressFields
  <2> HIDE DEF j
  <2>4. ASSUME pc'[c] = "wait" PROVE job'.status \notin Terminal /\ mine'[c].owner = c
    <3>1. job' = Stamped(c, j) /\ mine'[c] = Stamped(c, j)
      BY <2>1, <2>4 DEF WriteJob
    <3> QED
      BY <2>3, <3>1, StampedFields
  <2>5. held'[c] = NoCopy
    BY <2>1, <1>l DEF LocalCopies, Copying
  <2>6. Busy(c)'
    BY <2>1, <2>4, <2>5 DEF Busy, Working, Naming
  <2>7. Cancelling(c)' /\ pc[c] \notin InStep \cup {"prepare"}
    BY <2>1 DEF Cancelling, InStep
  <2> QED
    BY <2>1, <2>3, <2>6, <2>7, JobWritten, CarefulStep
<1>22. ASSUME Granted(c) PROVE Attended' /\ Uncertainty
  <2>1. /\ step' = step /\ job' = job /\ pc[c] # "ownerJob"
        /\ Owned(c) => Busy(c)'
        /\ Cancelling(c)'
    BY <1>22, <1>b, JobAssumption DEF Granted, disk, local, history, Goto, Busy, Cancelling,
       Working, Naming
  <2>2. pc[c] \notin InStep \cup {"prepare"}
    BY <1>22 DEF Granted, disk, local, history, Goto, InStep
  <2> QED
    BY <2>1, <2>2, DiskKept, CarefulStep
<1>23. ASSUME WaitEnds(c) PROVE Attended' /\ Uncertainty
  <2> DEFINE s == First(steps[c])
  <2>1. PICK status, j :
          /\ status \in {"cancelled", "queued"}
          /\ StepThenJob(c, s, Stopped(steps[c][s], status), j, "settle")
    BY <1>23 DEF WaitEnds
  <2>2. job' = job /\ pc[c] = "wait" /\ s \in Step
    BY <1>23, <1>f DEF WaitEnds
  <2>3. Stopped(steps[c][s], status).status # "running"
    <3>1. steps[c][s] \in Budgeted
      BY <2>2
    <3>2. Stopped(steps[c][s], status).status = status
      BY <3>1, StoppedStatus
    <3> QED
      BY <2>1, <3>2
  <2>4. Owned(c) => \A t \in Step : ~InFlight(t)
    BY <2>2, <1>e DEF InStep
  <2> HIDE DEF s
  <2> QED
    BY <2>1, <2>2, <2>3, <2>4, StepStopped, CarefulStep
<1>24. ASSUME WaitCancelled(c) PROVE Attended' /\ Uncertainty
  <2>1. /\ step' = step /\ job' = job /\ pc[c] # "ownerJob"
        /\ Owned(c) => Busy(c)'
        /\ Cancelling(c)'
    BY <1>24, <1>b, JobAssumption DEF WaitCancelled, disk, history, Goto, Busy, Cancelling,
       Working, Naming
  <2>2. pc[c] \notin InStep \cup {"prepare"}
    BY <1>24 DEF WaitCancelled, disk, history, Goto, InStep
  <2> QED
    BY <2>1, <2>2, DiskKept, CarefulStep
<1>25. ASSUME Throw(c) PROVE Attended' /\ Uncertainty
  <2>1. /\ step' = step /\ job' = job /\ pc[c] # "ownerJob"
        /\ Owned(c) => Busy(c)'
        /\ Cancelling(c)'
    BY <1>25, <1>b, JobAssumption DEF Throw, disk, local, history, Goto, Busy, Cancelling,
       Working, Naming
  <2>2. pc[c] \notin InStep \cup {"prepare"}
    BY <1>25 DEF Throw, disk, local, history, Goto, InStep
  <2> QED
    BY <2>1, <2>2, DiskKept, CarefulStep
<1>26. ASSUME HeartbeatRead(c) PROVE Attended' /\ Uncertainty
  <2>1. /\ step' = step /\ job' = job /\ pc' = pc /\ mine' = mine /\ steps' = steps
        /\ pc[c] \in {"wait", "run"} /\ held'[c] = job /\ Owned(c)
    BY <1>26 DEF HeartbeatRead, disk
  <2>2. Busy(c)' /\ Cancelling(c)'
    BY <2>1, <1>b DEF Busy, Cancelling, Working, Naming
  <2>3. \/ pc[c] \notin InStep \cup {"prepare"}
        \/ pc[c] \in InStep /\ pc'[c] \in InStep /\ steps'[c] = steps[c]
    BY <2>1 DEF InStep
  <2> QED
    BY <2>1, <2>2, <2>3, DiskKept, CarefulStep
<1>27. ASSUME HeartbeatWrite(c) PROVE Attended' /\ Uncertainty
  <2>1. /\ step' = step /\ pc' = pc /\ mine' = mine /\ steps' = steps
        /\ pc[c] \in {"wait", "run"} /\ held'[c] = NoCopy /\ held[c] # NoCopy
        /\ job' = IF Owned(c) THEN held[c] ELSE job
    BY <1>27 DEF HeartbeatWrite
  <2>2. held[c].owner = c /\ (Owned(c) => held[c].status \notin Terminal)
    BY <2>1, <1>l, <1>b DEF LocalCopies, Copying, Busy
  <2>3. Owned(c)' => Owned(c)
    BY <2>1 DEF OwnerKept
  <2>4. Owned(c)' => Busy(c)'
    BY <2>1, <2>2, <2>3, <1>b DEF Busy, Working, Naming
  <2>5. Claimed => Claimed'
    BY <2>1, <2>2, JobAssumption DEF Claimed
  <2>6. /\ Cancelling(c)'
        /\ \/ pc[c] \notin InStep \cup {"prepare"}
           \/ pc[c] \in InStep /\ pc'[c] \in InStep /\ steps'[c] = steps[c]
    BY <2>1 DEF InStep, Cancelling
  <2> QED
    BY <2>1, <2>2, <2>4, <2>5, <2>6, FilesKept, CarefulStep
<1>28. ASSUME Complete(c) PROVE Attended' /\ Uncertainty
  <2>1. /\ step' = step /\ job' = job /\ pc[c] # "ownerJob"
        /\ Owned(c) => Busy(c)'
        /\ Cancelling(c)'
    BY <1>28, <1>b, JobAssumption DEF Complete, disk, history, Goto, Busy, Cancelling,
       Working, Naming
  <2>2. pc[c] \notin InStep \cup {"prepare"}
    BY <1>28 DEF Complete, disk, history, Goto, InStep
  <2> QED
    BY <2>1, <2>2, DiskKept, CarefulStep
<1>29. ASSUME StopBefore(c) PROVE Attended' /\ Uncertainty
  <2> DEFINE s == First(steps[c])
  <2>1. PICK status, j :
          /\ status \in {"cancelled", "blocked"}
          /\ StepThenJob(c, s, Stopped(steps[c][s], status), j, "settle")
    BY <1>29 DEF StopBefore
  <2>2. job' = job /\ pc[c] = "next" /\ s \in Step
    BY <1>29, <1>f DEF StopBefore
  <2>3. Stopped(steps[c][s], status).status # "running"
    <3>1. steps[c][s] \in Budgeted
      BY <2>2
    <3>2. Stopped(steps[c][s], status).status = status
      BY <3>1, StoppedStatus
    <3> QED
      BY <2>1, <3>2
  <2>4. Owned(c) => \A t \in Step : ~InFlight(t)
    BY <2>2, <1>e DEF InStep
  <2> HIDE DEF s
  <2> QED
    BY <2>1, <2>2, <2>3, <2>4, StepStopped, CarefulStep
<1>30. ASSUME MarkStep(c) PROVE Attended' /\ Uncertainty
  <2> DEFINE s == First(steps[c])
             r == Running(c, steps[c][s])
  <2>1. /\ StepThenJob(c, s, r, mine[c], "start") /\ job' = job /\ pc[c] = "next"
        /\ s \in Step /\ held' = held /\ ~AllDone(steps[c])
        /\ steps' = [steps EXCEPT ![c][s] = r]
    BY <1>30, <1>f DEF MarkStep
  <2>2. r.status = "running" /\ r.owner = c
    BY DEF Running
  <2> HIDE DEF r
  <2>3. CASE ~MayWriteStep(c, s)
    <3>1. step' = step /\ pc'[c] = "release"
      BY <2>1, <2>3 DEF StepThenJob
    <3>2. Busy(c)' /\ Cancelling(c)' /\ pc[c] \notin InStep \cup {"prepare"}
      BY <2>1, <3>1 DEF Busy, Cancelling, Working, Naming, InStep
    <3> QED
      BY <2>1, <3>1, <3>2, DiskKept, CarefulStep
  <2>4. CASE MayWriteStep(c, s)
    <3>1. /\ Owned(c) /\ step' = [step EXCEPT ![s] = r] /\ pc'[c] = "start"
          /\ mine'[c] = mine[c]
      BY <2>1, <2>4 DEF StepThenJob, MayWriteStep
    <3>2. \A t \in Step : ~InFlight(t)
      BY <2>1, <3>1, <1>e DEF InStep
    <3>3. \A t \in Step : InFlight(t)' <=> t = s
      BY <2>1, <2>2, <3>1, <3>2 DEF InFlight
    <3>4. Busy(c)
      BY <3>1, <1>b
    <3>5. held[c] = NoCopy
      BY <2>1, <1>l DEF LocalCopies, Copying
    <3>6. Busy(c)' /\ Cancelling(c)'
      BY <2>1, <3>1, <3>4, <3>5 DEF Busy, Cancelling, Working, Naming
    <3>7. Claimed'
      BY <2>1, <3>1, <3>4, JobAssumption DEF Claimed, Busy, Working, Owned
    <3>8. First(steps'[c]) = s
      BY <2>1, <2>2, StillFirst
    <3>9. ASSUME NEW t \in Step, InFlight(t)' PROVE Engaged(c, t)'
      <4>1. t = s
        BY <3>3, <3>9
      <4> QED
        BY <2>1, <2>2, <3>1, <3>8, <4>1 DEF Engaged, InStep
    <3>10. \A d \in Call \ {c} : Attends(d)'
      <4> TAKE d \in Call \ {c}
      <4>1. ~Owned(d)
        BY <3>1 DEF Owned
      <4>2. ~Owned(d)' /\ Cancelling(d)
        BY <4>1 DEF OwnerKept, Attended, Attends
      <4> QED
        BY <4>2 DEF Attends, Cancelling, Frame
    <3>11. Uncertainty
      BY <3>2 DEF Uncertainty
    <3>12. Attends(c)'
      BY <3>6, <3>9 DEF Attends
    <3>13. \A d \in Call : Attends(d)'
      BY <3>10, <3>12
    <3>14. \A t \in Step : InFlight(t)' => Claimed'
      BY <3>7
    <3> QED
      BY <3>3, <3>11, <3>13, <3>14 DEF Attended
  <2> QED
    BY <2>3, <2>4
<1>31. ASSUME StartStep(c) PROVE Attended' /\ Uncertainty
  <2> DEFINE j == InProgress(mine[c])
  <2>1. /\ step' = step /\ steps' = steps /\ held' = held /\ pc[c] = "start"
        /\ pc'[c] \in {"run", "release"} /\ WriteJob(c, j, "run", "release")
    BY <1>31 DEF StartStep, WriteJob
  <2>2. j \in Job /\ j.status \notin Terminal /\ j.owner = mine[c].owner
    BY RecordTypes, InProgressFields
  <2>3. Owned(c) => mine[c].owner = c
    BY <2>1, <1>b DEF Busy, Naming
  <2>4. held[c] = NoCopy
    BY <2>1, <1>l DEF LocalCopies, Copying
  <2> HIDE DEF j
  <2>5. ASSUME pc'[c] = "run"
        PROVE  job'.status \notin Terminal /\ mine'[c].owner = c /\ mine'[c].status \notin Terminal
    <3>1. job' = Stamped(c, j) /\ mine'[c] = Stamped(c, j) /\ Owned(c)
      BY <2>1, <2>5 DEF WriteJob, MayWrite
    <3> QED
      BY <2>2, <2>3, <3>1, StampedFields
  <2>6. Busy(c)' /\ Cancelling(c)'
    BY <2>1, <2>4, <2>5 DEF Busy, Cancelling, Working, Naming
  <2>7. pc[c] \in InStep /\ "run" \in InStep /\ steps'[c] = steps[c] /\ pc[c] # "ownerJob"
    BY <2>1 DEF InStep
  <2> QED
    BY <2>1, <2>2, <2>3, <2>6, <2>7, JobWritten, CarefulStep
<1>32. ASSUME HandlerReturns(c) PROVE Attended' /\ Uncertainty
  <2>1. /\ step' = step /\ job' = job /\ pc[c] \in {"run", "output"}
        /\ pc'[c] \in {"output", "stepDone", "failed"}
        /\ steps' = steps /\ mine' = mine
    BY <1>32 DEF HandlerReturns, disk, local, Goto
  <2>2. (Owned(c) => Busy(c)') /\ Cancelling(c)'
    BY <2>1, <1>b DEF Busy, Cancelling, Working, Naming
  <2>3. pc[c] \in InStep /\ pc'[c] \in InStep /\ steps'[c] = steps[c] /\ pc[c] # "ownerJob"
    BY <2>1 DEF InStep
  <2> QED
    BY <2>1, <2>2, <2>3, DiskKept, CarefulStep
<1>33. ASSUME HandlerThrows(c) PROVE Attended' /\ Uncertainty
  <2>1. /\ step' = step /\ job' = job /\ pc[c] \in {"run", "output"}
        /\ pc'[c] \in {"output", "stepDone", "failed"}
        /\ steps' = steps /\ mine' = mine
    BY <1>33 DEF HandlerThrows, disk, local, Goto
  <2>2. (Owned(c) => Busy(c)') /\ Cancelling(c)'
    BY <2>1, <1>b DEF Busy, Cancelling, Working, Naming
  <2>3. pc[c] \in InStep /\ pc'[c] \in InStep /\ steps'[c] = steps[c] /\ pc[c] # "ownerJob"
    BY <2>1 DEF InStep
  <2> QED
    BY <2>1, <2>2, <2>3, DiskKept, CarefulStep
<1>34. ASSUME WriteOutput(c) PROVE Attended' /\ Uncertainty
  <2>1. /\ step' = step /\ job' = job /\ pc[c] \in {"run", "output"}
        /\ pc'[c] \in {"output", "stepDone", "failed"}
        /\ steps' = steps /\ mine' = mine
    BY <1>34 DEF WriteOutput, local, Goto
  <2>2. (Owned(c) => Busy(c)') /\ Cancelling(c)'
    BY <2>1, <1>b DEF Busy, Cancelling, Working, Naming
  <2>3. pc[c] \in InStep /\ pc'[c] \in InStep /\ steps'[c] = steps[c] /\ pc[c] # "ownerJob"
    BY <2>1 DEF InStep
  <2> QED
    BY <2>1, <2>2, <2>3, DiskKept, CarefulStep
<1>35. ASSUME CompleteStep(c) PROVE Attended' /\ Uncertainty
  <2> DEFINE s == First(steps[c])
             r == Stopped(steps[c][s], "completed")
  <2>1. /\ job' = job /\ pc[c] = "stepDone" /\ steps' = steps /\ mine' = mine
        /\ step' = IF MayWriteStep(c, s) THEN [step EXCEPT ![s] = r] ELSE step
        /\ pc'[c] = IF MayWriteStep(c, s) THEN "jobDone" ELSE "failed"
    BY <1>35 DEF CompleteStep, local, Goto
  <2>2. (Owned(c) => Busy(c)') /\ Cancelling(c)'
    BY <2>1, <1>b DEF Busy, Cancelling, Working, Naming
  <2>3. CASE MayWriteStep(c, s)
    <3>1. s \in Step
      BY <2>1, <1>f DEF JobInv, Files, StepInHand
    <3>2. r.status = "completed"
      BY <3>1, StoppedStatus
    <3>3. Owned(c) /\ \A t \in Step : InFlight(t) => t = s
      BY <2>1, <2>3, <1>e DEF InStep, MayWriteStep
    <3> HIDE DEF s, r
    <3>4. \A t \in Step : ~InFlight(t)'
      BY <2>1, <2>3, <3>2, <3>3 DEF InFlight
    <3>5. Uncertainty
      BY <2>1, <2>3, <3>2 DEF Uncertainty
    <3> QED
      BY <2>1, <2>2, <3>3, <3>4, <3>5, NoneLeft, CarefulStep
  <2>4. CASE ~MayWriteStep(c, s)
    <3>1. /\ step' = step /\ pc[c] \in InStep /\ pc'[c] \in InStep /\ steps'[c] = steps[c]
          /\ pc[c] # "ownerJob"
      BY <2>1, <2>4 DEF InStep
    <3> QED
      BY <2>1, <2>2, <3>1, DiskKept, CarefulStep
  <2> QED
    BY <2>3, <2>4
<1>36. ASSUME RecordStep(c) PROVE Attended' /\ Uncertainty
  <2> DEFINE j == [mine[c] EXCEPT !.cancel = @ \/ job.cancel]
  <2>1. /\ step' = step /\ pc[c] = "jobDone" /\ pc'[c] \in {"reload", "failed"}
        /\ WriteJob(c, j, "reload", "failed")
    BY <1>36 DEF RecordStep, WriteJob
  <2>2. j \in Job /\ j.status = mine[c].status /\ j.owner = mine[c].owner
    BY DEF Job
  <2>3. Owned(c) => /\ mine[c].owner = c /\ mine[c].status \notin Terminal
                    /\ job.status \notin Terminal
    BY <2>1, <1>b DEF Busy, Naming, Working
  <2> HIDE DEF j
  <2>4. Owned(c)' => Owned(c)
    BY <2>1 DEF OwnerKept
  <2>5. Owned(c) => job'.status \notin Terminal
    BY <2>1, <2>2, <2>3, StampedFields DEF WriteJob
  <2>6. (Owned(c)' => Busy(c)') /\ Cancelling(c)' /\ pc[c] \notin InStep \cup {"prepare"}
    BY <2>1, <2>4, <2>5 DEF Busy, Cancelling, Working, Naming, InStep
  <2> QED
    BY <2>1, <2>2, <2>6, JobWritten, CarefulStep
<1>37. ASSUME Reload(c) PROVE Attended' /\ Uncertainty
  <2>1. /\ step' = step /\ job' = job /\ pc[c] = "reload" /\ pc'[c] = "next" /\ mine'[c] = job
    BY <1>37 DEF Reload, disk, Goto
  <2>2. Owned(c) => Busy(c)'
    BY <2>1, <1>b DEF Busy, Working, Naming, Owned
  <2>3. Cancelling(c)' /\ pc[c] \notin InStep \cup {"prepare"}
    BY <2>1 DEF Cancelling, InStep
  <2> QED
    BY <2>1, <2>2, <2>3, DiskKept, CarefulStep
<1>38. ASSUME FailStep(c) PROVE Attended' /\ Uncertainty
  <2> DEFINE s == First(steps[c])
  <2>1. PICK status, j :
          /\ status \in {"cancelled", "failed", "blocked", "recovery_required"}
          /\ StepThenJob(c, s, Stopped(steps[c][s], status), j, "settle")
    BY <1>38 DEF FailStep
  <2>2. job' = job /\ pc[c] = "failed"
    BY <1>38 DEF FailStep
  <2>3. CASE s \in Step
    <3>1. Stopped(steps[c][s], status).status \notin {"running", "queued"}
      <4>1. steps[c][s] \in Budgeted
        BY <2>3
      <4>2. Stopped(steps[c][s], status).status = status
        BY <4>1, StoppedStatus
      <4> QED
        BY <2>1, <4>2
    <3>2. Owned(c) => \A t \in Step : InFlight(t) => t = s /\ step[s].owner = c
      BY <2>2, <1>e DEF InStep
    <3> HIDE DEF s
    <3> QED
      BY <2>1, <2>2, <2>3, <3>1, <3>2, StepStopped, CarefulStep
  <2>4. CASE s \notin Step
    <3>1. step' = step /\ pc'[c] \in {"settle", "release"}
      BY <2>1, <2>4 DEF StepThenJob
    <3>2. Owned(c) => \A t \in Step : ~InFlight(t)
      BY <2>2, <2>4, <1>e DEF InStep
    <3>3. Busy(c)' /\ Cancelling(c)'
      BY <3>1 DEF Busy, Cancelling, Working, Naming
    <3> QED
      BY <2>2, <3>1, <3>2, <3>3, DiskKept, CarefulStep
  <2> QED
    BY <2>3, <2>4
<1>39. ASSUME Conclude(c) PROVE Attended' /\ Uncertainty
  <2>1. PICK status : /\ job' = [mine[c] EXCEPT !.status = status]
                      /\ mine[c].status = "completed" => status \in Terminal
                      /\ mine[c].status # "completed" => status = mine[c].status
    BY <1>39 DEF Conclude, Overwrites, Terminal
  <2>2. /\ step' = step /\ job = mine[c] /\ pc[c] = "conclude" /\ pc'[c] = "done"
    BY <1>39 DEF Conclude, Overwrites, Goto
  <2>3. job'.status = status /\ job'.owner = job.owner
    BY <2>1, <2>2 DEF Job
  <2>4. Busy(c)' /\ Cancelling(c)' /\ pc[c] \notin InStep \cup {"prepare"}
    BY <2>2 DEF Busy, Cancelling, Working, Naming, InStep
  <2>5. Claimed => Claimed'
    BY <2>1, <2>2, <2>3 DEF Claimed, Terminal
  <2>6. job.status \notin Terminal => job'.status \notin Terminal
    BY <2>1, <2>2, <2>3 DEF Terminal
  <2> QED
    BY <2>2, <2>4, <2>5, <2>6, FilesKept, CarefulStep
<1>40. ASSUME RetryThrows(c) PROVE Attended' /\ Uncertainty
  <2>1. /\ step' = step /\ job' = job /\ pc[c] # "ownerJob"
        /\ Owned(c) => Busy(c)'
        /\ Cancelling(c)'
    BY <1>40, <1>b, JobAssumption DEF RetryThrows, disk, local, history, Goto, Busy, Cancelling,
       Working, Naming
  <2>2. pc[c] \notin InStep \cup {"prepare"}
    BY <1>40 DEF RetryThrows, disk, local, history, Goto, InStep
  <2> QED
    BY <2>1, <2>2, DiskKept, CarefulStep
<1>41. ASSUME Retry(c) PROVE Attended' /\ Uncertainty
  <2>1. /\ job' = job /\ pc[c] = "retry"
    BY <1>41 DEF Retry
  <2>2. PICK s, r, j :
          /\ s \in Step
          /\ r = Stopped(step[s], "queued") \/ r = [step[s] EXCEPT !.status = "blocked"]
          /\ StepThenJob(c, s, r, j, "settle")
    BY <1>41, JobAssumption DEF Retry
  <2>3. r.status # "running"
    BY <2>2, StoppedStatus DEF Budgeted, StepFile
  <2>4. Owned(c) => \A t \in Step : ~InFlight(t)
    BY <2>1, <1>e DEF InStep
  <2> QED
    BY <2>1, <2>2, <2>3, <2>4, StepStopped, CarefulStep
<1>42. ASSUME BeginCancel(c) PROVE Attended' /\ Uncertainty
  <2>1. /\ step' = step /\ job' = job /\ pc[c] = "idle" /\ held'[c] = job
        /\ mine'[c] = IF Orphaned(c) THEN [Leaving(job, "cancelled") EXCEPT !.cancel = TRUE]
                                     ELSE [job EXCEPT !.cancel = TRUE]
    BY <1>42 DEF BeginCancel, disk, Goto
  <2>2. pc'[c] \in {"done", "cancelStep", "cancelJob"}
    BY <1>42 DEF BeginCancel, Goto
  <2>3. [Leaving(job, "cancelled") EXCEPT !.cancel = TRUE].status = "cancelled"
    BY DEF Leaving, Job
  <2>4. Busy(c)' /\ Cancelling(c)' /\ pc[c] \notin InStep \cup {"prepare"} /\ pc[c] # "ownerJob"
    BY <2>1, <2>2, <2>3 DEF Busy, Cancelling, Working, Naming, InStep
  <2> QED
    BY <2>1, <2>4, DiskKept, CarefulStep
<1>43. ASSUME CancelStep(c) PROVE Attended' /\ Uncertainty
  <2> DEFINE s == First(steps[c])
             r == Stopped(steps[c][s], "cancelled")
  <2>1. /\ job' = job /\ pc[c] = "cancelStep" /\ pc'[c] = "cancelJob"
        /\ mine' = mine /\ held' = held
        /\ step' = step \/ (~AllDone(steps[c]) /\ step' = [step EXCEPT ![s] = r])
    BY <1>43 DEF CancelStep, local, Goto
  <2>2. Busy(c)' /\ Cancelling(c)' /\ pc[c] \notin InStep \cup {"prepare"} /\ pc[c] # "ownerJob"
    BY <2>1, <1>a DEF Busy, Cancelling, Working, Naming, InStep, Attends
  <2>3. CASE step' = step
    BY <2>1, <2>2, <2>3, DiskKept, CarefulStep
  <2>4. CASE ~AllDone(steps[c]) /\ step' = [step EXCEPT ![s] = r]
    <3>1. s \in Step /\ r.status = "cancelled"
      BY <2>4, <1>f, StoppedStatus
    <3> HIDE DEF s, r
    <3>2. \A t \in Step : InFlight(t)' => InFlight(t) /\ step'[t].owner = step[t].owner
      BY <2>4, <3>1 DEF InFlight
    <3>3. Owned(c)' => \A t \in Step : ~InFlight(t)
      BY <2>2, <1>e DEF OwnerKept
    <3>4. Claimed => Claimed'
      BY <2>1 DEF Claimed
    <3>5. Careful(c)
      BY <2>1, <2>2, <3>2, <3>3, <3>4, <1>a DEF Careful, Attends
    <3>6. Uncertainty
      BY <2>4, <3>1 DEF Uncertainty
    <3> QED
      BY <3>5, <3>6, CarefulStep
  <2> QED
    BY <2>1, <2>3, <2>4
<1>44. ASSUME CancelJob(c) PROVE Attended' /\ Uncertainty
  <2>1. /\ step' = step /\ pc[c] = "cancelJob" /\ pc'[c] = "done"
        /\ job' = mine[c] /\ job = held[c]
    BY <1>44 DEF CancelJob, Overwrites, Goto
  <2>2. mine[c].status = "cancelled" \/ mine[c] = [job EXCEPT !.cancel = TRUE]
    BY <2>1, <1>a DEF Attends, Cancelling
  <2>3. mine[c].owner = NoCall \/ mine[c] = [job EXCEPT !.cancel = TRUE]
    BY <2>1, <1>l DEF LocalCopies
  <2>4. \/ job'.status = "cancelled" /\ job'.owner = NoCall
        \/ job'.status = job.status /\ job'.owner = job.owner
    BY <2>1, <2>2, <2>3 DEF Job
  <2>5. Busy(c)' /\ Cancelling(c)' /\ pc[c] \notin InStep \cup {"prepare"}
    BY <2>1 DEF Busy, Cancelling, Working, Naming, InStep
  <2>6. Claimed => Claimed'
    BY <2>4 DEF Claimed
  <2> QED
    BY <2>1, <2>4, <2>5, <2>6, FilesKept, CarefulStep
<1> QED
  BY <1>1, <1>2, <1>3, <1>4, <1>5, <1>6, <1>7, <1>8, <1>9, <1>10, <1>11, <1>12, <1>13, <1>14,
     <1>15, <1>16, <1>17, <1>18, <1>19, <1>20, <1>21, <1>22, <1>23, <1>24, <1>25, <1>26, <1>27,
     <1>28, <1>29, <1>30, <1>31, <1>32, <1>33, <1>34, <1>35, <1>36, <1>37, <1>38, <1>39, <1>40,
     <1>41, <1>42, <1>43, <1>44 DEF CallStep, StoreStep, RecoverStep, ExecuteStep, UserStep

\* A death and a stutter write nothing.
LEMMA NothingHappens ==
  ASSUME Attended, UNCHANGED <<job, step, pc, local, history>> PROVE Attended' /\ Uncertainty
<1>1. ASSUME NEW c \in Call, Attends(c) PROVE Attends(c)'
  BY <1>1 DEF Attends, Owned, Busy, InFlight, Engaged, Cancelling, local
<1>2. Attended'
  BY <1>1 DEF Attended, InFlight, Claimed, history
<1> QED
  BY <1>2 DEF Uncertainty

LEMMA AttendedAlways ==
  ASSUME JobInv, Copies, Attended, [Next]_vars
  PROVE  Attended' /\ (~clobbered' => Uncertainty)
<1>1. ASSUME NEW c \in Call, CallStep(c) PROVE Attended' /\ (~clobbered' => Uncertainty)
  <2>1. CASE clobbered'
    BY <2>1 DEF Attended
  <2> QED
    BY <1>1, <2>1, AttendedStep
<1>2. CASE UNCHANGED <<job, step, pc, local, history>>
  BY <1>2, NothingHappens
<1>3. ASSUME NEW p \in Proc, Crash(p) PROVE UNCHANGED <<job, step, pc, local, history>>
  BY <1>3 DEF Crash, disk
<1>4. UNCHANGED vars => UNCHANGED <<job, step, pc, local, history>>
  BY DEF vars, disk
<1> QED
  BY <1>1, <1>2, <1>3, <1>4 DEF Next, CallStep

\* Unless a write of an old record undid another write, a step that is not idempotent and
\* that is recorded as running ends with an outcome: as long as it runs, the job has an
\* owner, no retry and no new execution gets in, and a recovery that takes the job over
\* finds this step to be the only one interrupted and sets it aside.
THEOREM UncertainNotReplayed == Spec => UncertainIsKept
<1>1. Init => Attended
  BY InitAttended
<1>2. JobInv /\ Copies /\ Counted /\ Attended /\ [Next]_vars => Attended'
  BY AttendedAlways
<1>3. JobInv /\ Copies /\ Counted /\ Attended /\ [Next]_vars
      => [~clobbered' => \A s \in Step \ Idempotent :
            step[s].status = "running" =>
              step'[s] = step[s] \/ step'[s].status \notin {"queued", "running"}]_vars
  BY AttendedAlways DEF Uncertainty, InFlight
<1> QED
  BY <1>1, <1>2, <1>3, HistoryAlways, PTL DEF Spec, UncertainIsKept
===============================================================================
