--------------------------- MODULE DurableJobProofs ---------------------------
(***************************************************************************)
(* The owner lock of a durable job and the outputs of its steps, for any   *)
(* calls in any processes, with any number of deaths.                      *)
(***************************************************************************)
EXTENDS DurableJob, TLAPS, WellFoundedInduction

\* A step file, and an executor's copy of it, within the budget.
Budgeted == {r \in StepFile : r.attempts <= budget}

\* From the start of a step to its record there is such a step.
StepInHand ==
  \A c \in Call :
    pc[c] \in {"start", "run", "output", "stepDone", "jobDone"} => ~AllDone(steps[c])

\* The output comes before the record of the step.
OutputWritten == \A c \in Call : pc[c] = "stepDone" => First(steps[c]) \in output

\* The lock is that of a call that will release it or could not, or of a dead one.
Inside == {"ownerJob", "clear", "unlock", "returnClear", "returnUnlock", "stuck", "load",
           "prepare", "settle", "claim", "wait", "next", "start", "run", "output", "stepDone",
           "jobDone", "reload", "failed", "retry", "release", "return"}
LockInHand ==
  \A c \in Call : lockOwner = c => lockFence = fence[c] /\ (~Live(c) \/ pc[c] \in Inside)

\* From its read to its write back there is such a record.
Copying == {"ownerLock", "ownerJob", "clear", "returnClear", "skill"}
CopyInHand == \A c \in Call : pc[c] \in Copying => held[c] \in Job

\* Inside owner.fence.lock there is one live call; about to write owner.lock it finds
\* none, unless it takes over, and about to remove it, its own.
FenceInHand ==
  overlap \/
  /\ \A c, d \in Call :
       Live(c) /\ Live(d) /\ pc[c] \in InFence /\ pc[d] \in InFence => c = d
  /\ \A c \in Call : Live(c) /\ pc[c] = "ownerLock" /\ ~Takeover(c) => lockOwner = NoCall
  /\ \A c \in Call :
       Live(c) /\ pc[c] \in InFence \ {"ownerLock", "ownerJob"} => lockOwner = c

\* The variables in three groups.
Control ==
  /\ up \in SUBSET Proc /\ budget \in 1..MaxAttempts
  /\ lockOwner \in Owner /\ lockFence \in Nat
  /\ pc \in [Call -> At] /\ fence \in [Call -> Nat] /\ aborted \in SUBSET Call
  /\ displaced \in SUBSET Call
  /\ overlap \in BOOLEAN /\ clobbered \in BOOLEAN /\ undone \in BOOLEAN

Records == job \in Job /\ mine \in [Call -> Job] /\ held \in [Call -> Job \cup {NoCopy}]

Files ==
  /\ step \in [Step -> Budgeted] /\ steps \in [Call -> [Step -> Budgeted]]
  /\ output \in SUBSET Step /\ starts \in [Step -> Nat] /\ StepInHand

JobInv == /\ Control /\ Records /\ Files
          /\ OutputWritten /\ CompletedHasOutput
          /\ LockInHand /\ CopyInHand /\ FenceInHand /\ ClaimIsExclusive

-----------------------------------------------------------------------------
\* Of steps that are not all completed there is a first one.
LEMMA FirstIsStep ==
  ASSUME NEW f, ~AllDone(f)
  PROVE  /\ First(f) \in Step /\ f[First(f)].status # "completed"
         /\ \A t \in 1..(First(f) - 1) : f[t].status = "completed"
<1> DEFINE T == {s \in Step : f[s].status # "completed"}
           R == {ss \in Nat \X Nat : ss[1] < ss[2]}
<1>1. T \subseteq Nat /\ T # {}
  BY JobAssumption DEF AllDone, Step
<1>2. IsWellFoundedOn(R, Nat)
  BY NatLessThanWellFounded DEF OpToRel
<1>3. \A a, b \in Nat : <<a, b>> \notin R => b <= a
  OBVIOUS
<1>4. PICK s \in T : \A t \in T : <<t, s>> \notin R
  <2> HIDE DEF R, T
  <2> QED
    BY <1>1, <1>2, WFMin
<1>5. \A t \in 1..(s - 1) : f[t].status = "completed"
  <2> TAKE t \in 1..(s - 1)
  <2>1. t \in Step /\ t \in Nat /\ s \in Nat /\ t < s
    BY JobAssumption DEF Step
  <2>2. t \notin T
    BY <2>1, <1>4
  <2> QED
    BY <2>1, <2>2
<1> QED
  BY <1>5 DEF First

LEMMA NewTypes == NewJob \in Job /\ NewStep \in StepFile
BY JobAssumption DEF NewJob, NewStep, Job, StepFile, JobStatus, StepStatus, Owner, Terminal

LEMMA InitInv == Init => JobInv
<1> SUFFICES ASSUME Init PROVE JobInv
  OBVIOUS
<1>1. Control
  BY DEF Init, Control, Owner, At
<1>2. Records
  BY NewTypes DEF Init, Records
<1>3. NewStep \in Budgeted
  BY JobAssumption, NewTypes DEF Init, NewStep, Budgeted
<1>4. Files
  BY NewTypes, <1>3 DEF Init, Files, StepInHand
<1> QED
  BY <1>1, <1>2, <1>4, JobAssumption
     DEF Init, JobInv, OutputWritten, CompletedHasOutput, NewStep, LockInHand, CopyInHand, Copying,
         FenceInHand, InFence, ClaimIsExclusive, Holds

-----------------------------------------------------------------------------
\* Control keeps its type.
LEMMA ControlStep == JobInv /\ [Next]_vars => Control'
<1> SUFFICES ASSUME JobInv, [Next]_vars PROVE Control'
  OBVIOUS
<1>b. budget' = budget
  BY DEF Next, vars
<1>c. Control /\ job.fence \in Nat
  BY DEF JobInv, Records, Job
<1> USE <1>b, <1>c, JobAssumption DEF Control, Goto, At, Owner, Larger
<1>1. ASSUME NEW c \in Call, Acquire(c) PROVE Control'
  BY <1>1 DEF Acquire, Goto, Enters, disk
<1>2. ASSUME NEW c \in Call, WriteOwnerLock(c) PROVE Control'
  BY <1>2 DEF WriteOwnerLock, Goto, local
<1>3. ASSUME NEW c \in Call, WriteOwnerJob(c) PROVE Control'
  BY <1>3 DEF WriteOwnerJob, Goto
<1>4. ASSUME NEW c \in Call, AcquireRefused(c) PROVE Control'
  BY <1>4 DEF AcquireRefused, disk, history
<1>5. ASSUME NEW c \in Call, Release(c) PROVE Control'
  BY <1>5 DEF Release, Goto, Enters, disk
<1>6. ASSUME NEW c \in Call, ClearOwner(c) PROVE Control'
  BY <1>6 DEF ClearOwner, Goto
<1>7. ASSUME NEW c \in Call, RemoveLock(c) PROVE Control'
  BY <1>7 DEF RemoveLock, Goto, Returns, local, history
<1>8. ASSUME NEW c \in Call, ReleaseNothing(c) PROVE Control'
  BY <1>8 DEF ReleaseNothing, Goto, Returns, disk, local, history
<1>9. ASSUME NEW c \in Call, LockTimeout(c) PROVE Control'
  BY <1>9 DEF LockTimeout, Goto, disk, local, history
<1>10. ASSUME NEW c \in Call, Settle(c) PROVE Control'
  BY <1>10 DEF Settle, WriteJob, history
<1>11. ASSUME NEW c \in Call, Inspect(c) PROVE Control'
  BY <1>11 DEF Inspect, disk, history
<1>12. ASSUME NEW c \in Call, MarkStale(c) PROVE Control'
  BY <1>12 DEF MarkStale, Overwrites
<1>13. ASSUME NEW c \in Call, BeginRecovery(c) PROVE Control'
  BY <1>13 DEF BeginRecovery, disk, local, history
<1>14. ASSUME NEW c \in Call, SkillOutdated(c) PROVE Control'
  BY <1>14 DEF SkillOutdated, Goto, disk, history
<1>15. ASSUME NEW c \in Call, MarkSkillRecovery(c) PROVE Control'
  BY <1>15 DEF MarkSkillRecovery, Goto
<1>16. ASSUME NEW c \in Call, PrepareUncertain(c) PROVE Control'
  BY <1>16 DEF PrepareUncertain, Prepare, history
<1>17. ASSUME NEW c \in Call, PrepareRequeue(c) PROVE Control'
  BY <1>17 DEF PrepareRequeue, Prepare, history
<1>18. ASSUME NEW c \in Call, PrepareNothing(c) PROVE Control'
  BY <1>18 DEF PrepareNothing, disk, local, history
<1>19. ASSUME NEW c \in Call, Begin(c) PROVE Control'
  BY <1>19 DEF Begin, disk, history
<1>20. ASSUME NEW c \in Call, Load(c) PROVE Control'
  BY <1>20 DEF Load, disk, history
<1>21. ASSUME NEW c \in Call, TakeJob(c) PROVE Control'
  BY <1>21 DEF TakeJob, WriteJob, history
<1>22. ASSUME NEW c \in Call, Granted(c) PROVE Control'
  BY <1>22 DEF Granted, disk, local, history
<1>23. ASSUME NEW c \in Call, WaitEnds(c) PROVE Control'
  BY <1>23 DEF WaitEnds, StepThenJob, history
<1>24. ASSUME NEW c \in Call, WaitCancelled(c) PROVE Control'
  BY <1>24 DEF WaitCancelled, disk, history
<1>25. ASSUME NEW c \in Call, Throw(c) PROVE Control'
  BY <1>25 DEF Throw, disk, local, history
<1>26. ASSUME NEW c \in Call, HeartbeatRead(c) PROVE Control'
  BY <1>26 DEF HeartbeatRead, disk, history
<1>27. ASSUME NEW c \in Call, HeartbeatWrite(c) PROVE Control'
  BY <1>27 DEF HeartbeatWrite, history
<1>28. ASSUME NEW c \in Call, Complete(c) PROVE Control'
  BY <1>28 DEF Complete, disk, history
<1>29. ASSUME NEW c \in Call, StopBefore(c) PROVE Control'
  BY <1>29 DEF StopBefore, StepThenJob, history
<1>30. ASSUME NEW c \in Call, MarkStep(c) PROVE Control'
  BY <1>30 DEF MarkStep, StepThenJob, history
<1>31. ASSUME NEW c \in Call, StartStep(c) PROVE Control'
  BY <1>31 DEF StartStep, WriteJob
<1>32. ASSUME NEW c \in Call, HandlerReturns(c) PROVE Control'
  BY <1>32 DEF HandlerReturns, disk, local, history
<1>33. ASSUME NEW c \in Call, HandlerThrows(c) PROVE Control'
  BY <1>33 DEF HandlerThrows, disk, local, history
<1>34. ASSUME NEW c \in Call, WriteOutput(c) PROVE Control'
  BY <1>34 DEF WriteOutput, local, history
<1>35. ASSUME NEW c \in Call, CompleteStep(c) PROVE Control'
  BY <1>35 DEF CompleteStep, local, history
<1>36. ASSUME NEW c \in Call, RecordStep(c) PROVE Control'
  BY <1>36 DEF RecordStep, WriteJob, history
<1>37. ASSUME NEW c \in Call, Reload(c) PROVE Control'
  BY <1>37 DEF Reload, disk, history
<1>38. ASSUME NEW c \in Call, FailStep(c) PROVE Control'
  BY <1>38 DEF FailStep, StepThenJob, history
<1>39. ASSUME NEW c \in Call, Conclude(c) PROVE Control'
  BY <1>39 DEF Conclude, Overwrites, local
<1>40. ASSUME NEW c \in Call, RetryThrows(c) PROVE Control'
  BY <1>40 DEF RetryThrows, disk, local, history
<1>41. ASSUME NEW c \in Call, Retry(c) PROVE Control'
  BY <1>41 DEF Retry, StepThenJob, history
<1>42. ASSUME NEW c \in Call, BeginCancel(c) PROVE Control'
  <2>1. Controllers(c) \subseteq Call
    BY DEF Controllers
  <2> QED
    BY <1>42, <2>1 DEF BeginCancel, disk, history
<1>43. ASSUME NEW c \in Call, CancelStep(c) PROVE Control'
  BY <1>43 DEF CancelStep, local
<1>44. ASSUME NEW c \in Call, CancelJob(c) PROVE Control'
  BY <1>44 DEF CancelJob, Overwrites, local
<1>45. ASSUME NEW p \in Proc, Crash(p) PROVE Control'
  BY <1>45 DEF Crash, disk, local, history
<1>46. CASE UNCHANGED vars
  BY <1>46 DEF vars, disk, local, history
<1> QED
  BY <1>1, <1>2, <1>3, <1>4, <1>5, <1>6, <1>7, <1>8, <1>9, <1>10, <1>11, <1>12, <1>13, <1>14,
     <1>15, <1>16, <1>17, <1>18, <1>19, <1>20, <1>21, <1>22, <1>23, <1>24, <1>25, <1>26, <1>27,
     <1>28, <1>29, <1>30, <1>31, <1>32, <1>33, <1>34, <1>35, <1>36, <1>37, <1>38, <1>39, <1>40,
     <1>41, <1>42, <1>43, <1>44, <1>45, <1>46 DEF Next, StoreStep, RecoverStep, ExecuteStep,
     UserStep

-----------------------------------------------------------------------------
\* What the job record may become.
LEMMA RecordTypes ==
  ASSUME NEW j \in Job
  PROVE  /\ \A status \in JobStatus : [j EXCEPT !.status = status] \in Job
         /\ \A status \in JobStatus : Leaving(j, status) \in Job
         /\ \A o \in Owner : [j EXCEPT !.owner = o] \in Job
         /\ \A b \in BOOLEAN : [j EXCEPT !.cancel = b] \in Job
         /\ \A o \in Owner, f \in Nat, p \in Proc \cup {NoProc} :
              [j EXCEPT !.owner = o, !.fence = f, !.pid = p] \in Job
         /\ [j EXCEPT !.owner = NoCall, !.pid = NoProc] \in Job
         /\ [j EXCEPT !.status = "recovering", !.cancel = FALSE] \in Job
         /\ InProgress(j) \in Job
BY DEF Job, Leaving, InProgress, JobStatus, Owner

LEMMA StampedIsJob ==
  ASSUME Control, NEW c \in Call, NEW j \in Job PROVE Stamped(c, j) \in Job
BY JobAssumption DEF Control, Stamped, Job

\* The writes that several actions share.
LEMMA WriteJobTyped ==
  ASSUME Control, Records, NEW c \in Call, NEW j \in Job, NEW to, NEW refused,
         WriteJob(c, j, to, refused)
  PROVE  job' \in Job /\ mine' \in [Call -> Job]
BY StampedIsJob DEF WriteJob, Records

LEMMA StepThenJobTyped ==
  ASSUME Records, NEW c \in Call, NEW s, NEW r, NEW j \in Job, NEW to,
         StepThenJob(c, s, r, j, to)
  PROVE  mine' \in [Call -> Job]
BY DEF StepThenJob, Records

\* The records keep their type.
LEMMA RecordStepInv == JobInv /\ [Next]_vars => Records'
<1> SUFFICES ASSUME JobInv, [Next]_vars PROVE Records'
  OBVIOUS
<1>c. Control /\ Records /\ CopyInHand
  BY DEF JobInv
<1>s. /\ {"stale", "recovering", "recovery_required", "queued", "running"} \subseteq JobStatus
      /\ Terminal \subseteq JobStatus /\ {"completed", "failed", "blocked", "cancelled"} = Terminal
  BY DEF JobStatus, Terminal
<1> USE <1>c DEF Records
<1>1. ASSUME NEW c \in Call, Acquire(c) PROVE Records'
  BY <1>1, <1>s, RecordTypes DEF Acquire, Goto, Enters, disk
<1>2. ASSUME NEW c \in Call, WriteOwnerLock(c) PROVE Records'
  BY <1>2, <1>s, RecordTypes DEF WriteOwnerLock, Goto, local
<1>3. ASSUME NEW c \in Call, WriteOwnerJob(c) PROVE Records'
  <2>1. held[c] \in Job /\ c \in Owner /\ fence[c] \in Nat /\ ProcOf[c] \in Proc
    BY <1>3, JobAssumption DEF WriteOwnerJob, Goto, CopyInHand, Copying, Control, Owner
  <2>2. job' \in Job
    BY <1>3, <2>1, RecordTypes DEF WriteOwnerJob
  <2> QED
    BY <1>3, <2>2 DEF WriteOwnerJob
<1>4. ASSUME NEW c \in Call, AcquireRefused(c) PROVE Records'
  BY <1>4, <1>s, RecordTypes DEF AcquireRefused, disk, history, Goto
<1>5. ASSUME NEW c \in Call, Release(c) PROVE Records'
  BY <1>5, <1>s, RecordTypes DEF Release, Goto, Enters, disk
<1>6. ASSUME NEW c \in Call, ClearOwner(c) PROVE Records'
  <2>1. held[c] \in Job
    BY <1>6 DEF ClearOwner, Goto, CopyInHand, Copying
  <2>2. job' \in Job
    BY <1>6, <2>1, RecordTypes DEF ClearOwner
  <2> QED
    BY <1>6, <2>2 DEF ClearOwner
<1>7. ASSUME NEW c \in Call, RemoveLock(c) PROVE Records'
  BY <1>7, <1>s, RecordTypes DEF RemoveLock, Goto, Returns, local, history
<1>8. ASSUME NEW c \in Call, ReleaseNothing(c) PROVE Records'
  BY <1>8, <1>s, RecordTypes DEF ReleaseNothing, Goto, Returns, disk, local, history
<1>9. ASSUME NEW c \in Call, LockTimeout(c) PROVE Records'
  BY <1>9, <1>s, RecordTypes DEF LockTimeout, Goto, disk, local, history
<1>10. ASSUME NEW c \in Call, Settle(c) PROVE Records'
  <2>1. mine[c] \in Job /\ c \in Owner
    BY DEF Owner
  <2>2. mine[c] \in Job
    BY <2>1, <1>s, RecordTypes
  <2>3. job' \in Job /\ mine' \in [Call -> Job]
    BY <1>10, <2>2, WriteJobTyped DEF Settle
  <2> QED
    BY <1>10, <2>3 DEF Settle
<1>11. ASSUME NEW c \in Call, Inspect(c) PROVE Records'
  BY <1>11, <1>s, RecordTypes DEF Inspect, disk, history, Goto
<1>12. ASSUME NEW c \in Call, MarkStale(c) PROVE Records'
  BY <1>12, <1>s, RecordTypes DEF MarkStale, Goto
<1>13. ASSUME NEW c \in Call, BeginRecovery(c) PROVE Records'
  BY <1>13, <1>s, RecordTypes DEF BeginRecovery, disk, local, history, Goto
<1>14. ASSUME NEW c \in Call, SkillOutdated(c) PROVE Records'
  BY <1>14, <1>s, RecordTypes DEF SkillOutdated, Goto, disk, history
<1>15. ASSUME NEW c \in Call, MarkSkillRecovery(c) PROVE Records'
  <2>1. held[c] \in Job
    BY <1>15 DEF MarkSkillRecovery, Goto, CopyInHand, Copying
  <2>2. job' \in Job
    BY <1>15, <2>1, <1>s, RecordTypes DEF MarkSkillRecovery
  <2> QED
    BY <1>15, <2>2 DEF MarkSkillRecovery
<1>16. ASSUME NEW c \in Call, PrepareUncertain(c) PROVE Records'
  BY <1>16, <1>s, RecordTypes DEF PrepareUncertain, Prepare, history
<1>17. ASSUME NEW c \in Call, PrepareRequeue(c) PROVE Records'
  BY <1>17, <1>s, RecordTypes DEF PrepareRequeue, Prepare, history
<1>18. ASSUME NEW c \in Call, PrepareNothing(c) PROVE Records'
  BY <1>18, <1>s, RecordTypes DEF PrepareNothing, disk, local, history, Goto
<1>19. ASSUME NEW c \in Call, Begin(c) PROVE Records'
  BY <1>19, <1>s, RecordTypes DEF Begin, disk, history, Goto
<1>20. ASSUME NEW c \in Call, Load(c) PROVE Records'
  BY <1>20, <1>s, RecordTypes DEF Load, disk, history, Goto
<1>21. ASSUME NEW c \in Call, TakeJob(c) PROVE Records'
  <2>1. mine[c] \in Job /\ c \in Owner
    BY DEF Owner
  <2>2. InProgress([mine[c] EXCEPT !.owner = c]) \in Job
    BY <2>1, <1>s, RecordTypes
  <2>3. job' \in Job /\ mine' \in [Call -> Job]
    BY <1>21, <2>2, WriteJobTyped DEF TakeJob
  <2> QED
    BY <1>21, <2>3 DEF TakeJob
<1>22. ASSUME NEW c \in Call, Granted(c) PROVE Records'
  BY <1>22, <1>s, RecordTypes DEF Granted, disk, local, history, Goto
<1>23. ASSUME NEW c \in Call, WaitEnds(c) PROVE Records'
  <2>1. mine[c] \in Job /\ job \in Job
    OBVIOUS
  <2>2. Leaving(job, "cancelled") \in Job /\ Leaving(job, "queued") \in Job
    BY <2>1, <1>s, RecordTypes
  <2>3. mine' \in [Call -> Job]
    BY <1>23, <2>1, <2>2, StepThenJobTyped DEF WaitEnds
  <2> QED
    BY <1>23, <2>3 DEF WaitEnds
<1>24. ASSUME NEW c \in Call, WaitCancelled(c) PROVE Records'
  BY <1>24, <1>s, RecordTypes DEF WaitCancelled, disk, history, Goto
<1>25. ASSUME NEW c \in Call, Throw(c) PROVE Records'
  BY <1>25, <1>s, RecordTypes DEF Throw, disk, local, history, Goto
<1>26. ASSUME NEW c \in Call, HeartbeatRead(c) PROVE Records'
  BY <1>26, <1>s, RecordTypes DEF HeartbeatRead, disk, history
<1>27. ASSUME NEW c \in Call, HeartbeatWrite(c) PROVE Records'
  BY <1>27, <1>s, RecordTypes DEF HeartbeatWrite, history
<1>28. ASSUME NEW c \in Call, Complete(c) PROVE Records'
  BY <1>28, <1>s, RecordTypes DEF Complete, disk, history, Goto
<1>29. ASSUME NEW c \in Call, StopBefore(c) PROVE Records'
  <2>1. mine[c] \in Job /\ job \in Job
    OBVIOUS
  <2>2. Leaving(mine[c], "cancelled") \in Job /\ Leaving(mine[c], "blocked") \in Job
    BY <2>1, <1>s, RecordTypes
  <2>3. mine' \in [Call -> Job]
    BY <1>29, <2>1, <2>2, StepThenJobTyped DEF StopBefore
  <2> QED
    BY <1>29, <2>3 DEF StopBefore
<1>30. ASSUME NEW c \in Call, MarkStep(c) PROVE Records'
  <2>1. mine[c] \in Job /\ job \in Job
    OBVIOUS
  <2>2. TRUE
    BY <2>1, <1>s, RecordTypes
  <2>3. mine' \in [Call -> Job]
    BY <1>30, <2>1, <2>2, StepThenJobTyped DEF MarkStep
  <2> QED
    BY <1>30, <2>3 DEF MarkStep
<1>31. ASSUME NEW c \in Call, StartStep(c) PROVE Records'
  <2>1. mine[c] \in Job /\ c \in Owner
    BY DEF Owner
  <2>2. InProgress(mine[c]) \in Job
    BY <2>1, <1>s, RecordTypes
  <2>3. job' \in Job /\ mine' \in [Call -> Job]
    BY <1>31, <2>2, WriteJobTyped DEF StartStep
  <2> QED
    BY <1>31, <2>3 DEF StartStep
<1>32. ASSUME NEW c \in Call, HandlerReturns(c) PROVE Records'
  BY <1>32, <1>s, RecordTypes DEF HandlerReturns, disk, local, history, Goto
<1>33. ASSUME NEW c \in Call, HandlerThrows(c) PROVE Records'
  BY <1>33, <1>s, RecordTypes DEF HandlerThrows, disk, local, history, Goto
<1>34. ASSUME NEW c \in Call, WriteOutput(c) PROVE Records'
  BY <1>34, <1>s, RecordTypes DEF WriteOutput, local, history, Goto
<1>35. ASSUME NEW c \in Call, CompleteStep(c) PROVE Records'
  BY <1>35, <1>s, RecordTypes DEF CompleteStep, local, history, Goto
<1>36. ASSUME NEW c \in Call, RecordStep(c) PROVE Records'
  <2>1. mine[c] \in Job /\ c \in Owner
    BY DEF Owner
  <2>2. [mine[c] EXCEPT !.cancel = @ \/ job.cancel] \in Job
    BY <2>1, <1>c DEF Job
  <2>3. job' \in Job /\ mine' \in [Call -> Job]
    BY <1>36, <2>2, WriteJobTyped DEF RecordStep
  <2> QED
    BY <1>36, <2>3 DEF RecordStep
<1>37. ASSUME NEW c \in Call, Reload(c) PROVE Records'
  BY <1>37, <1>s, RecordTypes DEF Reload, disk, history, Goto
<1>38. ASSUME NEW c \in Call, FailStep(c) PROVE Records'
  <2>1. mine[c] \in Job /\ job \in Job
    OBVIOUS
  <2>2. /\ Leaving(job, "cancelled") \in Job
        /\ \A status \in {"failed", "blocked", "recovery_required"} : Leaving(mine[c], status) \in Job
    BY <2>1, <1>s, RecordTypes
  <2>3. mine' \in [Call -> Job]
    BY <1>38, <2>1, <2>2, StepThenJobTyped DEF FailStep
  <2> QED
    BY <1>38, <2>3 DEF FailStep
<1>39. ASSUME NEW c \in Call, Conclude(c) PROVE Records'
  <2>1. mine[c] \in Job /\ mine[c].status \in JobStatus
    BY DEF Job
  <2>2. PICK status \in JobStatus : job' = [mine[c] EXCEPT !.status = status]
    BY <1>39, <2>1, <1>s DEF Conclude
  <2>3. job' \in Job
    BY <2>1, <2>2, RecordTypes
  <2> QED
    BY <1>39, <2>3 DEF Conclude, local
<1>40. ASSUME NEW c \in Call, RetryThrows(c) PROVE Records'
  BY <1>40, <1>s, RecordTypes DEF RetryThrows, disk, local, history, Goto
<1>41. ASSUME NEW c \in Call, Retry(c) PROVE Records'
  <2>1. mine[c] \in Job /\ job \in Job
    OBVIOUS
  <2>2. /\ [job EXCEPT !.status = "recovering", !.cancel = FALSE] \in Job
        /\ [job EXCEPT !.status = "blocked"] \in Job
    BY <2>1, <1>s, RecordTypes
  <2>3. mine' \in [Call -> Job]
    BY <1>41, <2>1, <2>2, StepThenJobTyped DEF Retry
  <2> QED
    BY <1>41, <2>3 DEF Retry
<1>42. ASSUME NEW c \in Call, BeginCancel(c) PROVE Records'
  BY <1>42, <1>s, RecordTypes DEF BeginCancel, disk, history, Goto
<1>43. ASSUME NEW c \in Call, CancelStep(c) PROVE Records'
  BY <1>43, <1>s, RecordTypes DEF CancelStep, local, Goto
<1>44. ASSUME NEW c \in Call, CancelJob(c) PROVE Records'
  BY <1>44, <1>s, RecordTypes DEF CancelJob, local, Goto
<1>45. ASSUME NEW p \in Proc, Crash(p) PROVE Records'
  BY <1>45, <1>s, RecordTypes DEF Crash, disk, local, history
<1>46. CASE UNCHANGED vars
  BY <1>46, <1>s, RecordTypes DEF vars, disk, local, history, Goto
<1> QED
  BY <1>1, <1>2, <1>3, <1>4, <1>5, <1>6, <1>7, <1>8, <1>9, <1>10, <1>11, <1>12, <1>13, <1>14,
     <1>15, <1>16, <1>17, <1>18, <1>19, <1>20, <1>21, <1>22, <1>23, <1>24, <1>25, <1>26, <1>27,
     <1>28, <1>29, <1>30, <1>31, <1>32, <1>33, <1>34, <1>35, <1>36, <1>37, <1>38, <1>39, <1>40,
     <1>41, <1>42, <1>43, <1>44, <1>45, <1>46 DEF Next, StoreStep, RecoverStep, ExecuteStep,
     UserStep

-----------------------------------------------------------------------------
LEMMA StoppedBudgeted ==
  ASSUME NEW r \in Budgeted, NEW status \in StepStatus
  PROVE  Stopped(r, status) \in Budgeted /\ [r EXCEPT !.status = status] \in Budgeted
BY DEF Budgeted, Stopped, StepFile, Owner

LEMMA RunningBudgeted ==
  ASSUME Control, NEW c \in Call, NEW r \in Budgeted, r.attempts < budget
  PROVE  Running(c, r) \in Budgeted
BY JobAssumption DEF Control, Budgeted, Running, StepFile, StepStatus, Owner

\* The owned write of a step that has such a file.
LEMMA StepWritten ==
  ASSUME Files, NEW c \in Call, NEW s, NEW r, s \in Step => r \in Budgeted, NEW j, NEW to,
         StepThenJob(c, s, r, j, to)
  PROVE  /\ step' \in [Step -> Budgeted]
         /\ pc' = [pc EXCEPT ![c] = to] \/ pc' = [pc EXCEPT ![c] = "release"]
BY DEF StepThenJob, Files

\* The files and their copies keep their type.
LEMMA FileStep == JobInv /\ [Next]_vars => Files'
<1> SUFFICES ASSUME JobInv, [Next]_vars PROVE Files'
  OBVIOUS
<1>b. budget' = budget
  BY DEF Next, vars
<1>c. Control /\ Files
  BY DEF JobInv
<1>d. Budgeted' = Budgeted
  BY <1>b DEF Budgeted
<1>p. pc \in [Call -> At]
  BY <1>c DEF Control
<1>s. {"completed", "failed", "blocked", "cancelled", "queued", "recovery_required"} \subseteq StepStatus
  BY DEF StepStatus, Terminal
<1> USE <1>c, <1>d, <1>p DEF Files, StepInHand
<1>1. ASSUME NEW c \in Call, Acquire(c) PROVE Files'
  BY <1>1, <1>s, StoppedBudgeted DEF Acquire, Goto, Enters, disk
<1>2. ASSUME NEW c \in Call, WriteOwnerLock(c) PROVE Files'
  BY <1>2, <1>s, StoppedBudgeted DEF WriteOwnerLock, Goto, local
<1>3. ASSUME NEW c \in Call, WriteOwnerJob(c) PROVE Files'
  BY <1>3, <1>s, StoppedBudgeted DEF WriteOwnerJob, Goto
<1>4. ASSUME NEW c \in Call, AcquireRefused(c) PROVE Files'
  BY <1>4, <1>s, StoppedBudgeted DEF AcquireRefused, disk, history, Goto
<1>5. ASSUME NEW c \in Call, Release(c) PROVE Files'
  BY <1>5, <1>s, StoppedBudgeted DEF Release, Goto, Enters, disk
<1>6. ASSUME NEW c \in Call, ClearOwner(c) PROVE Files'
  BY <1>6, <1>s, StoppedBudgeted DEF ClearOwner, Goto
<1>7. ASSUME NEW c \in Call, RemoveLock(c) PROVE Files'
  BY <1>7, <1>s, StoppedBudgeted DEF RemoveLock, Goto, Returns, local, history
<1>8. ASSUME NEW c \in Call, ReleaseNothing(c) PROVE Files'
  BY <1>8, <1>s, StoppedBudgeted DEF ReleaseNothing, Goto, Returns, disk, local, history
<1>9. ASSUME NEW c \in Call, LockTimeout(c) PROVE Files'
  BY <1>9, <1>s, StoppedBudgeted DEF LockTimeout, Goto, disk, local, history
<1>10. ASSUME NEW c \in Call, Settle(c) PROVE Files'
  BY <1>10, <1>s, StoppedBudgeted DEF Settle, WriteJob, history
<1>11. ASSUME NEW c \in Call, Inspect(c) PROVE Files'
  BY <1>11, <1>s, StoppedBudgeted DEF Inspect, disk, history, Goto
<1>12. ASSUME NEW c \in Call, MarkStale(c) PROVE Files'
  BY <1>12, <1>s, StoppedBudgeted DEF MarkStale, Goto
<1>13. ASSUME NEW c \in Call, BeginRecovery(c) PROVE Files'
  BY <1>13, <1>s, StoppedBudgeted DEF BeginRecovery, disk, local, history, Goto
<1>14. ASSUME NEW c \in Call, SkillOutdated(c) PROVE Files'
  BY <1>14, <1>s, StoppedBudgeted DEF SkillOutdated, Goto, disk, history
<1>15. ASSUME NEW c \in Call, MarkSkillRecovery(c) PROVE Files'
  BY <1>15, <1>s, StoppedBudgeted DEF MarkSkillRecovery, Goto
<1>16. ASSUME NEW c \in Call, PrepareUncertain(c) PROVE Files'
  <2>1. \A s \in Step : Stopped(step[s], "recovery_required") \in Budgeted
    BY <1>s, StoppedBudgeted
  <2>2. step' \in [Step -> Budgeted]
    BY <1>16, <2>1 DEF PrepareUncertain
  <2> QED
    BY <1>16, <2>2 DEF PrepareUncertain, Prepare, history
<1>17. ASSUME NEW c \in Call, PrepareRequeue(c) PROVE Files'
  BY <1>17, <1>s, StoppedBudgeted DEF PrepareRequeue, Prepare, history
<1>18. ASSUME NEW c \in Call, PrepareNothing(c) PROVE Files'
  BY <1>18, <1>s, StoppedBudgeted DEF PrepareNothing, disk, local, history, Goto
<1>19. ASSUME NEW c \in Call, Begin(c) PROVE Files'
  BY <1>19, <1>s, StoppedBudgeted DEF Begin, disk, history, Goto
<1>20. ASSUME NEW c \in Call, Load(c) PROVE Files'
  BY <1>20, <1>s, StoppedBudgeted DEF Load, disk, history, Goto
<1>21. ASSUME NEW c \in Call, TakeJob(c) PROVE Files'
  BY <1>21, <1>s, StoppedBudgeted DEF TakeJob, WriteJob, history
<1>22. ASSUME NEW c \in Call, Granted(c) PROVE Files'
  BY <1>22, <1>s, StoppedBudgeted DEF Granted, disk, local, history, Goto
<1>23. ASSUME NEW c \in Call, WaitEnds(c) PROVE Files'
  <2>1. \A s \in Step : step[s] \in Budgeted /\ steps[c][s] \in Budgeted
    OBVIOUS
  <2>2. step' \in [Step -> Budgeted]
    BY <1>23, <2>1, <1>s, StoppedBudgeted, StepWritten DEF WaitEnds
  <2>3. pc' = [pc EXCEPT ![c] = "settle"] \/ pc' = [pc EXCEPT ![c] = "release"]
    BY <1>23 DEF WaitEnds, StepThenJob
  <2> QED
    BY <1>23, <2>2, <2>3 DEF WaitEnds, history
<1>24. ASSUME NEW c \in Call, WaitCancelled(c) PROVE Files'
  BY <1>24, <1>s, StoppedBudgeted DEF WaitCancelled, disk, history, Goto
<1>25. ASSUME NEW c \in Call, Throw(c) PROVE Files'
  BY <1>25, <1>s, StoppedBudgeted DEF Throw, disk, local, history, Goto
<1>26. ASSUME NEW c \in Call, HeartbeatRead(c) PROVE Files'
  BY <1>26, <1>s, StoppedBudgeted DEF HeartbeatRead, disk, history
<1>27. ASSUME NEW c \in Call, HeartbeatWrite(c) PROVE Files'
  BY <1>27, <1>s, StoppedBudgeted DEF HeartbeatWrite, history
<1>28. ASSUME NEW c \in Call, Complete(c) PROVE Files'
  BY <1>28, <1>s, StoppedBudgeted DEF Complete, disk, history, Goto
<1>29. ASSUME NEW c \in Call, StopBefore(c) PROVE Files'
  <2>1. \A s \in Step : step[s] \in Budgeted /\ steps[c][s] \in Budgeted
    OBVIOUS
  <2>2. step' \in [Step -> Budgeted]
    BY <1>29, <2>1, <1>s, StoppedBudgeted, StepWritten DEF StopBefore
  <2>3. pc' = [pc EXCEPT ![c] = "settle"] \/ pc' = [pc EXCEPT ![c] = "release"]
    BY <1>29 DEF StopBefore, StepThenJob
  <2> QED
    BY <1>29, <2>2, <2>3 DEF StopBefore, history
<1>30. ASSUME NEW c \in Call, MarkStep(c) PROVE Files'
  <2> DEFINE s == First(steps[c])
             r == steps[c][s]
  <2>1. s \in Step /\ r \in Budgeted
    BY <1>30, FirstIsStep DEF MarkStep
  <2>2. Running(c, r) \in Budgeted
    BY <1>30, <2>1, RunningBudgeted DEF MarkStep
  <2>3. /\ step' \in [Step -> Budgeted]
        /\ pc' = [pc EXCEPT ![c] = "start"] \/ pc' = [pc EXCEPT ![c] = "release"]
    BY <1>30, <2>2, StepWritten DEF MarkStep
  <2>4. steps' = [steps EXCEPT ![c][s] = Running(c, r)]
    BY <1>30 DEF MarkStep
  <2>5. ~AllDone(steps'[c])
    BY <2>1, <2>4 DEF AllDone, Running
  <2> QED
    BY <1>30, <2>1, <2>2, <2>3, <2>4, <2>5 DEF MarkStep, history
<1>31. ASSUME NEW c \in Call, StartStep(c) PROVE Files'
  <2>1. First(steps[c]) \in Step
    BY <1>31, FirstIsStep DEF StartStep
  <2>2. pc' = [pc EXCEPT ![c] = "run"] \/ pc' = [pc EXCEPT ![c] = "release"]
    BY <1>31 DEF StartStep, WriteJob
  <2> QED
    BY <1>31, <2>1, <2>2 DEF StartStep
<1>32. ASSUME NEW c \in Call, HandlerReturns(c) PROVE Files'
  BY <1>32, <1>s, StoppedBudgeted DEF HandlerReturns, disk, local, history, Goto
<1>33. ASSUME NEW c \in Call, HandlerThrows(c) PROVE Files'
  BY <1>33, <1>s, StoppedBudgeted DEF HandlerThrows, disk, local, history, Goto
<1>34. ASSUME NEW c \in Call, WriteOutput(c) PROVE Files'
  <2>1. First(steps[c]) \in Step
    BY <1>34, FirstIsStep DEF WriteOutput, Goto
  <2> QED
    BY <1>34, <2>1 DEF WriteOutput, Goto, local, history
<1>35. ASSUME NEW c \in Call, CompleteStep(c) PROVE Files'
  <2> DEFINE s == First(steps[c])
  <2>1. s \in Step /\ steps[c][s] \in Budgeted
    BY <1>35, FirstIsStep DEF CompleteStep, Goto
  <2>2. Stopped(steps[c][s], "completed") \in Budgeted
    BY <2>1, <1>s, StoppedBudgeted
  <2> QED
    BY <1>35, <2>1, <2>2 DEF CompleteStep, Goto, local, history
<1>36. ASSUME NEW c \in Call, RecordStep(c) PROVE Files'
  <2> DEFINE s == First(steps[c])
  <2>1. s \in Step /\ steps[c][s] \in Budgeted
    BY <1>36, FirstIsStep DEF RecordStep
  <2>2. Stopped(steps[c][s], "completed") \in Budgeted
    BY <2>1, <1>s, StoppedBudgeted
  <2>3. pc' = [pc EXCEPT ![c] = "reload"] \/ pc' = [pc EXCEPT ![c] = "failed"]
    BY <1>36 DEF RecordStep, WriteJob
  <2>4. steps' \in [Call -> [Step -> Budgeted]] /\ \A d \in Call \ {c} : steps'[d] = steps[d]
    BY <1>36, <2>1, <2>2 DEF RecordStep
  <2> QED
    BY <1>36, <2>3, <2>4 DEF RecordStep, history
<1>37. ASSUME NEW c \in Call, Reload(c) PROVE Files'
  BY <1>37, <1>s, StoppedBudgeted DEF Reload, disk, history, Goto
<1>38. ASSUME NEW c \in Call, FailStep(c) PROVE Files'
  <2>1. \A s \in Step : step[s] \in Budgeted /\ steps[c][s] \in Budgeted
    OBVIOUS
  <2>2. step' \in [Step -> Budgeted]
    BY <1>38, <2>1, <1>s, StoppedBudgeted, StepWritten DEF FailStep
  <2>3. pc' = [pc EXCEPT ![c] = "settle"] \/ pc' = [pc EXCEPT ![c] = "release"]
    BY <1>38 DEF FailStep, StepThenJob
  <2> QED
    BY <1>38, <2>2, <2>3 DEF FailStep, history
<1>39. ASSUME NEW c \in Call, Conclude(c) PROVE Files'
  BY <1>39, <1>s, StoppedBudgeted DEF Conclude, local, Goto
<1>40. ASSUME NEW c \in Call, RetryThrows(c) PROVE Files'
  BY <1>40, <1>s, StoppedBudgeted DEF RetryThrows, disk, local, history, Goto
<1>41. ASSUME NEW c \in Call, Retry(c) PROVE Files'
  <2>1. \A s \in Step : step[s] \in Budgeted /\ steps[c][s] \in Budgeted
    OBVIOUS
  <2>2. step' \in [Step -> Budgeted]
    BY <1>41, <2>1, <1>s, JobAssumption, StoppedBudgeted, StepWritten DEF Retry
  <2>3. pc' = [pc EXCEPT ![c] = "settle"] \/ pc' = [pc EXCEPT ![c] = "release"]
    BY <1>41 DEF Retry, StepThenJob
  <2> QED
    BY <1>41, <2>2, <2>3 DEF Retry, history
<1>42. ASSUME NEW c \in Call, BeginCancel(c) PROVE Files'
  <2>1. PICK to \in {"done", "cancelStep", "cancelJob"} : pc' = [pc EXCEPT ![c] = to]
    BY <1>42 DEF BeginCancel, Goto
  <2>2. steps' = [steps EXCEPT ![c] = step]
    BY <1>42 DEF BeginCancel
  <2> QED
    BY <1>42, <2>1, <2>2 DEF BeginCancel, disk, history
<1>43. ASSUME NEW c \in Call, CancelStep(c) PROVE Files'
  <2>1. \A s \in Step : Stopped(steps[c][s], "cancelled") \in Budgeted
    BY <1>s, StoppedBudgeted
  <2>2. step' \in [Step -> Budgeted]
    BY <1>43, <2>1 DEF CancelStep
  <2> QED
    BY <1>43, <2>2 DEF CancelStep, Goto, local
<1>44. ASSUME NEW c \in Call, CancelJob(c) PROVE Files'
  BY <1>44, <1>s, StoppedBudgeted DEF CancelJob, local, Goto
<1>45. ASSUME NEW p \in Proc, Crash(p) PROVE Files'
  BY <1>45, <1>s, StoppedBudgeted DEF Crash, disk, local, history
<1>46. CASE UNCHANGED vars
  BY <1>46, <1>s, StoppedBudgeted DEF vars, disk, local, history, Goto
<1> QED
  BY <1>1, <1>2, <1>3, <1>4, <1>5, <1>6, <1>7, <1>8, <1>9, <1>10, <1>11, <1>12, <1>13, <1>14,
     <1>15, <1>16, <1>17, <1>18, <1>19, <1>20, <1>21, <1>22, <1>23, <1>24, <1>25, <1>26, <1>27,
     <1>28, <1>29, <1>30, <1>31, <1>32, <1>33, <1>34, <1>35, <1>36, <1>37, <1>38, <1>39, <1>40,
     <1>41, <1>42, <1>43, <1>44, <1>45, <1>46 DEF Next, StoreStep, RecoverStep, ExecuteStep,
     UserStep

-----------------------------------------------------------------------------
LEMMA StoppedStatus ==
  ASSUME NEW r \in Budgeted, NEW status
  PROVE  Stopped(r, status).status = status
BY DEF Budgeted, Stopped, StepFile

\* Only the record of a step whose output is there makes it completed.
LEMMA OutputStep == JobInv /\ [Next]_vars => OutputWritten' /\ CompletedHasOutput'
<1> SUFFICES ASSUME JobInv, [Next]_vars PROVE OutputWritten' /\ CompletedHasOutput'
  OBVIOUS
<1>c. /\ OutputWritten /\ CompletedHasOutput
      /\ pc \in [Call -> At] /\ step \in [Step -> Budgeted] /\ steps \in [Call -> [Step -> Budgeted]]
  BY DEF JobInv, Control, Files
<1> USE <1>c DEF OutputWritten, CompletedHasOutput
<1>1. ASSUME NEW c \in Call, Acquire(c) PROVE OutputWritten' /\ CompletedHasOutput'
  BY <1>1 DEF Acquire, Goto, Enters, disk
<1>2. ASSUME NEW c \in Call, WriteOwnerLock(c) PROVE OutputWritten' /\ CompletedHasOutput'
  BY <1>2 DEF WriteOwnerLock, Goto, local
<1>3. ASSUME NEW c \in Call, WriteOwnerJob(c) PROVE OutputWritten' /\ CompletedHasOutput'
  BY <1>3 DEF WriteOwnerJob, Goto
<1>4. ASSUME NEW c \in Call, AcquireRefused(c) PROVE OutputWritten' /\ CompletedHasOutput'
  BY <1>4 DEF AcquireRefused, disk, history, Goto
<1>5. ASSUME NEW c \in Call, Release(c) PROVE OutputWritten' /\ CompletedHasOutput'
  BY <1>5 DEF Release, Goto, Enters, disk
<1>6. ASSUME NEW c \in Call, ClearOwner(c) PROVE OutputWritten' /\ CompletedHasOutput'
  BY <1>6 DEF ClearOwner, Goto
<1>7. ASSUME NEW c \in Call, RemoveLock(c) PROVE OutputWritten' /\ CompletedHasOutput'
  BY <1>7 DEF RemoveLock, Goto, Returns, local, history
<1>8. ASSUME NEW c \in Call, ReleaseNothing(c) PROVE OutputWritten' /\ CompletedHasOutput'
  BY <1>8 DEF ReleaseNothing, Goto, Returns, disk, local, history
<1>9. ASSUME NEW c \in Call, LockTimeout(c) PROVE OutputWritten' /\ CompletedHasOutput'
  BY <1>9 DEF LockTimeout, Goto, disk, local, history
<1>10. ASSUME NEW c \in Call, Settle(c) PROVE OutputWritten' /\ CompletedHasOutput'
  BY <1>10 DEF Settle, WriteJob, history
<1>11. ASSUME NEW c \in Call, Inspect(c) PROVE OutputWritten' /\ CompletedHasOutput'
  BY <1>11 DEF Inspect, disk, history, Goto
<1>12. ASSUME NEW c \in Call, MarkStale(c) PROVE OutputWritten' /\ CompletedHasOutput'
  BY <1>12 DEF MarkStale, Goto
<1>13. ASSUME NEW c \in Call, BeginRecovery(c) PROVE OutputWritten' /\ CompletedHasOutput'
  BY <1>13 DEF BeginRecovery, disk, local, history, Goto
<1>14. ASSUME NEW c \in Call, SkillOutdated(c) PROVE OutputWritten' /\ CompletedHasOutput'
  BY <1>14 DEF SkillOutdated, Goto, disk, history
<1>15. ASSUME NEW c \in Call, MarkSkillRecovery(c) PROVE OutputWritten' /\ CompletedHasOutput'
  BY <1>15 DEF MarkSkillRecovery, Goto
<1>16. ASSUME NEW c \in Call, PrepareUncertain(c) PROVE OutputWritten' /\ CompletedHasOutput'
  <2>1. \A s \in Step : Stopped(step[s], "recovery_required").status = "recovery_required"
    BY StoppedStatus
  <2>2. \A t \in Step : step'[t].status = "completed" => step[t].status = "completed"
    BY <1>16, <2>1 DEF PrepareUncertain
  <2>3. \A d \in Call : pc'[d] = "stepDone" => pc[d] = "stepDone" /\ d # c
    BY <1>16 DEF PrepareUncertain, Prepare, Goto
  <2>4. UNCHANGED <<steps, output>>
    BY <1>16 DEF PrepareUncertain, local
  <2> QED
    BY <2>2, <2>3, <2>4
<1>17. ASSUME NEW c \in Call, PrepareRequeue(c) PROVE OutputWritten' /\ CompletedHasOutput'
  <2>1. \A s \in Step : Stopped(step[s], "queued").status = "queued"
    BY StoppedStatus
  <2>2. \A t \in Step : step'[t].status = "completed" => step[t].status = "completed"
    BY <1>17, <2>1 DEF PrepareRequeue
  <2>3. \A d \in Call : pc'[d] = "stepDone" => pc[d] = "stepDone" /\ d # c
    BY <1>17 DEF PrepareRequeue, Prepare, Goto
  <2>4. UNCHANGED <<steps, output>>
    BY <1>17 DEF PrepareRequeue, local
  <2> QED
    BY <2>2, <2>3, <2>4
<1>18. ASSUME NEW c \in Call, PrepareNothing(c) PROVE OutputWritten' /\ CompletedHasOutput'
  BY <1>18 DEF PrepareNothing, disk, local, history, Goto
<1>19. ASSUME NEW c \in Call, Begin(c) PROVE OutputWritten' /\ CompletedHasOutput'
  BY <1>19 DEF Begin, disk, history, Goto
<1>20. ASSUME NEW c \in Call, Load(c) PROVE OutputWritten' /\ CompletedHasOutput'
  BY <1>20 DEF Load, disk, history, Goto
<1>21. ASSUME NEW c \in Call, TakeJob(c) PROVE OutputWritten' /\ CompletedHasOutput'
  BY <1>21 DEF TakeJob, WriteJob, history
<1>22. ASSUME NEW c \in Call, Granted(c) PROVE OutputWritten' /\ CompletedHasOutput'
  BY <1>22 DEF Granted, disk, local, history, Goto
<1>23. ASSUME NEW c \in Call, WaitEnds(c) PROVE OutputWritten' /\ CompletedHasOutput'
  <2>1. \A s \in Step, status \in StepStatus : Stopped(steps[c][s], status).status = status
    BY StoppedStatus
  <2>2. /\ \A t \in Step : step'[t].status = "completed" => step[t].status = "completed"
        /\ \A d \in Call : pc'[d] = "stepDone" => pc[d] = "stepDone" /\ d # c
    BY <1>23, <2>1 DEF WaitEnds, StepThenJob, StepStatus, Terminal
  <2>3. UNCHANGED <<steps, output>>
    BY <1>23 DEF WaitEnds
  <2> QED
    BY <2>2, <2>3
<1>24. ASSUME NEW c \in Call, WaitCancelled(c) PROVE OutputWritten' /\ CompletedHasOutput'
  BY <1>24 DEF WaitCancelled, disk, history, Goto
<1>25. ASSUME NEW c \in Call, Throw(c) PROVE OutputWritten' /\ CompletedHasOutput'
  BY <1>25 DEF Throw, disk, local, history, Goto
<1>26. ASSUME NEW c \in Call, HeartbeatRead(c) PROVE OutputWritten' /\ CompletedHasOutput'
  BY <1>26 DEF HeartbeatRead, disk, history
<1>27. ASSUME NEW c \in Call, HeartbeatWrite(c) PROVE OutputWritten' /\ CompletedHasOutput'
  BY <1>27 DEF HeartbeatWrite, history
<1>28. ASSUME NEW c \in Call, Complete(c) PROVE OutputWritten' /\ CompletedHasOutput'
  BY <1>28 DEF Complete, disk, history, Goto
<1>29. ASSUME NEW c \in Call, StopBefore(c) PROVE OutputWritten' /\ CompletedHasOutput'
  <2>1. \A s \in Step, status \in StepStatus : Stopped(steps[c][s], status).status = status
    BY StoppedStatus
  <2>2. /\ \A t \in Step : step'[t].status = "completed" => step[t].status = "completed"
        /\ \A d \in Call : pc'[d] = "stepDone" => pc[d] = "stepDone" /\ d # c
    BY <1>29, <2>1 DEF StopBefore, StepThenJob, StepStatus, Terminal
  <2>3. UNCHANGED <<steps, output>>
    BY <1>29 DEF StopBefore
  <2> QED
    BY <2>2, <2>3
<1>30. ASSUME NEW c \in Call, MarkStep(c) PROVE OutputWritten' /\ CompletedHasOutput'
  BY <1>30 DEF MarkStep, StepThenJob, Running, history
<1>31. ASSUME NEW c \in Call, StartStep(c) PROVE OutputWritten' /\ CompletedHasOutput'
  BY <1>31 DEF StartStep, WriteJob
<1>32. ASSUME NEW c \in Call, HandlerReturns(c) PROVE OutputWritten' /\ CompletedHasOutput'
  BY <1>32 DEF HandlerReturns, disk, local, history, Goto
<1>33. ASSUME NEW c \in Call, HandlerThrows(c) PROVE OutputWritten' /\ CompletedHasOutput'
  BY <1>33 DEF HandlerThrows, disk, local, history, Goto
<1>34. ASSUME NEW c \in Call, WriteOutput(c) PROVE OutputWritten' /\ CompletedHasOutput'
  BY <1>34 DEF WriteOutput, local, history, Goto
<1>35. ASSUME NEW c \in Call, CompleteStep(c) PROVE OutputWritten' /\ CompletedHasOutput'
  BY <1>35 DEF CompleteStep, Stopped, local, history, Goto
<1>36. ASSUME NEW c \in Call, RecordStep(c) PROVE OutputWritten' /\ CompletedHasOutput'
  BY <1>36 DEF RecordStep, WriteJob, Stopped, history
<1>37. ASSUME NEW c \in Call, Reload(c) PROVE OutputWritten' /\ CompletedHasOutput'
  BY <1>37 DEF Reload, disk, history, Goto
<1>38. ASSUME NEW c \in Call, FailStep(c) PROVE OutputWritten' /\ CompletedHasOutput'
  <2> DEFINE s == First(steps[c])
  <2>1. PICK status \in {"cancelled", "failed", "blocked", "recovery_required"} :
          \E j : StepThenJob(c, s, Stopped(steps[c][s], status), j, "settle")
    BY <1>38 DEF FailStep
  <2>2. s \in Step => Stopped(steps[c][s], status).status = status
    BY StoppedStatus
  <2>3. /\ \A t \in Step : step'[t].status = "completed" => step[t].status = "completed"
        /\ \A d \in Call : pc'[d] = "stepDone" => pc[d] = "stepDone" /\ d # c
    <3> HIDE DEF s
    <3>q. QED
      BY <2>1, <2>2 DEF StepThenJob
  <2>4. pc[c] = "failed" /\ UNCHANGED <<steps, output>>
    BY <1>38 DEF FailStep
  <2> QED
    BY <2>3, <2>4
<1>39. ASSUME NEW c \in Call, Conclude(c) PROVE OutputWritten' /\ CompletedHasOutput'
  BY <1>39 DEF Conclude, local, Goto
<1>40. ASSUME NEW c \in Call, RetryThrows(c) PROVE OutputWritten' /\ CompletedHasOutput'
  BY <1>40 DEF RetryThrows, disk, local, history, Goto
<1>41. ASSUME NEW c \in Call, Retry(c) PROVE OutputWritten' /\ CompletedHasOutput'
  <2>1. \A s \in Step : /\ Stopped(step[s], "queued").status = "queued"
                       /\ [step[s] EXCEPT !.status = "blocked"].status = "blocked"
    BY StoppedStatus DEF Budgeted, StepFile
  <2>2. PICK s, r, j :
          /\ s \in Step
          /\ r = Stopped(step[s], "queued") \/ r = [step[s] EXCEPT !.status = "blocked"]
          /\ StepThenJob(c, s, r, j, "settle")
    BY <1>41, JobAssumption DEF Retry
  <2>3. r.status # "completed"
    BY <2>1, <2>2
  <2>4. /\ \A t \in Step : step'[t].status = "completed" => step[t].status = "completed"
        /\ \A d \in Call : pc'[d] = "stepDone" => pc[d] = "stepDone" /\ d # c
    BY <2>2, <2>3 DEF StepThenJob
  <2>5. UNCHANGED <<steps, output>>
    BY <1>41 DEF Retry
  <2> QED
    BY <2>4, <2>5
<1>42. ASSUME NEW c \in Call, BeginCancel(c) PROVE OutputWritten' /\ CompletedHasOutput'
  <2>1. PICK to \in {"done", "cancelStep", "cancelJob"} : pc' = [pc EXCEPT ![c] = to]
    BY <1>42 DEF BeginCancel, Goto
  <2>2. steps' = [steps EXCEPT ![c] = step]
    BY <1>42 DEF BeginCancel
  <2> QED
    BY <1>42, <2>1, <2>2 DEF BeginCancel, disk
<1>43. ASSUME NEW c \in Call, CancelStep(c) PROVE OutputWritten' /\ CompletedHasOutput'
  <2>1. \A s \in Step : Stopped(steps[c][s], "cancelled").status = "cancelled"
    BY StoppedStatus
  <2>2. \A t \in Step : step'[t].status = "completed" => step[t].status = "completed"
    BY <1>43, <2>1 DEF CancelStep
  <2>3. \A d \in Call : pc'[d] = "stepDone" => pc[d] = "stepDone" /\ d # c
    BY <1>43 DEF CancelStep, Prepare, Goto
  <2>4. UNCHANGED <<steps, output>>
    BY <1>43 DEF CancelStep, local
  <2> QED
    BY <2>2, <2>3, <2>4
<1>44. ASSUME NEW c \in Call, CancelJob(c) PROVE OutputWritten' /\ CompletedHasOutput'
  BY <1>44 DEF CancelJob, local, Goto
<1>45. ASSUME NEW p \in Proc, Crash(p) PROVE OutputWritten' /\ CompletedHasOutput'
  BY <1>45 DEF Crash, disk, local, history
<1>46. CASE UNCHANGED vars
  BY <1>46 DEF vars, disk, Stopped, Running, disk, local, history, Goto
<1> QED
  BY <1>1, <1>2, <1>3, <1>4, <1>5, <1>6, <1>7, <1>8, <1>9, <1>10, <1>11, <1>12, <1>13, <1>14,
     <1>15, <1>16, <1>17, <1>18, <1>19, <1>20, <1>21, <1>22, <1>23, <1>24, <1>25, <1>26, <1>27,
     <1>28, <1>29, <1>30, <1>31, <1>32, <1>33, <1>34, <1>35, <1>36, <1>37, <1>38, <1>39, <1>40,
     <1>41, <1>42, <1>43, <1>44, <1>45, <1>46 DEF Next, StoreStep, RecoverStep, ExecuteStep,
     UserStep

-----------------------------------------------------------------------------
\* A call has the lock from its write to its removal.
LEMMA LockStep == JobInv /\ [Next]_vars => LockInHand'
<1> SUFFICES ASSUME JobInv, [Next]_vars PROVE LockInHand'
  OBVIOUS
<1>c. /\ LockInHand /\ pc \in [Call -> At] /\ fence \in [Call -> Nat]
  BY DEF JobInv, Control
<1> USE <1>c, JobAssumption DEF LockInHand, Inside, Live
<1>1. ASSUME NEW c \in Call, Acquire(c) PROVE LockInHand'
  BY <1>1 DEF Acquire, Goto, Enters, disk
<1>2. ASSUME NEW c \in Call, WriteOwnerLock(c) PROVE LockInHand'
  BY <1>2 DEF WriteOwnerLock, Goto, local
<1>3. ASSUME NEW c \in Call, WriteOwnerJob(c) PROVE LockInHand'
  BY <1>3 DEF WriteOwnerJob, Goto
<1>4. ASSUME NEW c \in Call, AcquireRefused(c) PROVE LockInHand'
  BY <1>4 DEF AcquireRefused, disk, history, Goto
<1>5. ASSUME NEW c \in Call, Release(c) PROVE LockInHand'
  BY <1>5 DEF Release, Goto, Enters, disk
<1>6. ASSUME NEW c \in Call, ClearOwner(c) PROVE LockInHand'
  BY <1>6 DEF ClearOwner, Goto
<1>7. ASSUME NEW c \in Call, RemoveLock(c) PROVE LockInHand'
  BY <1>7 DEF RemoveLock, Goto, Returns, local, history
<1>8. ASSUME NEW c \in Call, ReleaseNothing(c) PROVE LockInHand'
  BY <1>8 DEF ReleaseNothing, HasLock, Goto, Returns, disk, local, history
<1>9. ASSUME NEW c \in Call, LockTimeout(c) PROVE LockInHand'
  BY <1>9 DEF LockTimeout, Goto, disk, local, history
<1>10. ASSUME NEW c \in Call, Settle(c) PROVE LockInHand'
  BY <1>10 DEF Settle, WriteJob, history
<1>11. ASSUME NEW c \in Call, Inspect(c) PROVE LockInHand'
  BY <1>11 DEF Inspect, disk, history, Goto
<1>12. ASSUME NEW c \in Call, MarkStale(c) PROVE LockInHand'
  BY <1>12 DEF MarkStale, Goto
<1>13. ASSUME NEW c \in Call, BeginRecovery(c) PROVE LockInHand'
  BY <1>13 DEF BeginRecovery, disk, local, history, Goto
<1>14. ASSUME NEW c \in Call, SkillOutdated(c) PROVE LockInHand'
  BY <1>14 DEF SkillOutdated, Goto, disk, history
<1>15. ASSUME NEW c \in Call, MarkSkillRecovery(c) PROVE LockInHand'
  BY <1>15 DEF MarkSkillRecovery, Goto
<1>16. ASSUME NEW c \in Call, PrepareUncertain(c) PROVE LockInHand'
  BY <1>16 DEF PrepareUncertain, Prepare, history
<1>17. ASSUME NEW c \in Call, PrepareRequeue(c) PROVE LockInHand'
  BY <1>17 DEF PrepareRequeue, Prepare, history
<1>18. ASSUME NEW c \in Call, PrepareNothing(c) PROVE LockInHand'
  BY <1>18 DEF PrepareNothing, disk, local, history, Goto
<1>19. ASSUME NEW c \in Call, Begin(c) PROVE LockInHand'
  BY <1>19 DEF Begin, disk, history, Goto
<1>20. ASSUME NEW c \in Call, Load(c) PROVE LockInHand'
  BY <1>20 DEF Load, disk, history, Goto
<1>21. ASSUME NEW c \in Call, TakeJob(c) PROVE LockInHand'
  BY <1>21 DEF TakeJob, WriteJob, history
<1>22. ASSUME NEW c \in Call, Granted(c) PROVE LockInHand'
  BY <1>22 DEF Granted, disk, local, history, Goto
<1>23. ASSUME NEW c \in Call, WaitEnds(c) PROVE LockInHand'
  BY <1>23 DEF WaitEnds, StepThenJob, history
<1>24. ASSUME NEW c \in Call, WaitCancelled(c) PROVE LockInHand'
  BY <1>24 DEF WaitCancelled, disk, history, Goto
<1>25. ASSUME NEW c \in Call, Throw(c) PROVE LockInHand'
  BY <1>25 DEF Throw, disk, local, history, Goto
<1>26. ASSUME NEW c \in Call, HeartbeatRead(c) PROVE LockInHand'
  BY <1>26 DEF HeartbeatRead, disk, history
<1>27. ASSUME NEW c \in Call, HeartbeatWrite(c) PROVE LockInHand'
  BY <1>27 DEF HeartbeatWrite, history
<1>28. ASSUME NEW c \in Call, Complete(c) PROVE LockInHand'
  BY <1>28 DEF Complete, disk, history, Goto
<1>29. ASSUME NEW c \in Call, StopBefore(c) PROVE LockInHand'
  BY <1>29 DEF StopBefore, StepThenJob, history
<1>30. ASSUME NEW c \in Call, MarkStep(c) PROVE LockInHand'
  BY <1>30 DEF MarkStep, StepThenJob, history
<1>31. ASSUME NEW c \in Call, StartStep(c) PROVE LockInHand'
  BY <1>31 DEF StartStep, WriteJob
<1>32. ASSUME NEW c \in Call, HandlerReturns(c) PROVE LockInHand'
  BY <1>32 DEF HandlerReturns, disk, local, history, Goto
<1>33. ASSUME NEW c \in Call, HandlerThrows(c) PROVE LockInHand'
  BY <1>33 DEF HandlerThrows, disk, local, history, Goto
<1>34. ASSUME NEW c \in Call, WriteOutput(c) PROVE LockInHand'
  BY <1>34 DEF WriteOutput, local, history, Goto
<1>35. ASSUME NEW c \in Call, CompleteStep(c) PROVE LockInHand'
  BY <1>35 DEF CompleteStep, local, history, Goto
<1>36. ASSUME NEW c \in Call, RecordStep(c) PROVE LockInHand'
  BY <1>36 DEF RecordStep, WriteJob, history
<1>37. ASSUME NEW c \in Call, Reload(c) PROVE LockInHand'
  BY <1>37 DEF Reload, disk, history, Goto
<1>38. ASSUME NEW c \in Call, FailStep(c) PROVE LockInHand'
  BY <1>38 DEF FailStep, StepThenJob, history
<1>39. ASSUME NEW c \in Call, Conclude(c) PROVE LockInHand'
  BY <1>39 DEF Conclude, local, Goto
<1>40. ASSUME NEW c \in Call, RetryThrows(c) PROVE LockInHand'
  BY <1>40 DEF RetryThrows, disk, local, history, Goto
<1>41. ASSUME NEW c \in Call, Retry(c) PROVE LockInHand'
  BY <1>41 DEF Retry, StepThenJob, history
<1>42. ASSUME NEW c \in Call, BeginCancel(c) PROVE LockInHand'
  BY <1>42 DEF BeginCancel, disk, history, Goto
<1>43. ASSUME NEW c \in Call, CancelStep(c) PROVE LockInHand'
  BY <1>43 DEF CancelStep, local, Goto
<1>44. ASSUME NEW c \in Call, CancelJob(c) PROVE LockInHand'
  BY <1>44 DEF CancelJob, local, Goto
<1>45. ASSUME NEW p \in Proc, Crash(p) PROVE LockInHand'
  BY <1>45 DEF Crash, disk, local, history
<1>46. CASE UNCHANGED vars
  BY <1>46 DEF vars, disk, local, history, Goto
<1> QED
  BY <1>1, <1>2, <1>3, <1>4, <1>5, <1>6, <1>7, <1>8, <1>9, <1>10, <1>11, <1>12, <1>13, <1>14,
     <1>15, <1>16, <1>17, <1>18, <1>19, <1>20, <1>21, <1>22, <1>23, <1>24, <1>25, <1>26, <1>27,
     <1>28, <1>29, <1>30, <1>31, <1>32, <1>33, <1>34, <1>35, <1>36, <1>37, <1>38, <1>39, <1>40,
     <1>41, <1>42, <1>43, <1>44, <1>45, <1>46 DEF Next, StoreStep, RecoverStep, ExecuteStep,
     UserStep

-----------------------------------------------------------------------------
CallStep(c) == StoreStep(c) \/ RecoverStep(c) \/ ExecuteStep(c) \/ UserStep(c)

\* A step of a call leaves the local variables of the others alone.
Frame(c) ==
  /\ (clobbered => clobbered') /\ (undone => undone')
  /\ (undone => clobbered) => (undone' => clobbered')
  /\ \A d \in Call \ {c} : /\ pc'[d] = pc[d] /\ held'[d] = held[d]
                           /\ mine'[d] = mine[d] /\ fence'[d] = fence[d]
                           /\ steps'[d] = steps[d]

LEMMA FrameStep == ASSUME JobInv, NEW c \in Call, CallStep(c) PROVE Frame(c)
<1>c. /\ pc \in [Call -> At] /\ fence \in [Call -> Nat]
      /\ held \in [Call -> Job \cup {NoCopy}] /\ mine \in [Call -> Job]
      /\ steps \in [Call -> [Step -> Budgeted]] /\ CopyInHand
  BY DEF JobInv, Control, Records, Files
<1> USE <1>c DEF Frame
<1>1. ASSUME Acquire(c) PROVE Frame(c)
  BY <1>1 DEF Acquire, Goto, Enters, disk
<1>2. ASSUME WriteOwnerLock(c) PROVE Frame(c)
  BY <1>2 DEF WriteOwnerLock, Goto, local
<1>3. ASSUME WriteOwnerJob(c) PROVE Frame(c)
  BY <1>3 DEF WriteOwnerJob, Goto
<1>4. ASSUME AcquireRefused(c) PROVE Frame(c)
  BY <1>4 DEF AcquireRefused, disk, history, Goto
<1>5. ASSUME Release(c) PROVE Frame(c)
  BY <1>5 DEF Release, Goto, Enters, disk
<1>6. ASSUME ClearOwner(c) PROVE Frame(c)
  BY <1>6 DEF ClearOwner, Goto
<1>7. ASSUME RemoveLock(c) PROVE Frame(c)
  BY <1>7 DEF RemoveLock, Goto, Returns, local, history
<1>8. ASSUME ReleaseNothing(c) PROVE Frame(c)
  BY <1>8 DEF ReleaseNothing, Goto, Returns, disk, local, history
<1>9. ASSUME LockTimeout(c) PROVE Frame(c)
  BY <1>9 DEF LockTimeout, Goto, disk, local, history
<1>10. ASSUME Settle(c) PROVE Frame(c)
  BY <1>10 DEF Settle, WriteJob, history
<1>11. ASSUME Inspect(c) PROVE Frame(c)
  BY <1>11 DEF Inspect, disk, history, Goto
<1>12. ASSUME MarkStale(c) PROVE Frame(c)
  BY <1>12 DEF MarkStale, Overwrites, Goto
<1>13. ASSUME BeginRecovery(c) PROVE Frame(c)
  BY <1>13 DEF BeginRecovery, disk, local, history, Goto
<1>14. ASSUME SkillOutdated(c) PROVE Frame(c)
  BY <1>14 DEF SkillOutdated, Goto, disk, history
<1>15. ASSUME MarkSkillRecovery(c) PROVE Frame(c)
  BY <1>15 DEF MarkSkillRecovery, Goto, CopyInHand, Copying, Job
<1>16. ASSUME PrepareUncertain(c) PROVE Frame(c)
  BY <1>16 DEF PrepareUncertain, Prepare, history
<1>17. ASSUME PrepareRequeue(c) PROVE Frame(c)
  BY <1>17 DEF PrepareRequeue, Prepare, history
<1>18. ASSUME PrepareNothing(c) PROVE Frame(c)
  BY <1>18 DEF PrepareNothing, disk, local, history, Goto
<1>19. ASSUME Begin(c) PROVE Frame(c)
  BY <1>19 DEF Begin, disk, history, Goto
<1>20. ASSUME Load(c) PROVE Frame(c)
  BY <1>20 DEF Load, disk, history, Goto
<1>21. ASSUME TakeJob(c) PROVE Frame(c)
  BY <1>21 DEF TakeJob, WriteJob, history
<1>22. ASSUME Granted(c) PROVE Frame(c)
  BY <1>22 DEF Granted, disk, local, history, Goto
<1>23. ASSUME WaitEnds(c) PROVE Frame(c)
  BY <1>23 DEF WaitEnds, StepThenJob, history
<1>24. ASSUME WaitCancelled(c) PROVE Frame(c)
  BY <1>24 DEF WaitCancelled, disk, history, Goto
<1>25. ASSUME Throw(c) PROVE Frame(c)
  BY <1>25 DEF Throw, disk, local, history, Goto
<1>26. ASSUME HeartbeatRead(c) PROVE Frame(c)
  BY <1>26 DEF HeartbeatRead, disk, history
<1>27. ASSUME HeartbeatWrite(c) PROVE Frame(c)
  BY <1>27 DEF HeartbeatWrite, history
<1>28. ASSUME Complete(c) PROVE Frame(c)
  BY <1>28 DEF Complete, disk, history, Goto
<1>29. ASSUME StopBefore(c) PROVE Frame(c)
  BY <1>29 DEF StopBefore, StepThenJob, history
<1>30. ASSUME MarkStep(c) PROVE Frame(c)
  BY <1>30 DEF MarkStep, StepThenJob, history
<1>31. ASSUME StartStep(c) PROVE Frame(c)
  BY <1>31 DEF StartStep, WriteJob
<1>32. ASSUME HandlerReturns(c) PROVE Frame(c)
  BY <1>32 DEF HandlerReturns, disk, local, history, Goto
<1>33. ASSUME HandlerThrows(c) PROVE Frame(c)
  BY <1>33 DEF HandlerThrows, disk, local, history, Goto
<1>34. ASSUME WriteOutput(c) PROVE Frame(c)
  BY <1>34 DEF WriteOutput, local, history, Goto
<1>35. ASSUME CompleteStep(c) PROVE Frame(c)
  BY <1>35 DEF CompleteStep, local, history, Goto
<1>36. ASSUME RecordStep(c) PROVE Frame(c)
  BY <1>36 DEF RecordStep, WriteJob, history
<1>37. ASSUME Reload(c) PROVE Frame(c)
  BY <1>37 DEF Reload, disk, history, Goto
<1>38. ASSUME FailStep(c) PROVE Frame(c)
  BY <1>38 DEF FailStep, StepThenJob, history
<1>39. ASSUME Conclude(c) PROVE Frame(c)
  BY <1>39 DEF Conclude, Overwrites, local, Goto
<1>40. ASSUME RetryThrows(c) PROVE Frame(c)
  BY <1>40 DEF RetryThrows, disk, local, history, Goto
<1>41. ASSUME Retry(c) PROVE Frame(c)
  BY <1>41 DEF Retry, StepThenJob, history
<1>42. ASSUME BeginCancel(c) PROVE Frame(c)
  BY <1>42 DEF BeginCancel, disk, history, Goto
<1>43. ASSUME CancelStep(c) PROVE Frame(c)
  BY <1>43 DEF CancelStep, local, Goto
<1>44. ASSUME CancelJob(c) PROVE Frame(c)
  BY <1>44 DEF CancelJob, Overwrites, local, Goto
<1> QED
  BY <1>1, <1>2, <1>3, <1>4, <1>5, <1>6, <1>7, <1>8, <1>9, <1>10, <1>11, <1>12, <1>13, <1>14,
     <1>15, <1>16, <1>17, <1>18, <1>19, <1>20, <1>21, <1>22, <1>23, <1>24, <1>25, <1>26, <1>27,
     <1>28, <1>29, <1>30, <1>31, <1>32, <1>33, <1>34, <1>35, <1>36, <1>37, <1>38, <1>39, <1>40,
     <1>41, <1>42, <1>43, <1>44 DEF CallStep, StoreStep, RecoverStep, ExecuteStep, UserStep

-----------------------------------------------------------------------------
\* A call that stays outside owner.fence.lock and has no record to write back.
Outer(c) == pc[c] \notin InFence \cup Copying

LEMMA OutsideFence ==
  ASSUME JobInv, NEW c \in Call, Frame(c), Outer(c), Outer(c)',
         UNCHANGED <<up, lockOwner, overlap>>
  PROVE  CopyInHand' /\ FenceInHand'
BY DEF JobInv, CopyInHand, FenceInHand, Frame, Outer, Live, InFence

\* One call at a time is inside owner.fence.lock, or the overlap is remembered.
LEMMA FenceStep ==
  ASSUME JobInv, NEW c \in Call, CallStep(c) PROVE CopyInHand' /\ FenceInHand'
<1>f. Frame(c)
  BY FrameStep
<1>c. /\ pc \in [Call -> At] /\ held \in [Call -> Job \cup {NoCopy}] /\ job \in Job
      /\ CopyInHand /\ FenceInHand
  BY DEF JobInv, Control, Records
<1>l. overlap \/ \A d \in Call : Live(d) /\ pc[d] \in InFence /\ Live(c) /\ pc[c] \in InFence
                                 => d = c
  BY <1>c DEF FenceInHand
<1>1. ASSUME Acquire(c) PROVE CopyInHand' /\ FenceInHand'
  <2>1. \A d \in Call \ {c} : ~overlap' /\ Live(d) => pc[d] \notin InFence
    BY <1>1 DEF Acquire, Enters
  <2>2. ~Takeover(c) => lockOwner = NoCall
    BY <1>1 DEF Acquire, Grants
  <2> QED
    BY <1>1, <1>c, <1>f, <2>1, <2>2 DEF Acquire, Goto, Enters, disk, CopyInHand, FenceInHand,
       Copying, InFence, Live, Frame
<1>2. ASSUME WriteOwnerLock(c) PROVE CopyInHand' /\ FenceInHand'
  BY <1>2, <1>c, <1>f, <1>l DEF WriteOwnerLock, Goto, local, CopyInHand, FenceInHand, Copying,
     InFence, Live, Frame
<1>3. ASSUME WriteOwnerJob(c) PROVE CopyInHand' /\ FenceInHand'
  <2>1. pc'[c] \notin InFence \cup Copying /\ pc[c] = "ownerJob"
    BY <1>3, <1>c DEF WriteOwnerJob, Goto, InFence, Copying
  <2> QED
    BY <1>3, <1>c, <1>f, <1>l, <2>1 DEF WriteOwnerJob, CopyInHand, FenceInHand, Copying,
       InFence, Live, Frame
<1>4. ASSUME AcquireRefused(c) PROVE CopyInHand' /\ FenceInHand'
  BY <1>4, <1>c, <1>f, OutsideFence DEF AcquireRefused, disk, history, Goto, Outer, InFence,
     Copying
<1>5. ASSUME Release(c) PROVE CopyInHand' /\ FenceInHand'
  <2>1. \A d \in Call \ {c} : ~overlap' /\ Live(d) => pc[d] \notin InFence
    BY <1>5 DEF Release, Enters
  <2> QED
    BY <1>5, <1>c, <1>f, <2>1 DEF Release, HasLock, Goto, Enters, disk, CopyInHand, FenceInHand,
       Copying, InFence, Live, Frame
<1>6. ASSUME ClearOwner(c) PROVE CopyInHand' /\ FenceInHand'
  BY <1>6, <1>c, <1>f, <1>l DEF ClearOwner, Goto, CopyInHand, FenceInHand, Copying, InFence,
     Live, Frame
<1>7. ASSUME RemoveLock(c) PROVE CopyInHand' /\ FenceInHand'
  <2>1. /\ pc'[c] \notin InFence \cup Copying /\ Live(c) /\ pc[c] \in InFence
        /\ up' = up /\ overlap' = overlap /\ held' = held /\ lockOwner' = NoCall
    BY <1>7, <1>c DEF RemoveLock, Returns, Goto, InFence, Copying, local, history
  <2>2. overlap \/ \A d \in Call \ {c} : Live(d) => pc[d] \notin InFence
    BY <1>l, <2>1
  <2>3. CopyInHand'
    BY <1>c, <1>f, <2>1 DEF CopyInHand, Frame
  <2>4. \A d \in Call \ {c} : pc'[d] = pc[d] /\ (Live(d)' <=> Live(d))
    BY <1>f, <2>1 DEF Frame, Live
  <2>5. FenceInHand'
    BY <2>1, <2>2, <2>4 DEF FenceInHand, InFence
  <2> QED
    BY <2>3, <2>5
<1>8. ASSUME ReleaseNothing(c) PROVE CopyInHand' /\ FenceInHand'
  BY <1>8, <1>c, <1>f, OutsideFence DEF ReleaseNothing, Goto, Returns, disk, local, history,
     Outer, InFence, Copying
<1>9. ASSUME LockTimeout(c) PROVE CopyInHand' /\ FenceInHand'
  BY <1>9, <1>c, <1>f, OutsideFence DEF LockTimeout, Goto, disk, local, history, Outer, InFence,
     Copying
<1>10. ASSUME Settle(c) PROVE CopyInHand' /\ FenceInHand'
  BY <1>10, <1>c, <1>f, OutsideFence DEF Settle, WriteJob, history, Outer, InFence, Copying
<1>11. ASSUME Inspect(c) PROVE CopyInHand' /\ FenceInHand'
  BY <1>11, <1>c, <1>f, OutsideFence DEF Inspect, disk, history, Goto, Outer, InFence, Copying
<1>12. ASSUME MarkStale(c) PROVE CopyInHand' /\ FenceInHand'
  BY <1>12, <1>c, <1>f, OutsideFence DEF MarkStale, Overwrites, Goto, Outer, InFence, Copying
<1>13. ASSUME BeginRecovery(c) PROVE CopyInHand' /\ FenceInHand'
  BY <1>13, <1>c, <1>f, OutsideFence DEF BeginRecovery, disk, local, history, Goto, Outer,
     InFence, Copying
<1>14. ASSUME SkillOutdated(c) PROVE CopyInHand' /\ FenceInHand'
  BY <1>14, <1>c, <1>f DEF SkillOutdated, Goto, disk, history, CopyInHand, FenceInHand, Copying,
     InFence, Live, Frame
<1>15. ASSUME MarkSkillRecovery(c) PROVE CopyInHand' /\ FenceInHand'
  BY <1>15, <1>c, <1>f DEF MarkSkillRecovery, Goto, CopyInHand, FenceInHand, Copying, InFence,
     Live, Frame
<1>16. ASSUME PrepareUncertain(c) PROVE CopyInHand' /\ FenceInHand'
  BY <1>16, <1>c, <1>f, OutsideFence DEF PrepareUncertain, Prepare, history, Outer, InFence,
     Copying
<1>17. ASSUME PrepareRequeue(c) PROVE CopyInHand' /\ FenceInHand'
  BY <1>17, <1>c, <1>f, OutsideFence DEF PrepareRequeue, Prepare, history, Outer, InFence,
     Copying
<1>18. ASSUME PrepareNothing(c) PROVE CopyInHand' /\ FenceInHand'
  BY <1>18, <1>c, <1>f, OutsideFence DEF PrepareNothing, disk, local, history, Goto, Outer,
     InFence, Copying
<1>19. ASSUME Begin(c) PROVE CopyInHand' /\ FenceInHand'
  BY <1>19, <1>c, <1>f, OutsideFence DEF Begin, disk, history, Goto, Outer, InFence, Copying
<1>20. ASSUME Load(c) PROVE CopyInHand' /\ FenceInHand'
  BY <1>20, <1>c, <1>f, OutsideFence DEF Load, disk, history, Goto, Outer, InFence, Copying
<1>21. ASSUME TakeJob(c) PROVE CopyInHand' /\ FenceInHand'
  BY <1>21, <1>c, <1>f, OutsideFence DEF TakeJob, WriteJob, history, Outer, InFence, Copying
<1>22. ASSUME Granted(c) PROVE CopyInHand' /\ FenceInHand'
  BY <1>22, <1>c, <1>f, OutsideFence DEF Granted, disk, local, history, Goto, Outer, InFence,
     Copying
<1>23. ASSUME WaitEnds(c) PROVE CopyInHand' /\ FenceInHand'
  BY <1>23, <1>c, <1>f, OutsideFence DEF WaitEnds, StepThenJob, history, Outer, InFence, Copying
<1>24. ASSUME WaitCancelled(c) PROVE CopyInHand' /\ FenceInHand'
  BY <1>24, <1>c, <1>f, OutsideFence DEF WaitCancelled, disk, history, Goto, Outer, InFence,
     Copying
<1>25. ASSUME Throw(c) PROVE CopyInHand' /\ FenceInHand'
  BY <1>25, <1>c, <1>f, OutsideFence DEF Throw, disk, local, history, Goto, Outer, InFence,
     Copying
<1>26. ASSUME HeartbeatRead(c) PROVE CopyInHand' /\ FenceInHand'
  BY <1>26, <1>c, <1>f, OutsideFence DEF HeartbeatRead, disk, history, Outer, InFence, Copying
<1>27. ASSUME HeartbeatWrite(c) PROVE CopyInHand' /\ FenceInHand'
  BY <1>27, <1>c, <1>f, OutsideFence DEF HeartbeatWrite, history, Outer, InFence, Copying
<1>28. ASSUME Complete(c) PROVE CopyInHand' /\ FenceInHand'
  BY <1>28, <1>c, <1>f, OutsideFence DEF Complete, disk, history, Goto, Outer, InFence, Copying
<1>29. ASSUME StopBefore(c) PROVE CopyInHand' /\ FenceInHand'
  BY <1>29, <1>c, <1>f, OutsideFence DEF StopBefore, StepThenJob, history, Outer, InFence,
     Copying
<1>30. ASSUME MarkStep(c) PROVE CopyInHand' /\ FenceInHand'
  BY <1>30, <1>c, <1>f, OutsideFence DEF MarkStep, StepThenJob, history, Outer, InFence, Copying
<1>31. ASSUME StartStep(c) PROVE CopyInHand' /\ FenceInHand'
  BY <1>31, <1>c, <1>f, OutsideFence DEF StartStep, WriteJob, Outer, InFence, Copying
<1>32. ASSUME HandlerReturns(c) PROVE CopyInHand' /\ FenceInHand'
  BY <1>32, <1>c, <1>f, OutsideFence DEF HandlerReturns, disk, local, history, Goto, Outer,
     InFence, Copying
<1>33. ASSUME HandlerThrows(c) PROVE CopyInHand' /\ FenceInHand'
  BY <1>33, <1>c, <1>f, OutsideFence DEF HandlerThrows, disk, local, history, Goto, Outer,
     InFence, Copying
<1>34. ASSUME WriteOutput(c) PROVE CopyInHand' /\ FenceInHand'
  BY <1>34, <1>c, <1>f, OutsideFence DEF WriteOutput, local, history, Goto, Outer, InFence,
     Copying
<1>35. ASSUME CompleteStep(c) PROVE CopyInHand' /\ FenceInHand'
  BY <1>35, <1>c, <1>f, OutsideFence DEF CompleteStep, local, history, Goto, Outer, InFence,
     Copying
<1>36. ASSUME RecordStep(c) PROVE CopyInHand' /\ FenceInHand'
  BY <1>36, <1>c, <1>f, OutsideFence DEF RecordStep, WriteJob, history, Outer, InFence, Copying
<1>37. ASSUME Reload(c) PROVE CopyInHand' /\ FenceInHand'
  BY <1>37, <1>c, <1>f, OutsideFence DEF Reload, disk, history, Goto, Outer, InFence, Copying
<1>38. ASSUME FailStep(c) PROVE CopyInHand' /\ FenceInHand'
  BY <1>38, <1>c, <1>f, OutsideFence DEF FailStep, StepThenJob, history, Outer, InFence, Copying
<1>39. ASSUME Conclude(c) PROVE CopyInHand' /\ FenceInHand'
  BY <1>39, <1>c, <1>f, OutsideFence DEF Conclude, Overwrites, local, Goto, Outer, InFence,
     Copying
<1>40. ASSUME RetryThrows(c) PROVE CopyInHand' /\ FenceInHand'
  BY <1>40, <1>c, <1>f, OutsideFence DEF RetryThrows, disk, local, history, Goto, Outer,
     InFence, Copying
<1>41. ASSUME Retry(c) PROVE CopyInHand' /\ FenceInHand'
  BY <1>41, <1>c, <1>f, OutsideFence DEF Retry, StepThenJob, history, Outer, InFence, Copying
<1>42. ASSUME BeginCancel(c) PROVE CopyInHand' /\ FenceInHand'
  BY <1>42, <1>c, <1>f, OutsideFence DEF BeginCancel, disk, history, Goto, Outer, InFence,
     Copying
<1>43. ASSUME CancelStep(c) PROVE CopyInHand' /\ FenceInHand'
  BY <1>43, <1>c, <1>f, OutsideFence DEF CancelStep, local, Goto, Outer, InFence, Copying
<1>44. ASSUME CancelJob(c) PROVE CopyInHand' /\ FenceInHand'
  BY <1>44, <1>c, <1>f, OutsideFence DEF CancelJob, Overwrites, local, Goto, Outer, InFence,
     Copying
<1> QED
  BY <1>1, <1>2, <1>3, <1>4, <1>5, <1>6, <1>7, <1>8, <1>9, <1>10, <1>11, <1>12, <1>13, <1>14,
     <1>15, <1>16, <1>17, <1>18, <1>19, <1>20, <1>21, <1>22, <1>23, <1>24, <1>25, <1>26, <1>27,
     <1>28, <1>29, <1>30, <1>31, <1>32, <1>33, <1>34, <1>35, <1>36, <1>37, <1>38, <1>39, <1>40,
     <1>41, <1>42, <1>43, <1>44 DEF CallStep, StoreStep, RecoverStep, ExecuteStep, UserStep

-----------------------------------------------------------------------------
\* A step of a call that does not touch owner.lock, and that gets no claim by it.
LEMMA ClaimKept ==
  ASSUME JobInv, NEW c \in Call, Frame(c), ClaimIsExclusive,
         UNCHANGED <<up, lockOwner, overlap, displaced>>,
         \/ pc'[c] \in {"ownerLock", "stuck", "conclude", "done"}
         \/ pc[c] \notin {"ownerLock", "stuck", "conclude", "done"} /\ fence'[c] = fence[c]
  PROVE  ClaimIsExclusive'
BY DEF ClaimIsExclusive, Holds, Frame, Live, Over

\* A lock that is not released is lost to a recovery only.
LEMMA ClaimStep ==
  ASSUME JobInv, NEW c \in Call, CallStep(c) PROVE ClaimIsExclusive'
<1>f. Frame(c)
  BY FrameStep
<1>c. /\ pc \in [Call -> At] /\ fence \in [Call -> Nat] /\ FenceInHand /\ ClaimIsExclusive
  BY DEF JobInv, Control
<1>1. ASSUME Acquire(c) PROVE ClaimIsExclusive'
  <2> SUFFICES ASSUME ~overlap', NEW d \in Call, Holds(d)'
               PROVE  lockOwner' = d \/ d \in displaced'
    BY DEF ClaimIsExclusive
  <2>1. /\ pc'[c] = "ownerLock" /\ ~overlap
        /\ UNCHANGED <<up, lockOwner, displaced>>
    BY <1>1, <1>c DEF Acquire, Goto, Enters, disk
  <2>2. d # c /\ Holds(d)
    BY <1>f, <2>1 DEF Frame, Holds, Live, Over
  <2> QED
    BY <1>c, <2>1, <2>2 DEF ClaimIsExclusive
<1>2. ASSUME WriteOwnerLock(c) PROVE ClaimIsExclusive'
  <2> SUFFICES ASSUME ~overlap', NEW d \in Call, Holds(d)'
               PROVE  lockOwner' = d \/ d \in displaced'
    BY DEF ClaimIsExclusive
  <2>1. /\ lockOwner' = c /\ overlap' = overlap /\ up' = up
        /\ displaced' = IF Takeover(c) THEN displaced \cup ({lockOwner} \ {NoCall}) ELSE displaced
    BY <1>2 DEF WriteOwnerLock
  <2>2. CASE d # c
    <3>1. Holds(d)
      BY <1>f, <2>1, <2>2 DEF Frame, Holds, Live, Over
    <3>2. lockOwner = d \/ d \in displaced
      BY <1>c, <2>1, <3>1 DEF ClaimIsExclusive
    <3>3. Takeover(c) \/ lockOwner = NoCall
      BY <1>2, <1>c, <2>1 DEF WriteOwnerLock, Goto, FenceInHand
    <3> QED
      BY <2>1, <3>2, <3>3, JobAssumption
  <2> QED
    BY <2>1, <2>2
<1>3. ASSUME WriteOwnerJob(c) PROVE ClaimIsExclusive'
  BY <1>3, <1>c, <1>f, ClaimKept DEF WriteOwnerJob, Goto
<1>4. ASSUME AcquireRefused(c) PROVE ClaimIsExclusive'
  BY <1>4, <1>c, <1>f, ClaimKept DEF AcquireRefused, disk, history, Goto
<1>5. ASSUME Release(c) PROVE ClaimIsExclusive'
  <2> SUFFICES ASSUME ~overlap', NEW d \in Call, Holds(d)'
               PROVE  lockOwner' = d \/ d \in displaced'
    BY DEF ClaimIsExclusive
  <2>1. /\ pc[c] \in {"release", "return"} /\ ~overlap
        /\ UNCHANGED <<up, lockOwner, displaced, fence>>
    BY <1>5, <1>c DEF Release, Goto, Enters, disk
  <2>2. Holds(d)
    BY <1>f, <2>1 DEF Frame, Holds, Live, Over
  <2> QED
    BY <1>c, <2>1, <2>2 DEF ClaimIsExclusive
<1>6. ASSUME ClearOwner(c) PROVE ClaimIsExclusive'
  BY <1>6, <1>c, <1>f, ClaimKept DEF ClearOwner, Goto
<1>7. ASSUME RemoveLock(c) PROVE ClaimIsExclusive'
  <2> SUFFICES ASSUME ~overlap', NEW d \in Call, Holds(d)' PROVE d \in displaced'
    BY DEF ClaimIsExclusive
  <2>1. overlap' = overlap /\ up' = up /\ displaced' = displaced
    BY <1>7 DEF RemoveLock, history
  <2>2. lockOwner = c /\ pc'[c] \in {"conclude", "done"}
    BY <1>7, <1>c, <2>1 DEF RemoveLock, Returns, Goto, FenceInHand, InFence
  <2>3. d # c
    BY <2>2 DEF Holds, Over
  <2>4. Holds(d)
    BY <1>f, <2>1, <2>3 DEF Frame, Holds, Live, Over
  <2> QED
    BY <1>c, <2>1, <2>2, <2>3, <2>4 DEF ClaimIsExclusive
<1>8. ASSUME ReleaseNothing(c) PROVE ClaimIsExclusive'
  BY <1>8, <1>c, <1>f, ClaimKept DEF ReleaseNothing, Goto, Returns, disk, local, history
<1>9. ASSUME LockTimeout(c) PROVE ClaimIsExclusive'
  BY <1>9, <1>c, <1>f, ClaimKept DEF LockTimeout, Goto, disk, local, history
<1>10. ASSUME Settle(c) PROVE ClaimIsExclusive'
  BY <1>10, <1>c, <1>f, ClaimKept DEF Settle, WriteJob, history
<1>11. ASSUME Inspect(c) PROVE ClaimIsExclusive'
  BY <1>11, <1>c, <1>f, ClaimKept DEF Inspect, disk, history, Goto
<1>12. ASSUME MarkStale(c) PROVE ClaimIsExclusive'
  BY <1>12, <1>c, <1>f, ClaimKept DEF MarkStale, Overwrites, Goto
<1>13. ASSUME BeginRecovery(c) PROVE ClaimIsExclusive'
  BY <1>13, <1>c, <1>f, ClaimKept DEF BeginRecovery, disk, local, history, Goto
<1>14. ASSUME SkillOutdated(c) PROVE ClaimIsExclusive'
  BY <1>14, <1>c, <1>f, ClaimKept DEF SkillOutdated, Goto, disk, history
<1>15. ASSUME MarkSkillRecovery(c) PROVE ClaimIsExclusive'
  BY <1>15, <1>c, <1>f, ClaimKept DEF MarkSkillRecovery, Goto, CopyInHand, Copying, Job
<1>16. ASSUME PrepareUncertain(c) PROVE ClaimIsExclusive'
  BY <1>16, <1>c, <1>f, ClaimKept DEF PrepareUncertain, Prepare, history
<1>17. ASSUME PrepareRequeue(c) PROVE ClaimIsExclusive'
  BY <1>17, <1>c, <1>f, ClaimKept DEF PrepareRequeue, Prepare, history
<1>18. ASSUME PrepareNothing(c) PROVE ClaimIsExclusive'
  BY <1>18, <1>c, <1>f, ClaimKept DEF PrepareNothing, disk, local, history, Goto
<1>19. ASSUME Begin(c) PROVE ClaimIsExclusive'
  BY <1>19, <1>c, <1>f, ClaimKept DEF Begin, disk, history, Goto
<1>20. ASSUME Load(c) PROVE ClaimIsExclusive'
  BY <1>20, <1>c, <1>f, ClaimKept DEF Load, disk, history, Goto
<1>21. ASSUME TakeJob(c) PROVE ClaimIsExclusive'
  BY <1>21, <1>c, <1>f, ClaimKept DEF TakeJob, WriteJob, history
<1>22. ASSUME Granted(c) PROVE ClaimIsExclusive'
  BY <1>22, <1>c, <1>f, ClaimKept DEF Granted, disk, local, history, Goto
<1>23. ASSUME WaitEnds(c) PROVE ClaimIsExclusive'
  BY <1>23, <1>c, <1>f, ClaimKept DEF WaitEnds, StepThenJob, history
<1>24. ASSUME WaitCancelled(c) PROVE ClaimIsExclusive'
  BY <1>24, <1>c, <1>f, ClaimKept DEF WaitCancelled, disk, history, Goto
<1>25. ASSUME Throw(c) PROVE ClaimIsExclusive'
  BY <1>25, <1>c, <1>f, ClaimKept DEF Throw, disk, local, history, Goto
<1>26. ASSUME HeartbeatRead(c) PROVE ClaimIsExclusive'
  BY <1>26, <1>c, <1>f, ClaimKept DEF HeartbeatRead, disk, history
<1>27. ASSUME HeartbeatWrite(c) PROVE ClaimIsExclusive'
  BY <1>27, <1>c, <1>f, ClaimKept DEF HeartbeatWrite, history
<1>28. ASSUME Complete(c) PROVE ClaimIsExclusive'
  BY <1>28, <1>c, <1>f, ClaimKept DEF Complete, disk, history, Goto
<1>29. ASSUME StopBefore(c) PROVE ClaimIsExclusive'
  BY <1>29, <1>c, <1>f, ClaimKept DEF StopBefore, StepThenJob, history
<1>30. ASSUME MarkStep(c) PROVE ClaimIsExclusive'
  BY <1>30, <1>c, <1>f, ClaimKept DEF MarkStep, StepThenJob, history
<1>31. ASSUME StartStep(c) PROVE ClaimIsExclusive'
  BY <1>31, <1>c, <1>f, ClaimKept DEF StartStep, WriteJob
<1>32. ASSUME HandlerReturns(c) PROVE ClaimIsExclusive'
  BY <1>32, <1>c, <1>f, ClaimKept DEF HandlerReturns, disk, local, history, Goto
<1>33. ASSUME HandlerThrows(c) PROVE ClaimIsExclusive'
  BY <1>33, <1>c, <1>f, ClaimKept DEF HandlerThrows, disk, local, history, Goto
<1>34. ASSUME WriteOutput(c) PROVE ClaimIsExclusive'
  BY <1>34, <1>c, <1>f, ClaimKept DEF WriteOutput, local, history, Goto
<1>35. ASSUME CompleteStep(c) PROVE ClaimIsExclusive'
  BY <1>35, <1>c, <1>f, ClaimKept DEF CompleteStep, local, history, Goto
<1>36. ASSUME RecordStep(c) PROVE ClaimIsExclusive'
  BY <1>36, <1>c, <1>f, ClaimKept DEF RecordStep, WriteJob, history
<1>37. ASSUME Reload(c) PROVE ClaimIsExclusive'
  BY <1>37, <1>c, <1>f, ClaimKept DEF Reload, disk, history, Goto
<1>38. ASSUME FailStep(c) PROVE ClaimIsExclusive'
  BY <1>38, <1>c, <1>f, ClaimKept DEF FailStep, StepThenJob, history
<1>39. ASSUME Conclude(c) PROVE ClaimIsExclusive'
  BY <1>39, <1>c, <1>f, ClaimKept DEF Conclude, Overwrites, local, Goto
<1>40. ASSUME RetryThrows(c) PROVE ClaimIsExclusive'
  BY <1>40, <1>c, <1>f, ClaimKept DEF RetryThrows, disk, local, history, Goto
<1>41. ASSUME Retry(c) PROVE ClaimIsExclusive'
  BY <1>41, <1>c, <1>f, ClaimKept DEF Retry, StepThenJob, history
<1>42. ASSUME BeginCancel(c) PROVE ClaimIsExclusive'
  BY <1>42, <1>c, <1>f, ClaimKept DEF BeginCancel, disk, history, Goto
<1>43. ASSUME CancelStep(c) PROVE ClaimIsExclusive'
  BY <1>43, <1>c, <1>f, ClaimKept DEF CancelStep, local, Goto
<1>44. ASSUME CancelJob(c) PROVE ClaimIsExclusive'
  BY <1>44, <1>c, <1>f, ClaimKept DEF CancelJob, Overwrites, local, Goto
<1> QED
  BY <1>1, <1>2, <1>3, <1>4, <1>5, <1>6, <1>7, <1>8, <1>9, <1>10, <1>11, <1>12, <1>13, <1>14,
     <1>15, <1>16, <1>17, <1>18, <1>19, <1>20, <1>21, <1>22, <1>23, <1>24, <1>25, <1>26, <1>27,
     <1>28, <1>29, <1>30, <1>31, <1>32, <1>33, <1>34, <1>35, <1>36, <1>37, <1>38, <1>39, <1>40,
     <1>41, <1>42, <1>43, <1>44 DEF CallStep, StoreStep, RecoverStep, ExecuteStep, UserStep

\* A death and a stutter give nobody a claim.
LEMMA DeathStep ==
  ASSUME JobInv, UNCHANGED <<disk, pc, local, history>>, up' \subseteq up
  PROVE  CopyInHand' /\ FenceInHand' /\ ClaimIsExclusive'
<1>1. UNCHANGED <<lockOwner, pc, held, fence, overlap, displaced>>
  BY DEF disk, local, history
<1>2. \A d \in Call : Live(d)' => Live(d)
  BY DEF Live
<1>3. \A d \in Call : Holds(d)' => Holds(d)
  BY <1>1, <1>2 DEF Holds, Over
<1>4. CopyInHand'
  BY <1>1 DEF JobInv, CopyInHand
<1>5. FenceInHand'
  BY <1>1, <1>2 DEF JobInv, FenceInHand
<1>6. ClaimIsExclusive'
  BY <1>1, <1>3 DEF JobInv, ClaimIsExclusive
<1> QED
  BY <1>4, <1>5, <1>6

LEMMA FenceAndClaim == JobInv /\ [Next]_vars => CopyInHand' /\ FenceInHand' /\ ClaimIsExclusive'
<1>1. ASSUME JobInv, NEW p \in Proc, Crash(p)
      PROVE  CopyInHand' /\ FenceInHand' /\ ClaimIsExclusive'
  BY <1>1, DeathStep DEF Crash
<1>2. ASSUME JobInv, UNCHANGED vars PROVE CopyInHand' /\ FenceInHand' /\ ClaimIsExclusive'
  BY <1>2, DeathStep DEF vars
<1> QED
  BY <1>1, <1>2, FenceStep, ClaimStep DEF Next, CallStep

-----------------------------------------------------------------------------
LEMMA NextInv == JobInv /\ [Next]_vars => JobInv'
BY ControlStep, RecordStepInv, FileStep, OutputStep, LockStep, FenceAndClaim DEF JobInv

LEMMA JobInvAlways == Spec => []JobInv
BY InitInv, NextInv, PTL DEF Spec

\* The job record, its step files, owner.lock and the copies of every call keep
\* their types, and no step file counts more attempts than
\* loop_budget.max_attempts_per_step, whatever copy is written back.
THEOREM JobTypes == Spec => []TypeOK
<1>1. JobInv => TypeOK
  BY DEF JobInv, Control, Records, Files, Budgeted, TypeOK
<1> QED
  BY <1>1, JobInvAlways, PTL

\* A step is recorded as completed only when writeStepOutputOwned has written its
\* output, for any executors, crashes, takeovers and cancellations.
THEOREM CompletedStepsHaveOutput == Spec => []CompletedHasOutput
<1>1. JobInv => CompletedHasOutput
  BY DEF JobInv
<1> QED
  BY <1>1, JobInvAlways, PTL

\* As long as no two live calls have been inside owner.fence.lock together, a call of a
\* live process has owner.lock from its write in acquireRunOwner to its removal in
\* releaseRunOwner, or a recovery has taken it over: a second claim is never granted
\* beside it, however the reads and writes of other calls fall between.
THEOREM OneClaim == Spec => []ClaimIsExclusive
<1>1. JobInv => ClaimIsExclusive
  BY DEF JobInv
<1> QED
  BY <1>1, JobInvAlways, PTL

\* Every call of a live process that has ended has given owner.lock back, by whatever
\* early return or exception it ended and even beside another call inside
\* owner.fence.lock; only a release that throws on a lock timeout (stuck) keeps it.
THEOREM NoLockLeaks == Spec => []NoLeakedLock
<1>1. JobInv => NoLeakedLock
  <2> SUFFICES ASSUME JobInv, lockOwner # NoCall, Live(lockOwner) PROVE ~Over(lockOwner)
    BY DEF NoLeakedLock
  <2>1. lockOwner \in Call
    BY DEF JobInv, Control, Owner
  <2> QED
    BY <2>1 DEF JobInv, LockInHand, Inside, Over
<1> QED
  BY <1>1, JobInvAlways, PTL
=============================================================================
