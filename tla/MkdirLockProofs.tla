--------------------------- MODULE MkdirLockProofs ---------------------------
(***************************************************************************)
(* The lock directories exclude as long as no live holder is robbed, for   *)
(* any set of calls and processes, any rule and any course of time.        *)
(***************************************************************************)
EXTENDS MkdirLock, TLAPS

\* A holder that has not been robbed is the maker of the directory at the path.
HolderMadeIt == stolen = {} => \A c \in Call : Holds(c) => dir.maker = c

LockInv == LockTypeOK /\ HolderMadeIt

LEMMA InitLock == LockInit => LockInv
<1> SUFFICES ASSUME LockInit PROVE LockInv
  OBVIOUS
<1>1. NoDir \in Directory
  BY DEF NoDir, Directory
<1>2. rule \in LockRule /\ stolen \in SUBSET {"judged", "raced", "released"}
  BY RulesAssumption DEF LockInit
<1>3. LockTypeOK
  BY <1>1, <1>2, LockAssumption DEF LockInit, LockTypeOK, LockAt
<1> QED
  BY <1>3 DEF LockInit, LockInv, HolderMadeIt, Holds

\* What the two steps with a choice may make of the directory.
LEMMA MkdirMakes ==
  ASSUME NEW c \in Call, Mkdir(c)
  PROVE  dir' = dir \/ dir' = [maker |-> c, owner |-> NoCall, old |-> FALSE]
BY DEF Mkdir

LEMMA LeaveMakes == ASSUME NEW c \in Call, Leave(c) PROVE dir' = dir \/ dir' = NoDir
BY DEF Leave

\* The types survive every step.
LEMMA TypeStep == LockTypeOK /\ [LockNext]_lockVars => LockTypeOK'
<1> SUFFICES ASSUME LockTypeOK, [LockNext]_lockVars PROVE LockTypeOK'
  OBVIOUS
<1> USE LockAssumption DEF LockTypeOK, NoDir, Directory, LockAt, Moves, Free
<1>1. ASSUME NEW c \in Call, Enter(c) PROVE LockTypeOK'
  BY <1>1 DEF Enter
<1>2. ASSUME NEW c \in Call, Mkdir(c) PROVE LockTypeOK'
  <2>1. at' \in [Call -> LockAt]
    <3>1. CASE rule.record = "none"
      BY <1>2, <3>1 DEF Mkdir
    <3>2. CASE rule.record # "none"
      BY <1>2, <3>2 DEF Mkdir
    <3> QED
      BY <3>1, <3>2
  <2>2. dir' \in Directory /\ (dir'.maker = NoCall => dir' = NoDir)
    <3>1. dir' = dir \/ dir' = [maker |-> c, owner |-> NoCall, old |-> FALSE]
      BY <1>2, MkdirMakes
    <3>2. CASE dir' = dir
      BY <3>2
    <3>3. CASE dir' = [maker |-> c, owner |-> NoCall, old |-> FALSE]
      BY <3>3
    <3> QED
      BY <3>1, <3>2, <3>3
  <2>3. UNCHANGED <<rule, up, judged, stolen, overdue>>
    BY <1>2 DEF Mkdir
  <2> QED
    BY <2>1, <2>2, <2>3
<1>3. ASSUME NEW c \in Call, WriteOwner(c) PROVE LockTypeOK'
  BY <1>3 DEF WriteOwner
<1>4. ASSUME NEW c \in Call, Judge(c) PROVE LockTypeOK'
  BY <1>4 DEF Judge
<1>5. ASSUME NEW c \in Call, Break(c) PROVE LockTypeOK'
  BY <1>5 DEF Break, Robs
<1>6. ASSUME NEW c \in Call, Leave(c) PROVE LockTypeOK'
  <2>1. at' \in [Call -> LockAt]
    <3>1. CASE dir.owner = c
      BY <1>6, <3>1 DEF Leave
    <3>2. CASE dir.owner # c
      BY <1>6, <3>2 DEF Leave
    <3> QED
      BY <3>1, <3>2
  <2>2. dir' \in Directory /\ (dir'.maker = NoCall => dir' = NoDir)
    <3>1. dir' = dir \/ dir' = NoDir
      BY <1>6, LeaveMakes
    <3>2. CASE dir' = dir
      BY <3>2
    <3>3. CASE dir' = NoDir
      BY <3>3
    <3> QED
      BY <3>1, <3>2, <3>3
  <2>3. stolen' \in SUBSET {"judged", "raced", "released"}
    BY <1>6 DEF Leave, Robs
  <2>4. UNCHANGED <<rule, up, judged, overdue>>
    BY <1>6 DEF Leave
  <2> QED
    BY <2>1, <2>2, <2>3, <2>4
<1>7. ASSUME NEW c \in Call, Remove(c) PROVE LockTypeOK'
  BY <1>7 DEF Remove, Robs
<1>8. CASE Age
  BY <1>8 DEF Age, Holds, Alive
<1>9. ASSUME NEW p \in Proc, Crash(p) PROVE LockTypeOK'
  BY <1>9 DEF Crash
<1>10. CASE UNCHANGED lockVars
  BY <1>10 DEF lockVars
<1> QED
  BY <1>1, <1>2, <1>3, <1>4, <1>5, <1>6, <1>7, <1>8, <1>9, <1>10 DEF LockNext, LockStep, Acquire

\* A step that leaves every holder in its directory, and makes nobody a holder
\* but the maker, keeps HolderMadeIt.
LEMMA HolderStep == LockInv /\ [LockNext]_lockVars => HolderMadeIt'
<1> SUFFICES ASSUME LockInv, [LockNext]_lockVars, stolen' = {},
                    NEW d \in Call, Holds(d)' PROVE dir'.maker = d
  BY DEF HolderMadeIt
<1> USE LockAssumption DEF LockInv, LockTypeOK, HolderMadeIt, Moves, Directory, Free
<1>1. ASSUME NEW c \in Call, Enter(c) PROVE dir'.maker = d
  BY <1>1 DEF Enter, Holds, Alive
<1>2. ASSUME NEW c \in Call, Mkdir(c) PROVE dir'.maker = d
  BY <1>2 DEF Mkdir, Holds, Alive
<1>3. ASSUME NEW c \in Call, WriteOwner(c) PROVE dir'.maker = d
  BY <1>3 DEF WriteOwner, Holds, Alive
<1>4. ASSUME NEW c \in Call, Judge(c) PROVE dir'.maker = d
  BY <1>4 DEF Judge, Holds, Alive
<1>5. ASSUME NEW c \in Call, Break(c) PROVE dir'.maker = d
  <2>1. d # c /\ Holds(d) /\ up' = up
    BY <1>5 DEF Break, Holds, Alive
  <2>2. dir.maker = d /\ stolen = {}
    BY <1>5, <2>1 DEF Break, Robs
  <2> QED
    BY <1>5, <2>1, <2>2 DEF Break, Robs
<1>6. ASSUME NEW c \in Call, Leave(c) PROVE dir'.maker = d
  <2>1. CASE rule.token
    BY <1>6, <2>1 DEF Leave, Holds, Alive
  <2>2. CASE ~rule.token
    <3>1. d # c /\ Holds(d) /\ stolen = {}
      BY <1>6, <2>2 DEF Leave, Holds, Alive, Robs
    <3> QED
      BY <1>6, <2>2, <3>1 DEF Leave, Robs
  <2> QED
    BY <2>1, <2>2
<1>7. ASSUME NEW c \in Call, Remove(c) PROVE dir'.maker = d
  <2>1. d # c /\ Holds(d) /\ stolen = {}
    BY <1>7 DEF Remove, Holds, Alive, Robs
  <2> QED
    BY <1>7, <2>1 DEF Remove, Robs
<1>8. CASE Age
  BY <1>8 DEF Age, Holds, Alive
<1>9. ASSUME NEW p \in Proc, Crash(p) PROVE dir'.maker = d
  BY <1>9 DEF Crash, Holds, Alive
<1>10. CASE UNCHANGED lockVars
  BY <1>10 DEF lockVars, Holds, Alive
<1> QED
  BY <1>1, <1>2, <1>3, <1>4, <1>5, <1>6, <1>7, <1>8, <1>9, <1>10 DEF LockNext, LockStep, Acquire

\* The lock variables keep their types.
THEOREM LockTypeCorrect == LockSpec => []LockTypeOK
<1>1. LockInit => LockTypeOK
  BY InitLock DEF LockInv
<1> QED
  BY <1>1, TypeStep, PTL DEF LockSpec

\* Every lock of the runtime excludes until a live holder is robbed.
THEOREM LockExcludes == LockSpec => []ExclusiveUnlessRobbed
<1>1. LockInv /\ [LockNext]_lockVars => LockInv'
  BY TypeStep, HolderStep DEF LockInv
<1>2. LockInv => ExclusiveUnlessRobbed
  BY DEF LockInv, HolderMadeIt, ExclusiveUnlessRobbed, Inside, Holds
<1> QED
  BY InitLock, <1>1, <1>2, PTL DEF LockSpec

-----------------------------------------------------------------------------
\* As long as nothing has gone wrong, the directory is that of a live holder,
\* it is old only where the lock asks for the holder, and nobody breaks it.
Calm == up = Proc /\ ~overdue /\ ~rule.atOnce

Undisturbed ==
  /\ stolen = {}
  /\ \A c \in Call : at[c] # "break"
  /\ ~Free => at[dir.maker] \in {"owner", "in", "remove"}
  /\ dir.owner \in {NoCall, dir.maker}
  /\ \A c \in Call : at[c] = "in" /\ rule.record # "none" => dir.owner = c
  /\ dir.old => rule.asksOwner /\ dir.owner # NoCall

CalmInv == rule \in Rules /\ (Calm => Undisturbed)

LEMMA InitCalm == LockInit => CalmInv
<1> SUFFICES ASSUME LockInit PROVE rule \in Rules /\ Undisturbed
  BY DEF CalmInv
<1> QED
  BY DEF LockInit, Undisturbed, NoDir, Free

\* In a calm state no directory is stale.
LEMMA NothingStale ==
  ASSUME LockInv, CalmInv, Calm
  PROVE  ~Stale
<1>1. dir.old => rule.asksOwner /\ rule.byRecord /\ dir.owner # NoCall
  BY RulesAssumption DEF CalmInv, Undisturbed
<1>2. dir.owner # NoCall => Alive(dir.owner)
  BY LockAssumption DEF CalmInv, Calm, Undisturbed, LockInv, LockTypeOK, Directory, Alive
<1> QED
  BY <1>1, <1>2 DEF Stale, Calm

LEMMA CalmStep == LockInv /\ CalmInv /\ [LockNext]_lockVars => CalmInv'
<1> SUFFICES ASSUME LockInv, CalmInv, [LockNext]_lockVars PROVE CalmInv'
  OBVIOUS
<1> USE LockAssumption DEF LockTypeOK, Directory, Moves, Free
<1>r. rule' = rule /\ rule \in Rules
  BY DEF LockNext, LockStep, Acquire, Enter, Mkdir, WriteOwner, Judge, Break, Leave, Remove,
         Age, Crash, lockVars, CalmInv
<1> SUFFICES ASSUME Calm' PROVE Undisturbed'
  BY <1>r DEF CalmInv
<1>c. Calm
  <2>1. overdue => overdue'
    BY DEF LockNext, LockStep, Acquire, Enter, Mkdir, WriteOwner, Judge, Break, Leave,
           Remove, Age, Crash, lockVars, LockInv
  <2>2. up' = up \/ \E p \in up : up' = up \ {p}
    BY DEF LockNext, LockStep, Acquire, Enter, Mkdir, WriteOwner, Judge, Break, Leave,
           Remove, Age, Crash, lockVars
  <2>3. up \subseteq Proc
    BY DEF LockInv
  <2> QED
    BY <1>r, <2>1, <2>2, <2>3 DEF Calm
<1>u. Undisturbed /\ ~Stale /\ LockTypeOK
  BY <1>c, NothingStale DEF CalmInv, LockInv
<1>a. \A c \in Call : Alive(c)
  BY <1>c DEF Calm, Alive
<1>h. \A c \in Call : at[c] \in {"owner", "in", "remove"} => dir.maker = c
  BY <1>a, <1>u DEF LockInv, HolderMadeIt, Holds, Undisturbed
<1>1. ASSUME NEW c \in Call, Enter(c) PROVE Undisturbed'
  BY <1>1, <1>u, <1>r DEF Enter, Undisturbed
<1>2. ASSUME NEW c \in Call, Mkdir(c) PROVE Undisturbed'
  <2>1. CASE Free
    <3>1. dir' = [maker |-> c, owner |-> NoCall, old |-> FALSE] /\ stolen' = stolen
          /\ at' = [at EXCEPT ![c] = IF rule.record = "none" THEN "in" ELSE "owner"]
      BY <1>2, <2>1 DEF Mkdir
    <3>2. at'[c] \in {"in", "owner"} /\ \A d \in Call : at'[d] # "break"
      BY <3>1, <1>u DEF Undisturbed
    <3>3. \A d \in Call : at'[d] = "in" => d = c /\ rule.record = "none"
      BY <2>1, <3>1, <1>u, <1>h
    <3> QED
      BY <3>1, <3>2, <3>3, <1>u, <1>r DEF Undisturbed
  <2>2. CASE ~Free
    BY <1>2, <2>2, <1>u, <1>r DEF Mkdir, Undisturbed
  <2> QED
    BY <2>1, <2>2
<1>3. ASSUME NEW c \in Call, WriteOwner(c) PROVE Undisturbed'
  <2>1. dir.maker = c /\ at[c] = "owner" /\ ~Free
    BY <1>3, <1>h DEF WriteOwner
  <2>2. dir' = [dir EXCEPT !.owner = c, !.old = @ /\ ~rule.byRecord /\ dir.owner # NoCall]
    BY <1>3, <2>1 DEF WriteOwner
  <2>3. dir'.maker = c /\ dir'.owner = c /\ (dir'.old => dir.old)
    BY <2>1, <2>2, <1>u
  <2>4. at' = [at EXCEPT ![c] = "in"] /\ stolen' = stolen
    BY <1>3, <2>1 DEF WriteOwner
  <2> QED
    BY <2>1, <2>3, <2>4, <1>u, <1>r DEF Undisturbed
<1>4. ASSUME NEW c \in Call, Judge(c) PROVE Undisturbed'
  BY <1>4, <1>u, <1>r DEF Judge, Undisturbed
<1>5. ASSUME NEW c \in Call, Break(c) PROVE Undisturbed'
  BY <1>5, <1>u DEF Break, Undisturbed
<1>6. ASSUME NEW c \in Call, Leave(c) PROVE Undisturbed'
  <2>1. dir.maker = c /\ at[c] = "in"
    BY <1>6, <1>h DEF Leave
  <2>2. CASE dir' = NoDir
    <3>1. stolen' = stolen /\ \A d \in Call : at'[d] # "break"
      BY <1>6, <2>1, <1>u DEF Leave, Robs, Undisturbed
    <3>2. \E to \in {"remove", "left"} : at' = [at EXCEPT ![c] = to]
      BY <1>6 DEF Leave
    <3>3. \A d \in Call : at'[d] # "in"
      BY <3>2, <2>1, <1>u, <1>h
    <3> QED
      BY <2>2, <3>1, <3>3, <1>u DEF Undisturbed, NoDir
  <2>3. CASE dir' # NoDir
    <3>1. dir' = dir /\ stolen' = stolen
          /\ at' = [at EXCEPT ![c] = IF dir.owner = c THEN "remove" ELSE "left"]
      BY <1>6, <2>3 DEF Leave
    <3>2. dir.owner = c
      <4>1. rule.token
        BY <1>6, <2>3 DEF Leave
      <4> QED
        BY <4>1, <2>1, <1>u, <1>r, RulesAssumption DEF Undisturbed
    <3> QED
      BY <2>1, <3>1, <3>2, <1>u, <1>r DEF Undisturbed
  <2> QED
    BY <2>2, <2>3
<1>7. ASSUME NEW c \in Call, Remove(c) PROVE Undisturbed'
  <2>1. dir.maker = c
    BY <1>7, <1>h DEF Remove
  <2> QED
    BY <1>7, <2>1, <1>u DEF Remove, Robs, Undisturbed, NoDir
<1>8. CASE Age
  <2>1. Holds(dir.maker) /\ ~Free
    BY <1>8, <1>u, <1>a DEF Age, Holds, Undisturbed
  <2>2. rule.asksOwner /\ dir.owner = dir.maker
    BY <1>8, <2>1 DEF Age, Calm
  <2>3. dir' = [dir EXCEPT !.old = TRUE] /\ UNCHANGED <<rule, at, stolen>>
    BY <1>8 DEF Age
  <2> QED
    BY <2>1, <2>2, <2>3, <1>u DEF Undisturbed
<1>9. ASSUME NEW p \in Proc, Crash(p) PROVE Undisturbed'
  BY <1>9, <1>u, <1>r DEF Crash, Undisturbed
<1>10. CASE UNCHANGED lockVars
  BY <1>10, <1>u DEF lockVars, Undisturbed
<1> QED
  BY <1>1, <1>2, <1>3, <1>4, <1>5, <1>6, <1>7, <1>8, <1>9, <1>10 DEF LockNext, LockStep, Acquire

\* No live holder is robbed without a fault before it, of the rules that do not
\* take a directory without a record for stale at once.
THEOREM NoRobberyWithoutFault == LockSpec => []RobberyNeedsFault
<1>1. LockInv /\ [LockNext]_lockVars => LockInv'
  BY TypeStep, HolderStep DEF LockInv
<1>2. LockInit => LockInv /\ CalmInv
  BY InitLock, InitCalm
<1>3. CalmInv => RobberyNeedsFault
  BY DEF CalmInv, Calm, Undisturbed, RobberyNeedsFault
<1> QED
  BY <1>1, <1>2, <1>3, CalmStep, PTL DEF LockSpec
=============================================================================
