------------------------------ MODULE MkdirLock ------------------------------
(***************************************************************************)
(* The lock directories that guard the state files of the runtime: every   *)
(* store makes one with mkdir, writes owner.json into it, and removes it   *)
(* when its operation is over; a caller that finds the directory there     *)
(* judges from its age, its owner.json or the pid in it whether to break   *)
(* it.  The stores wrote this loop nine times and judge differently: a     *)
(* LockRule says how, and `rule' is the rule of the lock at hand.          *)
(*                                                                         *)
(* An action is one call of the file system (a look at the lock takes the  *)
(* reads of owner.json and of the mtime together; rm -r is one step).      *)
(***************************************************************************)
EXTENDS Naturals

CONSTANTS
  Call,    \* the operations that want the lock, each once
  Proc,    \* server processes
  ProcOf,  \* the process a call runs in
  Mortal,  \* the processes that may die (a bound of the instance)
  Slow,    \* the calls that may keep the lock beyond the stale age
  Rules,   \* the rules to look at
  NoCall

ASSUME LockAssumption ==
  /\ NoCall \notin Call
  /\ ProcOf \in [Call -> Proc] /\ Mortal \subseteq Proc /\ Slow \subseteq Call

-----------------------------------------------------------------------------
(* How the stores judge.                                                   *)
(*   byRecord   age is that of acquired_at in owner.json, where there is   *)
(*              one, and else that of the directory                        *)
(*   asksOwner  an old record is stale only when its pid is dead           *)
(*   atOnce     a directory without a record is stale whatever its age     *)
(*   record     there is an owner.json, and failing to write it fails the  *)
(*              call ("must"), does not ("may"), or there is none ("none") *)
(*   token      the lock is removed only while owner.json names the caller *)

LockRule == [byRecord : BOOLEAN, asksOwner : BOOLEAN, atOnce : BOOLEAN,
             record : {"must", "may", "none"}, token : BOOLEAN]

ByAge == [byRecord |-> FALSE, asksOwner |-> FALSE, atOnce |-> FALSE,
          record |-> "must", token |-> FALSE]

GovernorLock   == [ByAge EXCEPT !.byRecord = TRUE, !.asksOwner = TRUE]
ComponentLock  == [ByAge EXCEPT !.byRecord = TRUE, !.asksOwner = TRUE]
PolicyLock     == [ByAge EXCEPT !.byRecord = TRUE, !.asksOwner = TRUE]
AcceptanceLock == [ByAge EXCEPT !.byRecord = TRUE, !.asksOwner = TRUE, !.token = TRUE]
RunOwnerLock   == [ByAge EXCEPT !.byRecord = TRUE, !.atOnce = TRUE]
GoalLock       == [ByAge EXCEPT !.record = "may"]
ReportLock     == [ByAge EXCEPT !.token = TRUE]
ActivityLock   == ByAge
OutcomeLock    == ByAge
OfficeLock     == [ByAge EXCEPT !.record = "none"]

\* The pid that a lock asks for is in the record it takes the age from, and a
\* token needs a record.
ASSUME RulesAssumption ==
  /\ Rules \subseteq LockRule
  /\ \A r \in Rules : (r.asksOwner => r.byRecord) /\ (r.token => r.record # "none")

-----------------------------------------------------------------------------
VARIABLES
  rule,    \* the rule of this lock
  up,      \* live processes
  dir,     \* the lock directory: who made it, whom owner.json names, its age
  at,      \* where each call is
  judged,  \* the maker of the directory that a breaking call found stale
  stolen,  \* how live holders have lost their directory (history)
  overdue  \* a live holder has been overtaken by the stale age (history)

lockVars == <<rule, up, dir, at, judged, stolen, overdue>>

NoDir == [maker |-> NoCall, owner |-> NoCall, old |-> FALSE]
Directory == [maker : Call \cup {NoCall}, owner : Call \cup {NoCall}, old : BOOLEAN]
LockAt == {"out", "mkdir", "owner", "busy", "break", "in", "remove", "left", "failed"}

\* The lock variables have their types, and a directory that nobody has made
\* is neither old nor owned.
LockTypeOK ==
  /\ rule \in LockRule
  /\ up \in SUBSET Proc
  /\ dir \in Directory
  /\ at \in [Call -> LockAt]
  /\ judged \in [Call -> Call \cup {NoCall}]
  /\ stolen \in SUBSET {"judged", "raced", "released"}
  /\ overdue \in BOOLEAN
  /\ dir.maker = NoCall => dir = NoDir

LockInit ==
  /\ rule \in Rules
  /\ up = Proc
  /\ dir = NoDir
  /\ at = [c \in Call |-> "out"]
  /\ judged = [c \in Call |-> NoCall]
  /\ stolen = {}
  /\ overdue = FALSE

Alive(c) == ProcOf[c] \in up
Free     == dir.maker = NoCall

\* A call that has made the directory and not yet given it back.
Holds(c)  == Alive(c) /\ at[c] \in {"owner", "in", "remove"}
\* A call that runs its operation.
Inside(c) == Alive(c) /\ at[c] \in {"in", "remove"}

Moves(c, from, to) == Alive(c) /\ at[c] = from /\ at' = [at EXCEPT ![c] = to]

\* The directory of a live holder goes away, and not by its own hand.
Robs(c, how) ==
  stolen' = IF dir.maker # c /\ dir.maker # NoCall /\ Holds(dir.maker)
              THEN stolen \cup {how} ELSE stolen

-----------------------------------------------------------------------------
Enter(c) == Moves(c, "out", "mkdir") /\ UNCHANGED <<rule, up, dir, judged, stolen, overdue>>

\* Bug: mkdir with the recursive option: an existing directory is no error.
MkdirRecursive(c) ==
  /\ Moves(c, "mkdir", IF rule.record = "none" THEN "in" ELSE "owner")
  /\ dir' = IF Free THEN [maker |-> c, owner |-> NoCall, old |-> FALSE] ELSE dir
  /\ UNCHANGED <<rule, up, judged, stolen, overdue>>

Mkdir(c) ==
  \/ /\ Free
     /\ Moves(c, "mkdir", IF rule.record = "none" THEN "in" ELSE "owner")
     /\ dir' = [maker |-> c, owner |-> NoCall, old |-> FALSE]
     /\ UNCHANGED <<rule, up, judged, stolen, overdue>>
  \/ /\ ~Free
     /\ Moves(c, "mkdir", "busy")
     /\ UNCHANGED <<rule, up, dir, judged, stolen, overdue>>

\* owner.json is written by its path, into the directory that is there now.
\* Writing the file anew touches the directory; acquired_at is always new.  Where
\* a store removes the directory after such a failure, it is gone already.
WriteOwner(c) ==
  /\ UNCHANGED <<rule, up, judged, stolen, overdue>>
  /\ \/ /\ ~Free
        /\ Moves(c, "owner", "in")
        /\ dir' = [dir EXCEPT !.owner = c,
                              !.old = @ /\ ~rule.byRecord /\ dir.owner # NoCall]
     \/ /\ Free
        /\ Moves(c, "owner", IF rule.record = "may" THEN "in" ELSE "failed")
        /\ UNCHANGED dir

\* Bug: The age of the record is believed without asking for the pid.
StaleByAge == IF rule.byRecord /\ dir.owner # NoCall THEN dir.old ELSE rule.atOnce \/ dir.old

\* Bug: A directory without a record is never stale.
StaleIfRecorded == dir.owner # NoCall /\ dir.old /\ (rule.asksOwner => ~Alive(dir.owner))

Stale ==
  IF rule.byRecord /\ dir.owner # NoCall
    THEN dir.old /\ (rule.asksOwner => ~Alive(dir.owner))
    ELSE rule.atOnce \/ dir.old

\* A caller that got EEXIST looks at the lock; without a verdict it tries
\* again, until its time is over.
Judge(c) ==
  /\ UNCHANGED <<rule, up, dir, stolen, overdue>>
  /\ \/ /\ Stale
        /\ Moves(c, "busy", "break")
        /\ judged' = [judged EXCEPT ![c] = dir.maker]
     \/ /\ ~Stale
        /\ Moves(c, "busy", "mkdir") \/ Moves(c, "busy", "failed")
        /\ UNCHANGED judged

\* What is removed is the directory that is there now.
Break(c) ==
  /\ Moves(c, "break", "mkdir")
  /\ Robs(c, IF judged[c] = dir.maker THEN "judged" ELSE "raced")
  /\ dir' = NoDir
  /\ judged' = [judged EXCEPT ![c] = NoCall]
  /\ UNCHANGED <<rule, up, overdue>>

\* The finally block: with a token the record is read first.
Leave(c) ==
  \/ /\ rule.token
     /\ Moves(c, "in", IF dir.owner = c THEN "remove" ELSE "left")
     /\ UNCHANGED <<rule, up, dir, judged, stolen, overdue>>
  \/ /\ ~rule.token
     /\ Moves(c, "in", "left")
     /\ Robs(c, "released")
     /\ dir' = NoDir
     /\ UNCHANGED <<rule, up, judged, overdue>>

Remove(c) ==
  /\ Moves(c, "remove", "left")
  /\ Robs(c, "released")
  /\ dir' = NoDir
  /\ UNCHANGED <<rule, up, judged, overdue>>

\* The stale age passes.  That it overtakes a holder counts where the lock
\* would take no notice that the holder lives.
Age ==
  /\ ~Free /\ ~dir.old
  /\ Holds(dir.maker) => dir.maker \in Slow
  /\ dir' = [dir EXCEPT !.old = TRUE]
  /\ overdue' = (overdue \/ (Holds(dir.maker) /\ ~(rule.asksOwner /\ dir.owner = dir.maker)))
  /\ UNCHANGED <<rule, up, at, judged, stolen>>

Crash(p) ==
  /\ p \in up \cap Mortal
  /\ up' = up \ {p}
  /\ UNCHANGED <<rule, dir, at, judged, stolen, overdue>>

\* What a call does about the lock until its operation may begin.
Acquire(c) == Mkdir(c) \/ WriteOwner(c) \/ Judge(c) \/ Break(c)

LockStep(c) == Enter(c) \/ Acquire(c) \/ Leave(c) \/ Remove(c)
LockNext == (\E c \in Call : LockStep(c)) \/ Age \/ \E p \in Proc : Crash(p)

\* The event loop of a live process goes on and time passes; whether a call
\* gives up is left open, so waiting must end without it.
LockFairness == WF_lockVars(Age) /\ \A c \in Call : WF_lockVars(Acquire(c) \/ Leave(c) \/ Remove(c))
LockSpec == LockInit /\ [][LockNext]_lockVars /\ LockFairness

-----------------------------------------------------------------------------
\* Two operations are inside the lock at once only after a live holder has
\* lost its directory: as long as nobody is robbed, every lock excludes.
ExclusiveUnlessRobbed ==
  stolen = {} => \A c, d \in Call : Inside(c) /\ Inside(d) => c = d

\* A holder is robbed only where something has gone wrong before: a process has
\* died (two waiters then race to break what it left), or the stale age has
\* overtaken a holder whose life the lock does not ask about.  The exception is
\* a lock that takes a directory without a record for stale at once.
RobberyNeedsFault ==
  stolen # {} => rule.atOnce \/ overdue \/ up # Proc

\* A lock whose holder has died does not stop the others: who waits gets in,
\* and not only by giving up.
WaitingEnds == \A c \in Call : (at[c] = "mkdir") ~> (at[c] \notin {"mkdir", "busy", "break"} \/ ~Alive(c))

=============================================================================
