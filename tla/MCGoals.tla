------------------------------ MODULE MCGoals ------------------------------
(***************************************************************************)
(* A process that starts a goal, may resume and cancel it, and may die; a  *)
(* second one whose manager starts at any time and may resume the goal.    *)
(***************************************************************************)
EXTENDS Goals

CONSTANTS p1, p2, s, u, r1, r2, k, k1, k2, MaxCalls, CrashedCalls, RacedCalls, SeizedCalls

MCKindOf == [c \in Call |-> CASE c = s -> "start" [] c = u -> "recover" [] c = k -> "cancel"
                              [] OTHER -> "resume"]
MCProcOf == [c \in Call |-> IF c \in {u, r2} THEN p2 ELSE p1]
MCKeyOf  == [c \in Call |-> IF c = r1 THEN k1 ELSE k2]

\* How many of the calls are made: MaxCalls, fewer when a process has died, when
\* something of what the properties except has happened or when the goal was seized.
Begun == Cardinality({c \in Call : pc[c] # "idle"})
FewCalls ==
  /\ Begun <= MaxCalls
  /\ up # Proc => Begun <= CrashedCalls
  /\ mishap # {} => Begun <= IF pc[u] = "idle" THEN RacedCalls ELSE SeizedCalls

\* What is read no more: the record of a goal that has ended, apart from its status
\* and lease, and what has become of a turn that nobody follows.
Read(c) == turn[c] = "working" \/ pc[c] = "attach" \/ goal.run = c \/ \E p \in Proc : watched[p] = c
View == <<up, IF Ended THEN <<goal.status, goal.lease>> ELSE <<goal>>, result, resource, pc,
          [t \in Thread |-> IF Alive(t) THEN want[t] ELSE "none"],
          [c \in Call |-> IF Read(c) /\ ~Ended THEN <<turn[c], asked[c]>>
                           ELSE <<turn[c] = "working">>],
          monitors, hooks, mishap>>
=============================================================================
