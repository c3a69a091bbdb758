--------------------------- MODULE MCTaskReports ---------------------------
(***************************************************************************)
(* Appends a1 and a2 under one key in two processes, as when a caller does *)
(* not know whether its first call got through, progress reports a3 and a4 *)
(* that say the same under keys of their own, a reader r1 and a rebuild b1.*)
(* At most three of the calls are made, every three of them in some run.   *)
(***************************************************************************)
EXTENDS TaskReports

CONSTANTS p1, p2, a1, a2, a3, a4, r1, b1, k1, k2, k3

MCProcOf == [c \in Call |-> IF c \in {a1, a3} THEN p1 ELSE p2]
MCKindOf == [c \in Call |-> IF c = r1 THEN "read" ELSE IF c = b1 THEN "rebuild" ELSE "append"]
MCKeyOf  == [c \in Call |-> IF c = a3 THEN k2 ELSE IF c = a4 THEN k3 ELSE k1]
MCBodyOf == [c \in Call |-> "same"]
MCRules  == {ReportLock}

MaxCalls == 3
AtMostThree == Cardinality({c \in Call : pc[c] # "start"}) <= MaxCalls

\* What a call that has returned, or whose process is dead, still holds is read
\* by nobody.
Over(c) == pc[c] = "done" \/ at[c] = "failed" \/ ~Alive(c)
View == <<lockVars, file, summary, meta, answer, acked,
          [c \in Call |-> IF Over(c) THEN <<pc[c], known[c]>>
                                     ELSE <<pc[c], known[c], seen[c], got[c], event[c]>>]>>
=============================================================================
