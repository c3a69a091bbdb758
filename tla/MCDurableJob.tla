---------------------------- MODULE MCDurableJob ----------------------------
(***************************************************************************)
(* Two executions e1 and e2 of the job in different processes, and of the  *)
(* calls that come between them the recovery u1 of a server that starts, a *)
(* cancellation k1, a retry t1 and a status request s1.                    *)
(***************************************************************************)
EXTENDS DurableJob, TLC

CONSTANTS p1, p2, p3, e1, e2, u1, k1, s1, t1

MCKindOf == [c \in Call |-> CASE c = u1 -> "startup" [] c = k1 -> "cancel"
                              [] c = t1 -> "retry"  [] c = s1 -> "status"
                              [] OTHER  -> "execute"]
MCProcOf == [c \in Call |-> CASE c = e1 -> p1 [] c = u1 -> p3 [] OTHER -> p2]

\* The view forgets what no later action reads: the local variables of a call
\* that has ended, whose process is dead, or that overwrites them first.
Now(c)     == IF Live(c) \/ pc[c] = "idle" THEN pc[c] ELSE "done"
InLoop     == {"wait", "next", "start", "run", "output", "stepDone", "jobDone", "failed"}
KeepsFence(c) == Now(c) \notin {"idle", "acquire", "skill", "conclude", "stuck", "done"}
Returning(c)  == /\ KindOf[c] = "execute"
                 /\ Now(c) \in {"return", "returnClear", "returnUnlock", "conclude"}
KeepsMine(c)  == \/ Now(c) \in InLoop \cup {"inspected", "settle", "claim", "cancelStep", "cancelJob"}
                 \/ Returning(c)
KeepsSteps(c) == Now(c) \in InLoop \cup {"reload", "cancelStep"}
KeepsHeld(c)  == Now(c) \in {"wait", "run", "inspected", "skill", "ownerLock", "ownerJob",
                             "clear", "returnClear", "cancelStep", "cancelJob"}

View ==
  <<up, disk, budget, starts, overlap, clobbered, undone,
    [c \in Call |-> <<Now(c), pc[c] \in InFence,
                      IF KeepsFence(c) THEN <<fence[c], c \in displaced>> ELSE NoCopy,
                      IF KeepsMine(c) THEN mine[c] ELSE NoCopy,
                      IF KeepsSteps(c) THEN steps[c] ELSE NoCopy,
                      IF KeepsHeld(c) THEN <<held[c], c \in aborted>> ELSE NoCopy>>]>>

\* The bounds of the run: which calls come together, and with which budget.  Three
\* calls meet as long as no write has brought back an old owner (or, with a budget of
\* one attempt, anything old), no two calls are inside owner.fence.lock, no Skill is
\* found outdated and no release throws; two calls meet without these bounds.  The
\* process of u1 dies only where a cancellation follows.
Begun == {c \in Call : pc[c] # "idle"}
Quiet == ~overlap /\ ~undone /\ \A c \in Call : pc[c] \notin {"skill", "stuck"}

Scenario ==
  \/ /\ budget = 2 /\ p3 \in up /\ Quiet
     /\ \E cs \in {{e1, e2, u1}, {e1, e2, t1}, {e1, s1, t1}, {e1, u1, t1}} : Begun \subseteq cs
  \/ /\ budget = 1 /\ p3 \in up /\ Quiet /\ ~clobbered
     /\ \E c \in {u1, k1} : Begun \subseteq {e1, e2, c}
  \/ budget = 1 /\ Quiet /\ ~clobbered /\ Begun \subseteq {e1, u1, k1}
  \/ budget = 1 /\ p3 \in up /\ \E c \in {e2, u1, t1} : Begun \subseteq {e1, c}

\* The run on interrupted steps leaves out what a racing inspection can undo.
Steady == Quiet /\ ~clobbered /\ budget = 2
=============================================================================
