--------------------------- MODULE MCMessageStore ---------------------------
(***************************************************************************)
(* Instances of MessageStore.  m1 was written by appendDurableMessageSync  *)
(* or by an append that died; m2 has the same dedupe key.                  *)
(***************************************************************************)
EXTENDS MessageStore, TLC

CONSTANTS m1, m2, p1, p2, direct, append, poll, again

Messages == {m1, m2}
SameKey  == [m \in Messages |-> "key"]
Kinds    == [c \in Call |-> CASE c = direct -> "dispatchById"
                              [] c = append -> "append" [] OTHER -> "dispatchOne"]
Target   == [c \in Call |-> CASE c = direct -> m1 [] c = append -> m2 [] OTHER -> NoMsg]

\* A publish in p1 appends and dispatches m1 by id; the drains of p2 share their owner.
Place    == [c \in Call |-> IF c \in {direct, append} THEN p1 ELSE p2]
Owners   == [c \in Call |-> IF c \in {direct, append} THEN "p1" ELSE "p2"]

\* dispatchOne of drainPending in turn, and a publish that appends and dispatches.
InTurn   == [c \in Call |-> CASE c = again -> poll [] c = direct -> append [] OTHER -> NoCall]
AtOnce   == [c \in Call |-> NoCall]

\* What a finished call remembers is forgotten.
Busy(c, f, none) == IF at[c] = "done" THEN none ELSE f[c]
View == <<up, files, at, mem, expired, stale, clobbered, seen, starts, claims, handled,
          [c \in Call |-> <<Busy(c, op, "append"), Busy(c, msg, NoMsg)>>], token>>
=============================================================================
