------------------------------ MODULE EventLog ------------------------------
(***************************************************************************)
(* What the report log of a task promises its writers: events are appended *)
(* one at a time, each under the next sequence number and a key of its     *)
(* own, nothing is taken back, and who is told that an event is in the log *)
(* finds it there.  The promise holds while the log is intact; it ceases   *)
(* to be when a writer loses its lock while it writes.                     *)
(***************************************************************************)
EXTENDS Naturals

CONSTANTS Writer, KeyOf

VARIABLES log, acked, intact

logVars == <<log, acked, intact>>

Event     == [seq : Nat, by : Writer]
Keys(L)   == {KeyOf[e.by] : e \in L}
Seqs(L)   == {e.seq : e \in L}
\* n is the highest sequence number in L, and 0 for the empty log.
IsLatest(L, n) == n \in Nat /\ (\A e \in L : e.seq <= n) /\ (n = 0 \/ n \in Seqs(L))

Init == log = {} /\ acked = {} /\ intact = TRUE

Append(w) ==
  /\ KeyOf[w] \notin Keys(log)
  /\ \E e \in log' : /\ e.by = w /\ IsLatest(log, e.seq - 1)
                     /\ log' = log \cup {e}
  /\ UNCHANGED <<acked, intact>>

Acknowledge ==
  /\ acked \subseteq acked' /\ acked' \subseteq log
  /\ UNCHANGED <<log, intact>>

\* From here on nothing is promised.
Break == intact' = FALSE

Next == \/ intact /\ ((\E w \in Writer : Append(w)) \/ Acknowledge)
        \/ Break

Spec == Init /\ [][Next]_logVars
=============================================================================
