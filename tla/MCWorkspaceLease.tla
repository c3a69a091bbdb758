-------------------------- MODULE MCWorkspaceLease --------------------------
(* Three runs in two processes; r1 and r2 share a process. *)
EXTENDS WorkspaceLease, TLC

CONSTANTS p1, p2, r1, r2, r3

MCHostOf == (r1 :> p1) @@ (r2 :> p1) @@ (r3 :> p2)
=============================================================================
