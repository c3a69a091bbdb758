------------------------- MODULE MCResourceGovernor -------------------------
(***************************************************************************)
(* Two processes and one contended workspace: a heavy writer in p1 with    *)
(* two nested calls, one that needs the docker pool and one that its       *)
(* parent covers, against another writer that needs the docker pool too    *)
(* and an urgent reader, both in p2.                                       *)
(***************************************************************************)
EXTENDS ResourceGovernor, TLC

CONSTANTS p1, p2, w1, n1, n2, w2, r1

MCReq == {w1, n1, n2, w2, r1}

Of(category, priority, mode, workspace, host, pools, parent) ==
  [category |-> category, priority |-> priority, mode |-> mode,
   workspace |-> workspace, host |-> host, pools |-> pools, parent |-> parent]

MCRequest ==
     w1 :> Of("heavy", 1, "write", "ws1", p1, {}, NoReq)
  @@ n1 :> Of("lightweight", 2, "write", "ws1", p1, {"docker_rebuild"}, w1)
  @@ n2 :> Of("lightweight", 1, "read", "ws1", p1, {}, w1)
  @@ w2 :> Of("standard", 1, "write", "ws1", p2, {"docker_rebuild"}, NoReq)
  @@ r1 :> Of("standard", 0, "read", "ws1", p2, {}, NoReq)

MCLimit == [pool \in Pool |->
              IF pool \in {"global_standard", "workspace_read"} THEN 2 ELSE 1]
=============================================================================
