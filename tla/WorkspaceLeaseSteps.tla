------------------------ MODULE WorkspaceLeaseSteps -------------------------
(***************************************************************************)
(* acquireWorkspaceLeaseSync of shared/execution-kernel.mjs at the grain   *)
(* of its file system calls, for processes whose calls overlap.            *)
(*                                                                         *)
(* A call makes the lease directory (mkdir fails when it exists), reads    *)
(* and then writes the fencing counter, and only then writes lease.json.   *)
(* A caller that finds the directory taken reads lease.json, treats a      *)
(* missing file as no lease at all, and moves the directory away.          *)
(***************************************************************************)
EXTENDS Naturals

CONSTANTS Proc,         \* processes that acquire the lease, one run each
          MaxAttempts,  \* rounds of one call, four in the code
          NoLease       \* lease.json is missing

VARIABLES
  up,       \* the processes that are alive
  dir,      \* whether the lease directory exists
  lease,    \* the process named by lease.json, or NoLease
  fencing,  \* the counter in write.fencing.json
  token,    \* the token each process computed for its lease
  pc,       \* the next file system call of each process
  attempt   \* rounds each process has used

vars == <<up, dir, lease, fencing, token, pc, attempt>>

Init ==
  /\ up = Proc
  /\ dir = FALSE
  /\ lease = NoLease
  /\ fencing = 0
  /\ token = [p \in Proc |-> 0]
  /\ pc = [p \in Proc |-> "mkdir"]
  /\ attempt = [p \in Proc |-> 1]

Goto(p, from, to) == /\ p \in up /\ pc[p] = from
                     /\ pc' = [pc EXCEPT ![p] = to]

\* fs.mkdirSync succeeds for one caller and reports EEXIST to the others.
Mkdir(p) ==
  /\ Goto(p, "mkdir", IF dir THEN "inspect" ELSE "readFence")
  /\ dir' = TRUE
  /\ UNCHANGED <<up, lease, fencing, token, attempt>>

\* nextFencingToken reads the counter in one call and writes it in another.
ReadFence(p) ==
  /\ Goto(p, "readFence", "writeFence")
  /\ token' = [token EXCEPT ![p] = fencing + 1]
  /\ UNCHANGED <<up, dir, lease, fencing, attempt>>

WriteFence(p) ==
  /\ Goto(p, "writeFence", "writeLease")
  /\ fencing' = token[p]
  /\ UNCHANGED <<up, dir, lease, token, attempt>>

\* atomicWriteJsonSync renames the file into place and makes the directory
\* again when somebody has moved it away.
WriteLease(p) ==
  /\ Goto(p, "writeLease", "held")
  /\ lease' = p
  /\ dir' = TRUE
  /\ UNCHANGED <<up, fencing, token, attempt>>

\* leaseActivity: the lease of a living process is active; that of a dead one
\* is active until its TTL is over, which may be now; no lease never is.
Inspect(p) ==
  /\ \/ lease # NoLease  /\ Goto(p, "inspect", "busy")
     \/ lease \notin up  /\ Goto(p, "inspect", "moveAway")
  /\ UNCHANGED <<up, dir, lease, fencing, token, attempt>>

\* fs.renameSync and fs.rmSync; ENOENT is ignored.  After the last round the
\* call throws.
MoveAway(p) ==
  /\ Goto(p, "moveAway", IF attempt[p] < MaxAttempts THEN "mkdir" ELSE "failed")
  /\ attempt' = [attempt EXCEPT ![p] = @ + 1]
  /\ dir' = FALSE
  /\ lease' = NoLease
  /\ UNCHANGED <<up, fencing, token>>

Crash(p) ==
  /\ p \in up
  /\ up' = up \ {p}
  /\ UNCHANGED <<dir, lease, fencing, token, pc, attempt>>

Next ==
  \E p \in Proc :
    \/ Mkdir(p) \/ ReadFence(p) \/ WriteFence(p) \/ WriteLease(p)
    \/ Inspect(p) \/ MoveAway(p) \/ Crash(p)

Spec == Init /\ [][Next]_vars

\* "retain the lease until its TTL expires so a brief startup/shutdown race
\* cannot admit two writers" (shared/execution-kernel.mjs:1213): two living
\* processes never both return from acquireWorkspaceLeaseSync with a lease
\* that neither has released.
NoTwoWriters ==
  \A p, q \in up : pc[p] = "held" /\ pc[q] = "held" => p = q
=============================================================================
