---- MODULE MCMkdirLock ----
EXTENDS MkdirLock
CONSTANTS p1, p2, c1, c2, c3
MCProcOf == [c \in Call |-> IF c = c1 THEN p1 ELSE p2]
MCRules == {GovernorLock, ComponentLock, PolicyLock, AcceptanceLock, RunOwnerLock, GoalLock,
            ReportLock, ActivityLock, OutcomeLock, OfficeLock}
====
