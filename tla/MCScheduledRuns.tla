-------------------------- MODULE MCScheduledRuns --------------------------
(* Small instances of ScheduledRuns for TLC. *)
EXTENDS ScheduledRuns, TLC

CONSTANTS a, b, a1, a2, b1

OneTenant == <<a>>
TwoTenants == <<a, b>>
MCTenantOf == [s \in Schedules |-> IF s = b1 THEN b ELSE a]
Symmetry == Permutations(Servers)
=============================================================================
