---------------------------- MODULE MCHostLease ----------------------------
(* Small instances of HostLease for TLC. *)
EXTENDS HostLease, TLC

Symmetry == Permutations(Processes) \cup Permutations(Users)
=============================================================================
