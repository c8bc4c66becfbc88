-------------------------- MODULE MCWorkspaceSync --------------------------
(* Small instances of WorkspaceSync for TLC. *)
EXTENDS WorkspaceSync, TLC

CONSTANTS a, b

(* Main starts with every file there and the same content in it. *)
MCFirstTrees == {[p \in Paths |-> a]}
=============================================================================
