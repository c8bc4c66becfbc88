--------------------------- MODULE MCCommitStore ---------------------------
(* Small instances of CommitStore for TLC. *)
EXTENDS CommitStore, TLC

CONSTANTS push1, push2, key, s1, s2

(* Two requests arrive at one process and one at the other. *)
MCHome == (push1 :> s1) @@ (push2 :> s1) @@ (key :> s2)
=============================================================================
