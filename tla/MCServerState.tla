--------------------------- MODULE MCServerState ---------------------------
(* Small instances of ServerState for TLC. *)
EXTENDS ServerState, TLC

CONSTANTS h1, h2, t0, t1, t2, c1, c2, c3, i1, i2

MCHeads == {h1, h2}
MCTrees == {t0, t1, t2}
MCTreeAt == (Null :> t0) @@ (h1 :> t1) @@ (h2 :> t2)
MCCommits == {c1, c2, c3}
MCInstances == {i1, i2}

=============================================================================
