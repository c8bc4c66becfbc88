----------------------------- MODULE SyncTrees -----------------------------
(***************************************************************************)
(* The trees sync works on: a value for every path, Absent where there is  *)
(* no such file, and the changes that lead from one tree to another        *)
(* (host/src/sync/server-state.ts).                                        *)
(***************************************************************************)

CONSTANTS
    Paths,      \* tree paths
    Absent      \* no such file

NoFiles == [p \in Paths |-> Absent]

(* diffTreeFiles, changesBetween *)
Diff(before, after) ==
    [p \in {q \in Paths : before[q] # after[q]} |-> after[p]]

(* applyChanges *)
Apply(files, changes) ==
    [p \in Paths |-> IF p \in DOMAIN changes THEN changes[p] ELSE files[p]]
=============================================================================
