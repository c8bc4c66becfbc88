-------------------------- MODULE MCThreeWayMerge --------------------------
(***************************************************************************)
(* A small universe for MergeRuns: a manifest, whose writtenBy line `same` *)
(* overlooks, and a file compared whole.                                   *)
(***************************************************************************)
EXTENDS MergeRuns

CONSTANTS manifest, file, Plain

(* A content and the writtenBy line it carries. *)
MCPaths == {manifest, file}
MCValues == [body : Plain, writtenBy : {1, 2}] \cup {Absent}
MCCompared(p, v) == IF p = manifest /\ v # Absent THEN v.body ELSE v
=============================================================================
