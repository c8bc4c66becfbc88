----------------------------- MODULE MergeRuns -----------------------------
(***************************************************************************)
(* mergeFiles over any baseline, disk and unsaved tree, and once more with *)
(* the first result as the unsaved side: what happens when the app stops   *)
(* after the merged files were written and before the merge was recorded.  *)
(***************************************************************************)
EXTENDS Naturals, ThreeWayMerge

CONSTANT FileValues     \* what a path can hold, Absent included

VARIABLES baselineTree, diskTree, unsavedTree, whenDeleted, merged

inputs == <<baselineTree, diskTree, unsavedTree, whenDeleted>>
mergeVars == <<inputs, merged>>

Trees == [Paths -> FileValues]
Nothing == [files |-> NoFiles, conflicts |-> {}, dropped |-> {}, runs |-> 0]

MergeInit ==
    /\ baselineTree \in Trees /\ diskTree \in Trees /\ unsavedTree \in Trees
    /\ whenDeleted \in {"drop", "conflict"}
    /\ merged = Nothing

Merge(mine) ==
    LET m == MergeFiles(baselineTree, diskTree, mine, whenDeleted)
    IN  merged' = [files |-> m.files, conflicts |-> m.conflicts, dropped |-> m.dropped, runs |-> merged.runs + 1]

MergeNext ==
    /\ merged.runs < 2
    /\ Merge(IF merged.runs = 0 THEN unsavedTree ELSE merged.files)
    /\ UNCHANGED inputs

MergeSpec == MergeInit /\ [][MergeNext]_mergeVars

Flagged(p) == p \in merged.conflicts \cup merged.dropped

(* "sync must never lose a change silently": a change of either side that  *)
(* the merged file does not carry is in the conflicts or in the dropped.   *)
NothingLostSilently ==
    merged.runs = 1 =>
        \A p \in Paths : KeepsOrFlags(p, baselineTree[p], diskTree[p], unsavedTree[p], merged.files[p], Flagged(p))

(* Two desktops that merge the same two changes in opposite roles are      *)
(* asked about the same files.                                             *)
SidesAgree ==
    merged.runs = 1 /\ whenDeleted = "conflict" =>
        merged.conflicts = MergeFiles(baselineTree, unsavedTree, diskTree, whenDeleted).conflicts

(* Merging again over a merged tree changes no file.                       *)
RemergeStable ==
    [][merged.runs = 1 => merged'.files = merged.files]_mergeVars
=============================================================================
