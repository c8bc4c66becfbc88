--------------------------- MODULE ThreeWayMerge ---------------------------
(***************************************************************************)
(* The per-file three-way merge of core/src/sync/three-way-merge.ts, over  *)
(* files given as functions from paths to values; Absent is the value of a *)
(* file that does not exist.  A value is compared whole, as in the code,   *)
(* except that `same` overlooks the writtenBy line of a manifest: Compared *)
(* maps a value to what `comparable` leaves of it.                         *)
(***************************************************************************)

EXTENDS SyncTrees

CONSTANT Compared(_, _)     \* Compared(path, value): the part `same` looks at

Same(p, a, b) == Compared(p, a) = Compared(p, b)
(* Mutant: the disk side is compared whole, without `comparable`. *)
BothChangedRaw(p, b, d, u) == ~Same(p, u, b) /\ d # b /\ ~Same(p, d, u)

(* Changed on both sides, differently. *)
BothChanged(p, b, d, u) == ~Same(p, u, b) /\ ~Same(p, d, b) /\ ~Same(p, d, u)

(* Deleted on disk, changed on my side: a conflict for sync, a dropped     *)
(* change for the recovery of unsaved edits.                               *)
Dropped(p, b, d, u, modifyDelete) ==
    BothChanged(p, b, d, u) /\ d = Absent /\ modifyDelete = "drop"
(* Mutant: a deletion gives way to a change without a word. *)
ConflictingUnlessDeleted(p, b, d, u, modifyDelete) ==
    BothChanged(p, b, d, u) /\ ~Dropped(p, b, d, u, modifyDelete) /\ Absent \notin {d, u}

Conflicting(p, b, d, u, modifyDelete) ==
    BothChanged(p, b, d, u) /\ ~Dropped(p, b, d, u, modifyDelete)
(* Mutant: a file in conflict goes back to the baseline. *)
TakeBaseline(p, b, d, u, modifyDelete) ==
    IF Conflicting(p, b, d, u, modifyDelete) THEN b
    ELSE IF Same(p, u, b) \/ Dropped(p, b, d, u, modifyDelete) THEN d
    ELSE u

(* The value the merged tree takes. *)
Take(p, b, d, u, modifyDelete) ==
    IF Same(p, u, b) \/ Dropped(p, b, d, u, modifyDelete) \/ (BothChanged(p, b, d, u) /\ u = Absent)
    THEN d
    ELSE u

(* mergeFiles(baseline, disk, unsaved, { modifyDelete }) *)
MergeFiles(baseline, disk, unsaved, modifyDelete) ==
    [files |-> [p \in Paths |-> Take(p, baseline[p], disk[p], unsaved[p], modifyDelete)],
     conflicts |-> {p \in Paths : Conflicting(p, baseline[p], disk[p], unsaved[p], modifyDelete)},
     dropped |-> {p \in Paths : Dropped(p, baseline[p], disk[p], unsaved[p], modifyDelete)},
     changed |-> \E p \in Paths :
                    ~Same(p, Take(p, baseline[p], disk[p], unsaved[p], modifyDelete), disk[p])]

(* The file `f` carries every change the two sides made, or is flagged.    *)
KeepsOrFlags(p, b, d, u, f, flagged) ==
    /\ ~Same(p, u, b) /\ ~Same(p, f, u) => flagged
    /\ ~Same(p, d, b) /\ ~Same(p, f, d) => flagged
=============================================================================
