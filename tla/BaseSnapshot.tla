--------------------------- MODULE BaseSnapshot ---------------------------
(***************************************************************************)
(* What `ServerState` (host/src/sync/server-state.ts) promises the backend *)
(* that uses it: one snapshot, made of a head and the tree at that head,   *)
(* which `advanceBase` replaces in a single step together with the pending *)
(* commits the push published.  No crash is visible here.                  *)
(***************************************************************************)

CONSTANTS
    Heads,      \* commit ids of the server's history
    TreeAt,     \* [Heads -> trees]: the tree of each commit
    Commits,    \* ids of pending (local) commits
    NoTree,     \* no snapshot yet
    NoHead      \* no head yet, or none fetched

VARIABLES
    head,       \* the head the snapshot stands on
    files,      \* the snapshot's tree
    known,      \* the head the last fetch reported
    pending     \* the ids of the commits not yet pushed

vars == <<head, files, known, pending>>

Init ==
    /\ head = NoHead
    /\ files = NoTree
    /\ known = NoHead
    /\ pending = {}

(* initialize: the snapshot of a workspace just shared or joined. *)
Initialize(h) ==
    /\ files = NoTree
    /\ head' = h
    /\ files' = TreeAt[h]
    /\ UNCHANGED <<known, pending>>

(* appendPending *)
AppendPending(c) ==
    /\ files # NoTree
    /\ c \notin pending
    /\ pending' = pending \cup {c}
    /\ UNCHANGED <<head, files, known>>

(* update: a fetch records the server's head. *)
Update(h) ==
    /\ files # NoTree
    /\ known' = h
    /\ UNCHANGED <<head, files, pending>>

(* advanceBase: the snapshot moves to h and the commits of P leave pending. *)
AdvanceBase(h, P) ==
    /\ files # NoTree
    /\ head' = h
    /\ files' = TreeAt[h]
    /\ known' = h
    /\ pending' = pending \ P

Next ==
    \/ \E h \in Heads : Initialize(h) \/ Update(h)
    \/ \E c \in Commits : AppendPending(c)
    \/ \E h \in Heads, P \in SUBSET Commits : AdvanceBase(h, P)

Spec == Init /\ [][Next]_vars
=============================================================================
