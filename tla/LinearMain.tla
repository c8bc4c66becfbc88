----------------------------- MODULE LinearMain -----------------------------
(***************************************************************************)
(* What the server promises the desktops about a workspace's main branch:  *)
(* a push goes onto main whole and at once, on top of the very head it was *)
(* made on, or not at all; a push that was answered stays answered; one    *)
(* whose server stopped, or whose git was cut short, may have gone either  *)
(* way.                                                                    *)
(***************************************************************************)

CONSTANTS
    Ops,        \* pushes and key requests
    NoCommit,   \* the head of an unborn branch
    Nowhere     \* an operation that has read no head yet

VARIABLES
    head,       \* main: the operation whose last commit it names
    parent,     \* the head each operation stands on
    published,  \* the operations whose commits are on main
    outcome     \* the answer of each operation

vars == <<head, parent, published, outcome>>

Init ==
    /\ head = NoCommit
    /\ parent = [op \in Ops |-> Nowhere]
    /\ published = {}
    /\ outcome = [op \in Ops |-> "open"]

(* The operation stands on a head it has read or fetched, for good. *)
Stand(op, h) ==
    /\ op \notin published /\ parent[op] = Nowhere
    /\ h \in published \cup {NoCommit}
    /\ parent' = [parent EXCEPT ![op] = h]
    /\ UNCHANGED <<head, published, outcome>>

(* Main moves by one operation, from the head that operation stands on. *)
Publish(op) ==
    /\ op \notin published
    /\ parent[op] = head
    /\ outcome[op] \in {"open", "gone"}
    /\ head' = op
    /\ published' = published \cup {op}
    /\ \/ UNCHANGED outcome
       \/ /\ outcome[op] = "open"
          /\ \E answer \in {"accepted", "failed"} : outcome' = [outcome EXCEPT ![op] = answer]
    /\ UNCHANGED parent

(* An error is answered for an operation that left nothing on main; only   *)
(* "refused" says so.                                                      *)
Refuse(op) ==
    /\ outcome[op] = "open" /\ op \notin published
    /\ \E answer \in {"refused", "failed"} : outcome' = [outcome EXCEPT ![op] = answer]
    /\ UNCHANGED <<head, parent, published>>

(* The server stopped: whoever was not answered never will be. *)
Vanish(ops) ==
    /\ \A op \in ops : outcome[op] = "open"
    /\ outcome' = [op \in Ops |-> IF op \in ops THEN "gone" ELSE outcome[op]]
    /\ UNCHANGED <<head, parent, published>>

Next ==
    \/ \E op \in Ops : Publish(op) \/ Refuse(op)
    \/ \E op \in Ops, h \in Ops \cup {NoCommit} : Stand(op, h)
    \/ \E ops \in SUBSET Ops : Vanish(ops)

Spec == Init /\ [][Next]_vars
=============================================================================
