---------------------------- MODULE CommitStore ----------------------------
(***************************************************************************)
(* The server's writers of one workspace's bare repository, in several     *)
(* server processes on one data volume:                                    *)
(*   - RepoStore.withLock: a queue per process, then the database's        *)
(*     advisory lock, and `drain` (server/src/repos/repo-store.ts);        *)
(*   - DatabaseRepoLock.hold and checkRepoLock: bounded waits, a lock lost *)
(*     with its connection while the operation runs, and the probe before  *)
(*     a step that moves a ref (server/src/operations/repo-lock.ts);       *)
(*   - CommitStore.appendCommits, called by the push and the key request   *)
(*     routes (server/src/sync/commit-store.ts, routes/commits.ts,         *)
(*     routes/key-requests.ts);                                            *)
(*   - git update-ref, which locks the ref with a file, compares and       *)
(*     renames (external).                                                 *)
(* A commit is named by the operation that made it: a request's commits    *)
(* reach main together or not at all.                                      *)
(***************************************************************************)
EXTENDS Naturals, Sequences, FiniteSets

CONSTANTS
    Ops,            \* requests: pushes and key requests
    KeyRequests,    \* the key requests among them: they read their parent in the lock
    Processes,      \* server processes
    Home,           \* [Ops -> Processes]: where each request arrives
    NoCommit,       \* main is unborn
    Nowhere,        \* the parent of a request that has not named or read one
    Nobody,         \* no holder
    MaxFaults       \* bound: lost connections and crashes

ASSUME HomeAssumption == Home \in [Ops -> Processes]
ASSUME OpsAssumption == KeyRequests \subseteq Ops /\ NoCommit \notin Ops /\ Nobody \notin Ops
ASSUME NowhereAssumption == Nowhere \notin Ops \cup {NoCommit}

VARIABLES
    main,       \* refs/heads/main: the operation whose last commit it names
    refLock,    \* main.lock: who made it
    stale,      \* main.lock is older than STALE_REF_LOCK_MS
    lockOwner,  \* who holds the advisory lock, for the database
    queue,      \* RepoStore.queues: the chain of each process
    draining,   \* RepoStore.draining
    pc,         \* where each request stands
    parent,     \* the head it was made on
    outcome,    \* what it is answered
    \* history, for the properties only
    published,  \* operations main has named
    lostEarly,  \* operations that lost the lock before their last probe
    faults      \* number of faults so far

server == <<lockOwner, queue, draining>>
git == <<main, refLock, stale, published>>
vars == <<git, server, pc, parent, outcome, lostEarly, faults>>

Heads == Ops \cup {NoCommit}

(* In appendCommits, before the probe that guards update-ref ... *)
Preparing == {"enter", "clear", "resolve", "stage", "probe"}
Steps == Preparing \cup {"new", "queued", "locking", "updateRef", "refLocked", "unlock", "done"}

(* "failed" is a 500 for an update-ref that was cut short, "gone" no       *)
(* answer at all: both leave it open whether main moved.                   *)
Outcomes == {"open", "accepted", "refused", "failed", "gone"}

Init ==
    /\ main = NoCommit
    /\ refLock = Nobody
    /\ stale = FALSE
    /\ lockOwner = Nobody
    /\ queue = [i \in Processes |-> <<>>]
    /\ draining = [i \in Processes |-> FALSE]
    /\ pc = [op \in Ops |-> "new"]
    /\ parent = [op \in Ops |-> Nowhere]
    /\ outcome = [op \in Ops |-> "open"]
    /\ published = {}
    /\ lostEarly = {}
    /\ faults = 0

Goto(op, step) == pc' = [pc EXCEPT ![op] = step]
Answer(op, answer) == outcome' = [outcome EXCEPT ![op] = answer]

(* An error leaves the locked operation: 404, 409, 503 repo-lock-lost, a   *)
(* git error.  The lock is given back on the way out.                      *)
Fails(op) == Goto(op, "unlock") /\ Answer(op, "refused")

---------------------------------------------------------------------------
(* withLock and hold *)

(* A request arrives and joins the queue.  A push names the head its       *)
(* desktop stands on.                                                      *)
Arrive(op, h) ==
    /\ pc[op] = "new" /\ ~draining[Home[op]]
    /\ h \in published \cup {NoCommit}
    /\ op \in KeyRequests => h = NoCommit
    /\ parent' = IF op \in KeyRequests THEN parent ELSE [parent EXCEPT ![op] = h]
    /\ queue' = [queue EXCEPT ![Home[op]] = Append(@, op)]
    /\ Goto(op, "queued")
    /\ UNCHANGED <<git, lockOwner, draining, outcome, lostEarly, faults>>

(* 503 server-shutting-down *)
ShuttingDown(op) ==
    /\ pc[op] = "new" /\ draining[Home[op]]
    /\ Goto(op, "done") /\ Answer(op, "refused")
    /\ UNCHANGED <<git, server, parent, lostEarly, faults>>
(* Mutant: an operation leaves the queue when it starts, not when it ends. *)
ConnectLeaves(op) ==
    /\ pc[op] = "queued"
    /\ queue[Home[op]] # <<>> /\ Head(queue[Home[op]]) = op
    /\ queue' = [queue EXCEPT ![Home[op]] = Tail(@)]
    /\ Goto(op, "locking")
    /\ UNCHANGED <<git, lockOwner, draining, parent, outcome, lostEarly, faults>>

(* Its turn has come in this process: a connection of the lock pool. *)
Connect(op) ==
    /\ pc[op] = "queued"
    /\ queue[Home[op]] # <<>> /\ Head(queue[Home[op]]) = op
    /\ Goto(op, "locking")
    /\ UNCHANGED <<git, server, parent, outcome, lostEarly, faults>>

AcquireLock(op) ==
    /\ pc[op] = "locking" /\ lockOwner = Nobody
    /\ lockOwner' = op
    /\ Goto(op, "enter")
    /\ UNCHANGED <<git, queue, draining, parent, outcome, lostEarly, faults>>

(* 503 repo-busy: the wait for a connection of the pool, or for the lock,  *)
(* ran out; or the connection was lost before the lock was granted.        *)
LockTimeout(op) ==
    /\ pc[op] = "locking"
    /\ Fails(op)
    /\ UNCHANGED <<git, server, parent, lostEarly, faults>>
(* The lock is given back, or its connection destroyed; the queue goes on. *)
Unlock(op) ==
    /\ pc[op] = "unlock"
    /\ lockOwner' = IF lockOwner = op THEN Nobody ELSE lockOwner
    /\ queue' = [queue EXCEPT ![Home[op]] = Tail(@)]
    /\ Goto(op, "done")
    /\ UNCHANGED <<git, draining, parent, outcome, lostEarly, faults>>

(* The database drops the lock with its connection; the operation does not *)
(* know yet.                                                               *)
LoseLock(op) ==
    /\ lockOwner = op
    /\ faults < MaxFaults
    /\ faults' = faults + 1
    /\ lockOwner' = Nobody
    /\ lostEarly' = IF pc[op] \in Preparing THEN lostEarly \cup {op} ELSE lostEarly
    /\ UNCHANGED <<git, queue, draining, pc, parent, outcome>>
(* Mutant: a loss noticed after update-ref is answered as an error, too. *)
NoticeLossLate(op) ==
    /\ pc[op] \in Preparing \cup {"unlock"} /\ lockOwner # op
    /\ Fails(op)
    /\ UNCHANGED <<git, server, parent, lostEarly, faults>>

(* checkRepoLock before a git step: a lost lock is noticed when the last   *)
(* answer is old enough for a probe, and the operation fails.              *)
NoticeLoss(op) ==
    /\ pc[op] \in Preparing /\ lockOwner # op
    /\ Fails(op)
    /\ UNCHANGED <<git, server, parent, lostEarly, faults>>

---------------------------------------------------------------------------
(* The routes and appendCommits *)
(* Mutant: a push, too, takes whatever head it finds in the lock. *)
EnterRebases(op) ==
    /\ pc[op] = "enter"
    /\ parent' = [parent EXCEPT ![op] = main]
    /\ Goto(op, "clear")
    /\ UNCHANGED <<git, server, outcome, lostEarly, faults>>

(* The repository is there; a key request takes the head as its parent.    *)
Enter(op) ==
    /\ pc[op] = "enter"
    /\ parent' = IF op \in KeyRequests THEN [parent EXCEPT ![op] = main] ELSE parent
    /\ Goto(op, "clear")
    /\ UNCHANGED <<git, server, outcome, lostEarly, faults>>

(* The request is not valid: an admin-only path, a key that exists. *)
Invalid(op) ==
    /\ pc[op] = "enter"
    /\ Fails(op)
    /\ UNCHANGED <<git, server, parent, lostEarly, faults>>

(* A git command fails, or is killed by its timeout, before update-ref.    *)
GitFails(op) ==
    /\ pc[op] \in {"clear", "resolve", "stage"}
    /\ Fails(op)
    /\ UNCHANGED <<git, server, parent, lostEarly, faults>>

ClearStaleRefLock(op) ==
    /\ pc[op] = "clear"
    /\ refLock' = IF stale THEN Nobody ELSE refLock
    /\ stale' = FALSE
    /\ Goto(op, "resolve")
    /\ UNCHANGED <<main, published, server, parent, outcome, lostEarly, faults>>
(* Mutant: a request on an old head is tried again instead of refused. *)
ResolveRetries(op) ==
    /\ pc[op] = "resolve"
    /\ IF main = parent[op] THEN Goto(op, "stage") ELSE Goto(op, "clear")
    /\ UNCHANGED <<git, server, parent, outcome, lostEarly, faults>>

(* 409 unless the parent is the head *)
Resolve(op) ==
    /\ pc[op] = "resolve"
    /\ IF main = parent[op] THEN Goto(op, "stage") /\ UNCHANGED outcome ELSE Fails(op)
    /\ UNCHANGED <<git, server, parent, lostEarly, faults>>

(* The blobs, trees and commits, under a private index: nothing names them. *)
Stage(op) ==
    /\ pc[op] = "stage"
    /\ Goto(op, "probe")
    /\ UNCHANGED <<git, server, parent, outcome, lostEarly, faults>>
(* Mutant: the connection is not probed before update-ref. *)
ProbeSkipped(op) ==
    /\ pc[op] = "probe"
    /\ Goto(op, "updateRef")
    /\ UNCHANGED <<git, server, parent, outcome, lostEarly, faults>>

(* update-ref moves a ref: the connection is probed whatever its age. *)
Probe(op) ==
    /\ pc[op] = "probe" /\ lockOwner = op
    /\ Goto(op, "updateRef")
    /\ UNCHANGED <<git, server, parent, outcome, lostEarly, faults>>

---------------------------------------------------------------------------
(* git update-ref <main> <next> <expected> *)

(* main.lock is made, exclusively ... *)
LockRef(op) ==
    /\ pc[op] = "updateRef"
    /\ IF refLock = Nobody
       THEN refLock' = op /\ Goto(op, "refLocked") /\ UNCHANGED outcome
       ELSE Fails(op) /\ UNCHANGED refLock
    /\ UNCHANGED <<main, stale, published, server, parent, lostEarly, faults>>

(* ... main is compared with the parent, and the lock file becomes main.   *)
MoveRef(op) ==
    /\ pc[op] = "refLocked" /\ main = parent[op]
    /\ main' = op
    /\ published' = published \cup {op}
    /\ refLock' = Nobody
    /\ IF outcome[op] = "gone" THEN Goto(op, "done") /\ UNCHANGED outcome
       ELSE Goto(op, "unlock") /\ Answer(op, "accepted")
    /\ UNCHANGED <<stale, server, parent, lostEarly, faults>>

(* The swap is lost: 409. *)
LoseSwap(op) ==
    /\ pc[op] = "refLocked" /\ main # parent[op]
    /\ refLock' = Nobody
    /\ IF outcome[op] = "gone" THEN Goto(op, "done") /\ UNCHANGED outcome ELSE Fails(op)
    /\ UNCHANGED <<main, stale, published, server, parent, lostEarly, faults>>

(* The timeout of GitCli.run kills update-ref, before or after the rename. *)
UpdateRefTimesOut(op) ==
    /\ pc[op] = "refLocked" /\ outcome[op] = "open"
    /\ faults < MaxFaults
    /\ faults' = faults + 1
    /\ \/ main = parent[op] /\ main' = op /\ published' = published \cup {op}
       \/ UNCHANGED <<main, published>>
    /\ refLock' = Nobody
    /\ Goto(op, "unlock") /\ Answer(op, "failed")
    /\ UNCHANGED <<stale, server, parent, lostEarly>>

(* A minute passes over a lock file whose update-ref was killed; one that  *)
(* runs holds it for milliseconds.                                         *)
AgeRefLock ==
    /\ refLock # Nobody /\ ~stale
    /\ pc[refLock] # "refLocked"
    /\ stale' = TRUE
    /\ UNCHANGED <<main, refLock, published, server, pc, parent, outcome, lostEarly, faults>>

---------------------------------------------------------------------------
(* Shutdown and crash *)

Drain(i) ==
    /\ ~draining[i]
    /\ draining' = [draining EXCEPT ![i] = TRUE]
    /\ UNCHANGED <<git, lockOwner, queue, pc, parent, outcome, lostEarly, faults>>

(* Drained, the process ends and the next one starts. *)
Restart(i) ==
    /\ draining[i] /\ queue[i] = <<>>
    /\ draining' = [draining EXCEPT ![i] = FALSE]
    /\ UNCHANGED <<git, lockOwner, queue, pc, parent, outcome, lostEarly, faults>>

At(i) == {op \in Ops : Home[op] = i /\ pc[op] \notin {"new", "done"} /\ outcome[op] # "gone"}

(* The process is killed.  A git it started may run on by itself, or die   *)
(* with it and leave main.lock behind; an operation that was decided but   *)
(* not answered is never answered.                                         *)
Crash(i, survivors) ==
    /\ faults < MaxFaults
    /\ faults' = faults + 1
    /\ survivors \subseteq {op \in At(i) : pc[op] = "refLocked"}
    /\ pc' = [op \in Ops |-> IF op \in At(i) \ survivors THEN "done" ELSE pc[op]]
    /\ outcome' = [op \in Ops |-> IF op \in At(i) /\ outcome[op] = "open" THEN "gone" ELSE outcome[op]]
    /\ lockOwner' = IF lockOwner # Nobody /\ Home[lockOwner] = i THEN Nobody ELSE lockOwner
    /\ queue' = [queue EXCEPT ![i] = <<>>]
    /\ draining' = [draining EXCEPT ![i] = FALSE]
    /\ UNCHANGED <<git, parent, lostEarly>>

---------------------------------------------------------------------------

LockStep(op) ==
    \/ Connect(op) \/ AcquireLock(op) \/ LockTimeout(op) \/ Unlock(op)
    \/ NoticeLoss(op)

AppendStep(op) ==
    \/ Enter(op) \/ Invalid(op) \/ ClearStaleRefLock(op) \/ Resolve(op) \/ Stage(op) \/ Probe(op)
    \/ LockRef(op) \/ MoveRef(op) \/ LoseSwap(op) \/ GitFails(op) \/ UpdateRefTimesOut(op)

Next ==
    \/ \E op \in Ops, h \in Heads : Arrive(op, h)
    \/ \E op \in Ops : ShuttingDown(op) \/ LockStep(op) \/ AppendStep(op) \/ LoseLock(op)
    \/ AgeRefLock
    \/ \E i \in Processes : Drain(i) \/ Restart(i)
    \/ \E i \in Processes, survivors \in SUBSET Ops : Crash(i, survivors)

Spec == Init /\ [][Next]_vars

(* An operation goes on: git calls have a timeout, and so has every wait.  *)
FairSpec == Spec /\ \A op \in Ops : WF_vars(LockStep(op) \/ AppendStep(op))

---------------------------------------------------------------------------
(* Properties *)

TypeOK ==
    /\ main \in Heads
    /\ refLock \in Ops \cup {Nobody}
    /\ stale \in BOOLEAN
    /\ lockOwner \in Ops \cup {Nobody}
    /\ queue \in [Processes -> Seq(Ops)]
    /\ draining \in [Processes -> BOOLEAN]
    /\ pc \in [Ops -> Steps]
    /\ parent \in [Ops -> Heads \cup {Nowhere}]
    /\ outcome \in [Ops -> Outcomes]
    /\ published \in SUBSET Ops
    /\ lostEarly \in SUBSET Ops

(* "`update-ref`'s compare-and-swap is the second line of defence": with   *)
(* locks lost, processes killed and git running on without them, main is   *)
(* still the linear history the desktops are promised, and what they are   *)
(* answered is true of it.                                                 *)
Promised == INSTANCE LinearMain WITH head <- main
PromisedSpec == Promised!Spec

(* Closed under parents, from the head on. *)
HoldsHistory(S) == main \in S /\ \A op \in S \cap Ops : parent[op] \in S

(* The operations main consists of: its head and everything under it. *)
OnMain == {op \in Ops : \A S \in SUBSET Heads : HoldsHistory(S) => op \in S}

(* Following the parents from the head: a push that was accepted is in the *)
(* history for good, and one that was refused never is.                    *)
AnswersHold ==
    \A op \in Ops :
        /\ outcome[op] = "accepted" => op \in OnMain
        /\ outcome[op] = "refused" => op \notin OnMain

(* "always right before a step that moves a ref": an operation that lost   *)
(* the lock before its last probe never moves main.                        *)
NoMoveAfterLoss == lostEarly \cap published = {}

(* "this also waits for every held database lock to be released": a        *)
(* process that has drained has no operation left, and no lock.            *)
DrainWaits ==
    \A i \in Processes :
        draining[i] /\ queue[i] = <<>> =>
            /\ At(i) = {}
            /\ lockOwner # Nobody => Home[lockOwner] # i

(* Every request that was queued is decided and leaves the queue, whoever  *)
(* holds the lock and whatever was left behind.                            *)
Settles == \A op \in Ops : pc[op] = "queued" ~> pc[op] = "done"

---------------------------------------------------------------------------
(* The inductive invariant behind PromisedSpec and NoMoveAfterLoss.        *)

(* A push stands on a head from its arrival on, a key request once it has  *)
(* read one in the lock.                                                   *)
Standing ==
    \A op \in Ops :
        pc[op] = "new" \/ (op \in KeyRequests /\ pc[op] \in {"queued", "locking", "enter"})
        => parent[op] = Nowhere

HeadPublished == main \in published \cup {NoCommit}

(* "A fresh one may belong to a live `update-ref` in a second instance"    *)
(* (clearStaleRefLock): while an update-ref runs, main.lock is there and   *)
(* its own, whatever the others clear; only a left-over one grows old.     *)
RefLockHeld ==
    /\ \A op \in Ops : pc[op] = "refLocked" => refLock = op
    /\ stale => refLock # Nobody /\ pc[refLock] # "refLocked"

(* An operation is undecided until it is on its way out; the one git runs  *)
(* on without is the exception.                                            *)
Decided ==
    \A op \in Ops :
        /\ pc[op] \notin {"unlock", "done"} =>
              /\ outcome[op] = "open" \/ (pc[op] = "refLocked" /\ outcome[op] = "gone")
              /\ op \notin published
        /\ pc[op] = "unlock" => outcome[op] \in {"accepted", "refused", "failed"}
        /\ outcome[op] = "refused" => op \notin published

LossKept ==
    \A op \in lostEarly :
        /\ lockOwner # op
        /\ pc[op] \in Preparing \cup {"unlock", "done"}
        /\ op \notin published

(* An operation that left the queue's front behind it is still its head.   *)
AtFront ==
    \A op \in Ops :
        pc[op] \notin {"new", "queued", "done"} /\ outcome[op] # "gone" =>
            queue[Home[op]] # <<>> /\ Head(queue[Home[op]]) = op

IInv == TypeOK /\ Standing /\ HeadPublished /\ RefLockHeld /\ Decided /\ LossKept /\ AtFront

---------------------------------------------------------------------------
(* What DrainWaits and AnswersHold rest on, besides.                       *)

(* Whoever waits for its turn is in its process's queue, so that a queue   *)
(* which has emptied leaves nobody behind.                                 *)
Waiting ==
    \A op \in Ops : pc[op] = "queued" =>
        \E k \in 1 .. Len(queue[Home[op]]) : queue[Home[op]][k] = op

(* The lock is held by an operation between its grant and its release.     *)
OwnerRuns ==
    lockOwner # Nobody =>
        /\ pc[lockOwner] \notin {"new", "queued", "locking", "done"}
        /\ outcome[lockOwner] # "gone"

(* What main has named is all under its head, and nothing else is.         *)
Chained ==
    /\ \A op \in published : parent[op] \in published \cup {NoCommit}
    /\ \A S \in SUBSET Heads : HoldsHistory(S) => published \subseteq S
    /\ \A op \in Ops : outcome[op] = "accepted" => op \in published
=============================================================================
