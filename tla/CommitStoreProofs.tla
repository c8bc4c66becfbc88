------------------------- MODULE CommitStoreProofs -------------------------
(***************************************************************************)
(* Proofs about CommitStore, for any number of requests, processes and     *)
(* faults: the inductive invariant, that an operation which lost its lock  *)
(* before the last probe never moves main, and that the writers implement  *)
(* LinearMain: the compare-and-swap alone keeps main linear, whatever      *)
(* happens to the locks in front of it.                                    *)
(***************************************************************************)
EXTENDS CommitStore, TLAPS

(* The first state. *)
LEMMA InitIInv == Init => IInv
  <1> SUFFICES ASSUME Init PROVE IInv
    OBVIOUS
  <1> USE DEF Init
  <1>1. queue \in [Processes -> Seq(Ops)]
    OBVIOUS
  <1>2. draining \in [Processes -> BOOLEAN] /\ stale \in BOOLEAN
    OBVIOUS
  <1> QED
    BY <1>1, <1>2, HomeAssumption
     DEF IInv, TypeOK, Standing, HeadPublished, RefLockHeld, Decided, LossKept, AtFront,
         Heads, Steps, Preparing, Outcomes

(* A queue that grows at its end keeps its front. *)
LEMMA AppendKeepsHead ==
    ASSUME NEW S, NEW s \in Seq(S), NEW e \in S, s # <<>>
    PROVE  Append(s, e) # <<>> /\ Head(Append(s, e)) = Head(s)
  OBVIOUS

(* An undecided operation that fails gives its lock file back and is       *)
(* refused: used for every error path below.                               *)
LEMMA FailsIInv ==
    ASSUME IInv, NEW op \in Ops, pc[op] \notin {"new", "queued", "unlock", "done"},
           outcome[op] # "gone", Fails(op),
           UNCHANGED <<main, stale, published, lockOwner, queue, draining, parent, lostEarly>>,
           \/ pc[op] # "refLocked" /\ refLock' = refLock
           \/ pc[op] = "refLocked" /\ refLock' = Nobody
    PROVE  IInv'
  <1> USE HomeAssumption, OpsAssumption, NowhereAssumption
  <1>1. pc' = [pc EXCEPT ![op] = "unlock"] /\ outcome' = [outcome EXCEPT ![op] = "refused"]
    BY DEF Fails, Goto, Answer
  <1>2. op \notin published
    BY DEF IInv, Decided
  <1>3. TypeOK'
    BY <1>1 DEF IInv, TypeOK, Steps, Outcomes
  <1>4. Standing'
    BY <1>1 DEF IInv, TypeOK, Standing
  <1>5. HeadPublished'
    BY DEF IInv, HeadPublished
  <1>6. RefLockHeld'
    BY <1>1 DEF IInv, TypeOK, RefLockHeld
  <1>7. Decided'
    BY <1>1, <1>2 DEF IInv, TypeOK, Decided
  <1>8. LossKept'
    BY <1>1 DEF IInv, TypeOK, LossKept
  <1>9. AtFront'
    BY <1>1 DEF IInv, TypeOK, AtFront
  <1> QED
    BY <1>3, <1>4, <1>5, <1>6, <1>7, <1>8, <1>9 DEF IInv

(* withLock and hold: the steps that touch the queue or the advisory lock. *)
LEMMA LockIInv ==
    ASSUME IInv, NEW op \in Ops,
           \/ \E h \in Heads : Arrive(op, h)
           \/ ShuttingDown(op) \/ LockStep(op) \/ LoseLock(op)
    PROVE  IInv'
  <1> USE HomeAssumption, OpsAssumption, NowhereAssumption
      DEF IInv, TypeOK, Standing, HeadPublished, RefLockHeld, Decided, LossKept, AtFront,
          Heads, Steps, Preparing, Outcomes, Goto, Answer, Fails, git, server
  <1>1. ASSUME NEW h \in Heads, Arrive(op, h) PROVE IInv'
    <2>1. queue' \in [Processes -> Seq(Ops)]
      <3>1. Append(queue[Home[op]], op) \in Seq(Ops)
        OBVIOUS
      <3> QED
        BY <1>1, <3>1 DEF Arrive
    <2>2. \A i \in Processes : queue[i] # <<>> => queue'[i] # <<>> /\ Head(queue'[i]) = Head(queue[i])
      <3> SUFFICES ASSUME NEW i \in Processes, queue[i] # <<>>
                   PROVE  queue'[i] # <<>> /\ Head(queue'[i]) = Head(queue[i])
        OBVIOUS
      <3>1. queue[i] \in Seq(Ops)
        OBVIOUS
      <3>2. queue'[i] = queue[i] \/ queue'[i] = Append(queue[i], op)
        BY <1>1 DEF Arrive
      <3> HIDE DEF IInv, TypeOK
      <3>3. CASE queue'[i] = Append(queue[i], op)
        BY <3>1, <3>3, AppendKeepsHead
      <3> QED
        BY <3>2, <3>3
    <2>3. AtFront'
      BY <1>1, <2>2, ZenonT(60) DEF Arrive
    <2>4. TypeOK'
      BY <1>1, <2>1 DEF Arrive
    <2>5. HeadPublished' /\ RefLockHeld' /\ Standing'
      BY <1>1 DEF Arrive
    <2>6. Decided' /\ LossKept'
      BY <1>1 DEF Arrive
    <2> QED
      BY <2>3, <2>4, <2>5, <2>6
  <1>2. CASE ShuttingDown(op)
    BY <1>2 DEF ShuttingDown
  <1>3. CASE Connect(op)
    BY <1>3 DEF Connect
  <1>4. CASE AcquireLock(op)
    BY <1>4 DEF AcquireLock
  <1>5. CASE LockTimeout(op)
    <2>1. pc[op] \notin {"new", "queued", "unlock", "done", "refLocked"} /\ outcome[op] # "gone"
      BY <1>5 DEF LockTimeout
    <2> HIDE DEF IInv, Fails
    <2> QED
      BY <1>5, <2>1, FailsIInv DEF LockTimeout
  <1>6. CASE Unlock(op)
    <2>1. queue[Home[op]] # <<>> /\ Head(queue[Home[op]]) = op
      BY <1>6 DEF Unlock
    <2>2. queue' \in [Processes -> Seq(Ops)]
      <3>1. Tail(queue[Home[op]]) \in Seq(Ops)
        BY <2>1
      <3> QED
        BY <1>6, <3>1 DEF Unlock
    <2>3. AtFront'
      BY <1>6, <2>1 DEF Unlock
    <2>4. TypeOK'
      BY <1>6, <2>2 DEF Unlock
    <2>5. HeadPublished' /\ RefLockHeld' /\ Standing'
      BY <1>6 DEF Unlock
    <2>6. Decided' /\ LossKept'
      BY <1>6 DEF Unlock
    <2> QED
      BY <2>3, <2>4, <2>5, <2>6
  <1>7. CASE NoticeLoss(op)
    <2>1. pc[op] \notin {"new", "queued", "unlock", "done", "refLocked"} /\ outcome[op] # "gone"
      BY <1>7 DEF NoticeLoss
    <2> HIDE DEF IInv, Fails
    <2> QED
      BY <1>7, <2>1, FailsIInv DEF NoticeLoss
  <1>8. CASE LoseLock(op)
    <2>1. TypeOK'
      BY <1>8 DEF LoseLock
    <2>2. HeadPublished'
      BY <1>8 DEF LoseLock
    <2>3. Standing'
      BY <1>8 DEF LoseLock
    <2>4. RefLockHeld'
      BY <1>8 DEF LoseLock
    <2>5. Decided'
      BY <1>8 DEF LoseLock
    <2>6. LossKept'
      <3>1. CASE pc[op] \in Preparing
        <4>1. op \notin published /\ lockOwner' = Nobody /\ lostEarly' = lostEarly \cup {op}
          BY <1>8, <3>1 DEF LoseLock
        <4>2. pc' = pc /\ published' = published
          BY <1>8 DEF LoseLock
        <4> QED
          BY <3>1, <4>1, <4>2
      <3>2. CASE pc[op] \notin Preparing
        BY <1>8, <3>2 DEF LoseLock
      <3> QED
        BY <3>1, <3>2
    <2>7. AtFront'
      BY <1>8 DEF LoseLock
    <2> QED
      BY <2>1, <2>2, <2>3, <2>4, <2>5, <2>6, <2>7
  <1> QED
    BY <1>1, <1>2, <1>3, <1>4, <1>5, <1>6, <1>7, <1>8 DEF LockStep

(* The routes, appendCommits and update-ref. *)
LEMMA AppendIInv ==
    ASSUME IInv, NEW op \in Ops, AppendStep(op)
    PROVE  IInv'
  <1> USE HomeAssumption, OpsAssumption, NowhereAssumption
      DEF IInv, TypeOK, Standing, HeadPublished, RefLockHeld, Decided, LossKept, AtFront,
          Heads, Steps, Preparing, Outcomes, Goto, Answer, Fails, git, server
  <1>1. CASE Enter(op)
    BY <1>1 DEF Enter
  <1>2. CASE Invalid(op)
    BY <1>2, FailsIInv DEF Invalid
  <1>3. CASE ClearStaleRefLock(op)
    BY <1>3 DEF ClearStaleRefLock
  <1>4. CASE Resolve(op)
    <2>1. CASE main = parent[op]
      <3>1. TypeOK'
        BY <1>4, <2>1, ZenonT(60) DEF Resolve
      <3>2. HeadPublished'
        BY <1>4, <2>1 DEF Resolve
      <3>3. Standing'
        BY <1>4, <2>1 DEF Resolve
      <3>4. RefLockHeld'
        BY <1>4, <2>1 DEF Resolve
      <3>5. Decided'
        BY <1>4, <2>1, ZenonT(60) DEF Resolve
      <3>6. LossKept'
        BY <1>4, <2>1 DEF Resolve
      <3>7. AtFront'
        BY <1>4, <2>1, ZenonT(60) DEF Resolve
      <3> QED
        BY <3>1, <3>2, <3>3, <3>4, <3>5, <3>6, <3>7
    <2>2. CASE main # parent[op]
      BY <1>4, <2>2, FailsIInv DEF Resolve
    <2> QED
      BY <2>1, <2>2
  <1>5. CASE Stage(op)
    BY <1>5 DEF Stage
  <1>6. CASE Probe(op)
    BY <1>6 DEF Probe
  <1>7. CASE LockRef(op)
    <2>1. CASE refLock = Nobody
      <3>1. TypeOK'
        BY <1>7, <2>1 DEF LockRef
      <3>2. HeadPublished'
        BY <1>7, <2>1 DEF LockRef
      <3>3. Standing'
        BY <1>7, <2>1 DEF LockRef
      <3>4. RefLockHeld'
        BY <1>7, <2>1 DEF LockRef
      <3>5. Decided'
        BY <1>7, <2>1 DEF LockRef
      <3>6. LossKept'
        BY <1>7, <2>1 DEF LockRef
      <3>7. AtFront'
        BY <1>7, <2>1 DEF LockRef
      <3> QED
        BY <3>1, <3>2, <3>3, <3>4, <3>5, <3>6, <3>7
    <2>2. CASE refLock # Nobody
      BY <1>7, <2>2, FailsIInv DEF LockRef
    <2> QED
      BY <2>1, <2>2
  <1>8. CASE MoveRef(op)
    <2>1. CASE outcome[op] = "gone"
      <3>1. TypeOK'
        BY <1>8, <2>1 DEF MoveRef
      <3>2. HeadPublished'
        BY <1>8, <2>1 DEF MoveRef
      <3>3. Standing'
        BY <1>8, <2>1 DEF MoveRef
      <3>4. RefLockHeld'
        BY <1>8, <2>1 DEF MoveRef
      <3>5. Decided'
        BY <1>8, <2>1 DEF MoveRef
      <3>6. LossKept'
        BY <1>8, <2>1 DEF MoveRef
      <3>7. AtFront'
        BY <1>8, <2>1, ZenonT(60) DEF MoveRef
      <3> QED
        BY <3>1, <3>2, <3>3, <3>4, <3>5, <3>6, <3>7
    <2>2. CASE outcome[op] # "gone"
      <3>1. TypeOK'
        BY <1>8, <2>2, ZenonT(60) DEF MoveRef
      <3>2. HeadPublished'
        BY <1>8, <2>2 DEF MoveRef
      <3>3. Standing'
        BY <1>8, <2>2 DEF MoveRef
      <3>4. RefLockHeld'
        BY <1>8, <2>2, ZenonT(60) DEF MoveRef
      <3>5. Decided'
        BY <1>8, <2>2 DEF MoveRef
      <3>6. LossKept'
        BY <1>8, <2>2 DEF MoveRef
      <3>7. AtFront'
        BY <1>8, <2>2, ZenonT(60) DEF MoveRef
      <3> QED
        BY <3>1, <3>2, <3>3, <3>4, <3>5, <3>6, <3>7
    <2> QED
      BY <2>1, <2>2
  <1>9. CASE LoseSwap(op)
    <2>1. CASE outcome[op] = "gone"
      <3>1. TypeOK'
        BY <1>9, <2>1, ZenonT(60) DEF LoseSwap
      <3>2. HeadPublished'
        BY <1>9, <2>1 DEF LoseSwap
      <3>3. Standing'
        BY <1>9, <2>1 DEF LoseSwap
      <3>4. RefLockHeld'
        BY <1>9, <2>1, ZenonT(60) DEF LoseSwap
      <3>5. Decided'
        BY <1>9, <2>1 DEF LoseSwap
      <3>6. LossKept'
        BY <1>9, <2>1 DEF LoseSwap
      <3>7. AtFront'
        BY <1>9, <2>1, ZenonT(60) DEF LoseSwap
      <3> QED
        BY <3>1, <3>2, <3>3, <3>4, <3>5, <3>6, <3>7
    <2>2. CASE outcome[op] # "gone"
      BY <1>9, <2>2, FailsIInv DEF LoseSwap
    <2> QED
      BY <2>1, <2>2
  <1>10. CASE GitFails(op)
    BY <1>10, FailsIInv DEF GitFails
  <1>11. CASE UpdateRefTimesOut(op)
    <2>1. CASE main' = op /\ published' = published \cup {op}
      <3>1. TypeOK'
        BY <1>11, <2>1 DEF UpdateRefTimesOut
      <3>2. HeadPublished'
        BY <1>11, <2>1 DEF UpdateRefTimesOut
      <3>3. Standing'
        BY <1>11, <2>1 DEF UpdateRefTimesOut
      <3>4. RefLockHeld'
        BY <1>11, <2>1 DEF UpdateRefTimesOut
      <3>5. Decided'
        BY <1>11, <2>1 DEF UpdateRefTimesOut
      <3>6. LossKept'
        BY <1>11, <2>1 DEF UpdateRefTimesOut
      <3>7. AtFront'
        BY <1>11, <2>1 DEF UpdateRefTimesOut
      <3> QED
        BY <3>1, <3>2, <3>3, <3>4, <3>5, <3>6, <3>7
    <2>2. CASE UNCHANGED <<main, published>>
      <3>1. TypeOK'
        BY <1>11, <2>2 DEF UpdateRefTimesOut
      <3>2. HeadPublished'
        BY <1>11, <2>2 DEF UpdateRefTimesOut
      <3>3. Standing'
        BY <1>11, <2>2 DEF UpdateRefTimesOut
      <3>4. RefLockHeld'
        BY <1>11, <2>2 DEF UpdateRefTimesOut
      <3>5. Decided'
        BY <1>11, <2>2 DEF UpdateRefTimesOut
      <3>6. LossKept'
        BY <1>11, <2>2 DEF UpdateRefTimesOut
      <3>7. AtFront'
        BY <1>11, <2>2 DEF UpdateRefTimesOut
      <3> QED
        BY <3>1, <3>2, <3>3, <3>4, <3>5, <3>6, <3>7
    <2> QED
      BY <1>11, <2>1, <2>2 DEF UpdateRefTimesOut
  <1> QED
    BY <1>1, <1>2, <1>3, <1>4, <1>5, <1>6, <1>7, <1>8, <1>9, <1>10, <1>11
    DEF AppendStep

(* A process is killed: what runs on is only a git with its own ref lock.  *)
LEMMA CrashIInv ==
    ASSUME IInv, NEW i \in Processes, NEW survivors \in SUBSET Ops, Crash(i, survivors)
    PROVE  IInv'
  <1> USE HomeAssumption, OpsAssumption, NowhereAssumption
      DEF IInv, TypeOK, Standing, HeadPublished, RefLockHeld, Decided, LossKept, AtFront,
          Heads, Steps, Preparing, Outcomes, git, Crash, At
  <1>1. queue' \in [Processes -> Seq(Ops)]
    OBVIOUS
  <1>2. pc' \in [Ops -> Steps] /\ outcome' \in [Ops -> Outcomes]
    OBVIOUS
  <1>3. TypeOK'
    BY <1>1, <1>2
  <1>4. RefLockHeld' /\ Standing'
    OBVIOUS
  <1>5. Decided'
    OBVIOUS
  <1>6. LossKept'
    OBVIOUS
  <1>7. AtFront'
    OBVIOUS
  <1> QED
    BY <1>3, <1>4, <1>5, <1>6, <1>7

LEMMA NextIInv == IInv /\ [Next]_vars => IInv'
  <1> SUFFICES ASSUME IInv, [Next]_vars PROVE IInv'
    OBVIOUS
  <1>1. CASE AgeRefLock
    BY <1>1, OpsAssumption
       DEF AgeRefLock, IInv, TypeOK, Standing, HeadPublished, RefLockHeld, Decided, LossKept, AtFront, server
  <1>2. ASSUME NEW i \in Processes, Drain(i) \/ Restart(i) PROVE IInv'
    <2>1. draining' \in [Processes -> BOOLEAN]
      BY <1>2, Zenon DEF Drain, Restart, IInv, TypeOK
    <2> QED
      BY <1>2, <2>1
       DEF Drain, Restart, IInv, TypeOK, Standing, HeadPublished, RefLockHeld, Decided, LossKept, AtFront, git
  <1>3. CASE UNCHANGED vars
    BY <1>3
       DEF vars, git, server, IInv, TypeOK, Standing, HeadPublished, RefLockHeld, Decided, LossKept, AtFront
  <1> QED
    BY <1>1, <1>2, <1>3, LockIInv, AppendIInv, CrashIInv DEF Next

(* The invariant of the writers: holds in every reachable state, with any  *)
(* number of processes, lost connections and crashes.                      *)
THEOREM Inductive == Spec => []IInv
  BY InitIInv, NextIInv, PTL DEF Spec

(* checkRepoLock's probe before update-ref: an operation that lost the     *)
(* advisory lock before that probe never moves main.                       *)
THEOREM LossStopsTheMove == Spec => []NoMoveAfterLoss
  <1>1. IInv => NoMoveAfterLoss
    BY DEF IInv, LossKept, NoMoveAfterLoss
  <1> QED
    BY <1>1, Inductive, PTL

---------------------------------------------------------------------------
(* The writers implement LinearMain. *)

(* A step that leaves main, the parents and the answers alone stutters. *)
LEMMA PromisedStutters ==
    ASSUME UNCHANGED <<main, parent, published, outcome>>
    PROVE  UNCHANGED Promised!vars
  BY DEF Promised!vars

(* An error is answered for an undecided operation that is not on main.    *)
LEMMA FailsRefines ==
    ASSUME IInv, NEW op \in Ops, pc[op] \notin {"unlock", "done"}, outcome[op] # "gone",
           Answer(op, "refused"), UNCHANGED <<main, parent, published>>
    PROVE  Promised!Refuse(op)
  BY DEF IInv, TypeOK, Decided, Answer, Promised!Refuse

LEMMA LockRefines ==
    ASSUME IInv, NEW op \in Ops,
           \/ \E h \in Heads : Arrive(op, h)
           \/ ShuttingDown(op) \/ LockStep(op) \/ LoseLock(op)
    PROVE  [Promised!Next]_(Promised!vars)
  <1> USE DEF Fails, git, server
  <1>1. ASSUME NEW h \in Heads, Arrive(op, h) PROVE [Promised!Next]_(Promised!vars)
    <2>1. CASE op \notin KeyRequests
      <3>1. Promised!Stand(op, h)
        BY <1>1, <2>1 DEF Arrive, IInv, Decided, Standing, Promised!Stand
      <3> QED
        BY <3>1 DEF Promised!Next, Heads
    <2>2. CASE op \in KeyRequests
      BY <1>1, <2>2, PromisedStutters DEF Arrive
    <2> QED
      BY <2>1, <2>2
  <1>2. CASE ShuttingDown(op)
    <2>1. Promised!Refuse(op)
      BY <1>2 DEF ShuttingDown, IInv, TypeOK, Decided, Answer, Promised!Refuse
    <2> QED
      BY <2>1 DEF Promised!Next
  <1>3. CASE Connect(op) \/ AcquireLock(op) \/ Unlock(op) \/ LoseLock(op)
    BY <1>3, PromisedStutters DEF Connect, AcquireLock, Unlock, LoseLock
  <1>4. CASE LockTimeout(op) \/ NoticeLoss(op)
    <2>1. Promised!Refuse(op)
      BY <1>4 DEF LockTimeout, NoticeLoss, Preparing, IInv, TypeOK, Decided, Answer, Promised!Refuse
    <2> QED
      BY <2>1 DEF Promised!Next
  <1> QED
    BY <1>1, <1>2, <1>3, <1>4 DEF LockStep

LEMMA AppendRefines ==
    ASSUME IInv, NEW op \in Ops, AppendStep(op)
    PROVE  [Promised!Next]_(Promised!vars)
  <1> USE DEF Fails, git, server
  <1>1. CASE Enter(op)
    <2>1. CASE op \in KeyRequests
      <3>1. Promised!Stand(op, main)
        BY <1>1, <2>1 DEF Enter, IInv, HeadPublished, Decided, Standing, Promised!Stand
      <3>2. main \in Ops \cup {NoCommit}
        BY DEF IInv, TypeOK, Heads
      <3>3. PICK h \in Ops \cup {NoCommit} : h = main
        BY <3>2
      <3>4. Promised!Stand(op, h)
        BY <3>1, <3>3
      <3> QED
        BY <3>4 DEF Promised!Next
    <2>2. CASE op \notin KeyRequests
      BY <1>1, <2>2, PromisedStutters DEF Enter
    <2> QED
      BY <2>1, <2>2
  <1>2. CASE Invalid(op)
    <2>1. Promised!Refuse(op)
      BY <1>2, FailsRefines DEF Invalid, IInv, Decided
    <2> QED
      BY <2>1 DEF Promised!Next
  <1>3. CASE ClearStaleRefLock(op) \/ Stage(op) \/ Probe(op)
    BY <1>3, PromisedStutters DEF ClearStaleRefLock, Stage, Probe
  <1>4. CASE Resolve(op)
    <2>1. CASE main = parent[op]
      BY <1>4, <2>1, PromisedStutters DEF Resolve
    <2>2. CASE main # parent[op]
      <3>1. Promised!Refuse(op)
        BY <1>4, <2>2, FailsRefines DEF Resolve, IInv, Decided
      <3> QED
        BY <3>1 DEF Promised!Next
    <2> QED
      BY <2>1, <2>2
  <1>5. CASE LockRef(op)
    <2>1. CASE refLock = Nobody
      BY <1>5, <2>1, PromisedStutters DEF LockRef
    <2>2. CASE refLock # Nobody
      <3>1. Promised!Refuse(op)
        BY <1>5, <2>2, FailsRefines DEF LockRef, IInv, Decided
      <3> QED
        BY <3>1 DEF Promised!Next
    <2> QED
      BY <2>1, <2>2
  <1>6. CASE MoveRef(op)
    <2>1. op \notin published /\ outcome[op] \in {"open", "gone"}
      BY <1>6 DEF MoveRef, IInv, Decided
    <2>2. Promised!Publish(op)
      BY <1>6, <2>1 DEF MoveRef, Answer, Promised!Publish
    <2> QED
      BY <2>2 DEF Promised!Next
  <1>7. CASE LoseSwap(op)
    <2>1. CASE outcome[op] = "gone"
      BY <1>7, <2>1, PromisedStutters DEF LoseSwap
    <2>2. CASE outcome[op] # "gone"
      <3>1. Promised!Refuse(op)
        BY <1>7, <2>2, FailsRefines DEF LoseSwap
      <3> QED
        BY <3>1 DEF Promised!Next
    <2> QED
      BY <2>1, <2>2
  <1>8. CASE GitFails(op)
    <2>1. Promised!Refuse(op)
      BY <1>8, FailsRefines DEF GitFails, IInv, Decided
    <2> QED
      BY <2>1 DEF Promised!Next
  <1>9. CASE UpdateRefTimesOut(op)
    <2>1. op \notin published /\ outcome[op] = "open"
      BY <1>9 DEF UpdateRefTimesOut, IInv, Decided
    <2>2. CASE main' = op /\ published' = published \cup {op} /\ main = parent[op]
      <3>1. Promised!Publish(op)
        BY <1>9, <2>1, <2>2 DEF UpdateRefTimesOut, Answer, Promised!Publish
      <3> QED
        BY <3>1 DEF Promised!Next
    <2>3. CASE UNCHANGED <<main, published>>
      <3>1. Promised!Refuse(op)
        BY <1>9, <2>1, <2>3 DEF UpdateRefTimesOut, Answer, Promised!Refuse
      <3> QED
        BY <3>1 DEF Promised!Next
    <2> QED
      BY <1>9, <2>2, <2>3 DEF UpdateRefTimesOut
  <1> QED
    BY <1>1, <1>2, <1>3, <1>4, <1>5, <1>6, <1>7, <1>8, <1>9 DEF AppendStep

LEMMA CrashRefines ==
    ASSUME IInv, NEW i \in Processes, NEW survivors \in SUBSET Ops, Crash(i, survivors)
    PROVE  Promised!Next
  <1> DEFINE open == {op \in At(i) : outcome[op] = "open"}
  <1>1. open \in SUBSET Ops
    BY DEF At
  <1>2. outcome' = [op \in Ops |-> IF op \in open THEN "gone" ELSE outcome[op]]
    BY DEF Crash
  <1>3. Promised!Vanish(open)
    BY <1>1, <1>2 DEF Crash, git, Promised!Vanish
  <1> QED
    BY <1>1, <1>3 DEF Promised!Next

(* CommitStore's writers, with their locks lost, their processes killed    *)
(* and their git running on, implement LinearMain: main moves only from    *)
(* the head an operation was made on, and every answer is true of it.      *)
THEOREM Linear == Spec => PromisedSpec
  <1>1. Init => Promised!Init
    BY DEF Init, Promised!Init
  <1>2. IInv /\ [Next]_vars => [Promised!Next]_(Promised!vars)
    <2> SUFFICES ASSUME IInv, [Next]_vars PROVE [Promised!Next]_(Promised!vars)
      OBVIOUS
    <2>1. CASE AgeRefLock
      BY <2>1, PromisedStutters DEF AgeRefLock
    <2>2. ASSUME NEW i \in Processes, Drain(i) \/ Restart(i) PROVE UNCHANGED Promised!vars
      BY <2>2, PromisedStutters DEF Drain, Restart, git
    <2>3. CASE UNCHANGED vars
      BY <2>3, PromisedStutters DEF vars, git
    <2> QED
      BY <2>1, <2>2, <2>3, LockRefines, AppendRefines, CrashRefines DEF Next
  <1> QED
    BY <1>1, <1>2, Inductive, PTL DEF Spec, PromisedSpec, Promised!Spec
---------------------------------------------------------------------------
(* Drained processes: who waits is queued, who holds the lock runs. *)

(* Queues and step counters that stay as they are, or an operation that    *)
(* does not come to wait, keep everyone who waits in a queue.              *)
LEMMA WaitingStays ==
    ASSUME TypeOK, Waiting, NEW op \in Ops, UNCHANGED queue,
           NEW step \in Steps \ {"queued"}, Goto(op, step)
    PROVE  Waiting'
  BY DEF TypeOK, Waiting, Goto

(* What is in a queue is still there when another one joins behind it. *)
LEMMA AppendHolds ==
    ASSUME NEW S, NEW s \in Seq(S), NEW e \in S
    PROVE  /\ \A k \in 1 .. Len(s) : k \in 1 .. Len(Append(s, e)) /\ Append(s, e)[k] = s[k]
           /\ Len(Append(s, e)) \in 1 .. Len(Append(s, e)) /\ Append(s, e)[Len(Append(s, e))] = e
  OBVIOUS

(* Whoever is not the front of a queue is still in it when the front goes. *)
LEMMA TailHolds ==
    ASSUME NEW S, NEW s \in Seq(S), s # <<>>, NEW k \in 1 .. Len(s), s[k] # Head(s)
    PROVE  k - 1 \in 1 .. Len(Tail(s)) /\ Tail(s)[k - 1] = s[k]
  <1>1. k # 1
    OBVIOUS
  <1>2. Len(Tail(s)) = Len(s) - 1
    OBVIOUS
  <1> QED
    BY <1>1, <1>2

LEMMA WaitingNext == IInv /\ Waiting /\ [Next]_vars => Waiting'
  <1> SUFFICES ASSUME IInv, Waiting, [Next]_vars PROVE Waiting'
    OBVIOUS
  <1> USE HomeAssumption
  <1>0. TypeOK /\ pc \in [Ops -> Steps] /\ queue \in [Processes -> Seq(Ops)]
    BY DEF IInv, TypeOK
  <1>1. ASSUME NEW op \in Ops, NEW h \in Heads, Arrive(op, h) PROVE Waiting'
    <2> SUFFICES ASSUME NEW o \in Ops, pc'[o] = "queued"
                 PROVE  \E k \in 1 .. Len(queue'[Home[o]]) : queue'[Home[o]][k] = o
      BY DEF Waiting
    <2>1. queue[Home[op]] \in Seq(Ops) /\ queue' = [queue EXCEPT ![Home[op]] = Append(@, op)]
      BY <1>0, <1>1 DEF Arrive
    <2>2. CASE o = op
      <3>1. queue'[Home[o]] = Append(queue[Home[op]], op)
        BY <1>0, <2>1, <2>2
      <3> QED
        BY <2>1, <2>2, <3>1, AppendHolds
    <2>3. CASE o # op
      <3>1. pc[o] = "queued"
        BY <1>0, <1>1, <2>3 DEF Arrive, Goto
      <3>2. PICK k \in 1 .. Len(queue[Home[o]]) : queue[Home[o]][k] = o
        BY <3>1 DEF Waiting
      <3>3. CASE Home[o] = Home[op]
        <4>1. queue'[Home[o]] = Append(queue[Home[o]], op)
          BY <1>0, <2>1, <3>3
        <4> QED
          BY <2>1, <3>2, <3>3, <4>1, AppendHolds
      <3>4. CASE Home[o] # Home[op]
        <4>1. queue'[Home[o]] = queue[Home[o]]
          BY <1>0, <2>1, <3>4
        <4> QED
          BY <3>2, <4>1
      <3> QED
        BY <3>3, <3>4
    <2> QED
      BY <2>2, <2>3
  <1>2. ASSUME NEW op \in Ops, Unlock(op) PROVE Waiting'
    <2> SUFFICES ASSUME NEW o \in Ops, pc'[o] = "queued"
                 PROVE  \E k \in 1 .. Len(queue'[Home[o]]) : queue'[Home[o]][k] = o
      BY DEF Waiting
    <2>1. queue[Home[op]] \in Seq(Ops) /\ queue' = [queue EXCEPT ![Home[op]] = Tail(@)]
      BY <1>0, <1>2 DEF Unlock
    <2>2. o # op /\ pc[o] = "queued"
      BY <1>0, <1>2 DEF Unlock, Goto
    <2>3. queue[Home[op]] # <<>> /\ Head(queue[Home[op]]) = op
      BY <1>2 DEF Unlock, IInv, AtFront, Decided
    <2>4. PICK k \in 1 .. Len(queue[Home[o]]) : queue[Home[o]][k] = o
      BY <2>2 DEF Waiting
    <2>5. CASE Home[o] = Home[op]
      <3>1. queue'[Home[o]] = Tail(queue[Home[o]])
        BY <1>0, <2>1, <2>5
      <3>2. k - 1 \in 1 .. Len(Tail(queue[Home[o]])) /\ Tail(queue[Home[o]])[k - 1] = o
        BY <2>1, <2>2, <2>3, <2>4, <2>5, TailHolds
      <3> QED
        BY <3>1, <3>2
    <2>6. CASE Home[o] # Home[op]
      <3>1. queue'[Home[o]] = queue[Home[o]]
        BY <1>0, <2>1, <2>6
      <3> QED
        BY <2>4, <3>1
    <2> QED
      BY <2>5, <2>6
  <1>3. ASSUME NEW i \in Processes, NEW survivors \in SUBSET Ops, Crash(i, survivors) PROVE Waiting'
    <2> SUFFICES ASSUME NEW o \in Ops, pc'[o] = "queued"
                 PROVE  \E k \in 1 .. Len(queue'[Home[o]]) : queue'[Home[o]][k] = o
      BY DEF Waiting
    <2>1. pc[o] = "queued" /\ ~(o \in At(i) \ survivors)
      BY <1>0, <1>3 DEF Crash
    <2>2. o \notin survivors
      BY <1>3, <2>1 DEF Crash
    <2>3. outcome[o] # "gone"
      BY <2>1 DEF IInv, Decided
    <2>4. Home[o] # i
      BY <2>1, <2>2, <2>3 DEF At
    <2>5. queue'[Home[o]] = queue[Home[o]]
      BY <1>0, <1>3, <2>4 DEF Crash
    <2> QED
      BY <2>1, <2>5 DEF Waiting
  <1>4. ASSUME NEW op \in Ops,
               \/ ShuttingDown(op) \/ Connect(op) \/ AcquireLock(op) \/ LockTimeout(op)
               \/ NoticeLoss(op) \/ AppendStep(op)
        PROVE  Waiting'
    <2>1. UNCHANGED queue /\ \E step \in Steps \ {"queued"} : Goto(op, step)
      <3> USE DEF Steps, Preparing, Fails, server
      <3>1. CASE ShuttingDown(op) \/ Connect(op) \/ AcquireLock(op) \/ LockTimeout(op) \/ NoticeLoss(op)
        BY <3>1 DEF ShuttingDown, Connect, AcquireLock, LockTimeout, NoticeLoss
      <3>2. CASE Enter(op) \/ Invalid(op) \/ ClearStaleRefLock(op) \/ Resolve(op) \/ Stage(op) \/ Probe(op)
        BY <3>2 DEF Enter, Invalid, ClearStaleRefLock, Resolve, Stage, Probe
      <3>3. CASE LockRef(op) \/ MoveRef(op) \/ LoseSwap(op) \/ GitFails(op) \/ UpdateRefTimesOut(op)
        BY <3>3 DEF LockRef, MoveRef, LoseSwap, GitFails, UpdateRefTimesOut
      <3> QED
        BY <1>4, <3>1, <3>2, <3>3 DEF AppendStep
    <2> QED
      BY <1>0, <2>1, WaitingStays
  <1>5. ASSUME UNCHANGED <<pc, queue>> PROVE Waiting'
    BY <1>5 DEF Waiting
  <1>6. ASSUME NEW op \in Ops, LoseLock(op) PROVE Waiting'
    BY <1>5, <1>6 DEF LoseLock
  <1>7. ASSUME NEW i \in Processes, Drain(i) \/ Restart(i) PROVE Waiting'
    BY <1>5, <1>7 DEF Drain, Restart
  <1>8. CASE AgeRefLock \/ UNCHANGED vars
    BY <1>5, <1>8 DEF AgeRefLock, vars, server
  <1> QED
    BY <1>1, <1>2, <1>3, <1>4, <1>6, <1>7, <1>8 DEF Next, LockStep

(* An operation that goes on, decided or not, still runs. *)
LEMMA OwnerStays ==
    ASSUME TypeOK, OwnerRuns, NEW op \in Ops, UNCHANGED lockOwner,
           NEW step \in Steps, Goto(op, step),
           \/ lockOwner # op
           \/ step \notin {"new", "queued", "locking", "done"} /\ outcome'[op] # "gone",
           \A o \in Ops : o # op => outcome'[o] = outcome[o]
    PROVE  OwnerRuns'
  BY OpsAssumption DEF TypeOK, OwnerRuns, Goto

LEMMA OwnerNext == IInv /\ OwnerRuns /\ [Next]_vars => OwnerRuns'
  <1> SUFFICES ASSUME IInv, OwnerRuns, [Next]_vars PROVE OwnerRuns'
    OBVIOUS
  <1> USE HomeAssumption, OpsAssumption
  <1>0. /\ TypeOK /\ pc \in [Ops -> Steps] /\ outcome \in [Ops -> Outcomes]
        /\ lockOwner \in Ops \cup {Nobody}
    BY DEF IInv, TypeOK
  <1>1. ASSUME NEW op \in Ops,
               \/ \E h \in Heads : Arrive(op, h)
               \/ ShuttingDown(op) \/ Connect(op) \/ LockTimeout(op) \/ NoticeLoss(op) \/ AppendStep(op)
        PROVE  OwnerRuns'
    <2> DEFINE quiet == {"new", "queued", "locking", "done"}
    <2> USE DEF Steps, Preparing, Fails, Answer, server
    <2>1. UNCHANGED lockOwner /\ \A o \in Ops : o # op => outcome'[o] = outcome[o]
      <3>1. CASE \/ \E h \in Heads : Arrive(op, h)
                 \/ ShuttingDown(op) \/ Connect(op) \/ LockTimeout(op) \/ NoticeLoss(op)
        BY <1>0, <3>1 DEF Arrive, ShuttingDown, Connect, LockTimeout, NoticeLoss
      <3>2. CASE Enter(op) \/ Invalid(op) \/ ClearStaleRefLock(op) \/ Resolve(op) \/ Stage(op) \/ Probe(op)
        BY <1>0, <3>2 DEF Enter, Invalid, ClearStaleRefLock, Resolve, Stage, Probe
      <3>3. CASE LockRef(op) \/ MoveRef(op) \/ LoseSwap(op) \/ GitFails(op) \/ UpdateRefTimesOut(op)
        BY <1>0, <3>3 DEF LockRef, MoveRef, LoseSwap, GitFails, UpdateRefTimesOut
      <3> QED
        BY <1>1, <3>1, <3>2, <3>3 DEF AppendStep
    <2>2. \E step \in Steps : /\ Goto(op, step)
                              /\ lockOwner # op \/ (step \notin quiet /\ outcome'[op] # "gone")
      <3>1. CASE (\E h \in Heads : Arrive(op, h)) \/ ShuttingDown(op) \/ Connect(op)
        BY <1>0, <3>1 DEF Arrive, ShuttingDown, Connect, OwnerRuns
      <3>2. CASE LockTimeout(op) \/ NoticeLoss(op) \/ Invalid(op) \/ GitFails(op)
        BY <1>0, <3>2 DEF LockTimeout, NoticeLoss, Invalid, GitFails
      <3>3. CASE Enter(op) \/ ClearStaleRefLock(op) \/ Stage(op) \/ Probe(op)
        BY <1>0, <3>3 DEF Enter, ClearStaleRefLock, Stage, Probe, OwnerRuns
      <3>4. CASE Resolve(op)
        BY <1>0, <3>4 DEF Resolve, OwnerRuns
      <3>5. CASE LockRef(op)
        BY <1>0, <3>5 DEF LockRef, OwnerRuns
      <3>6. CASE MoveRef(op)
        BY <1>0, <3>6 DEF MoveRef, OwnerRuns
      <3>7. CASE LoseSwap(op)
        BY <1>0, <3>7 DEF LoseSwap, OwnerRuns
      <3>8. CASE UpdateRefTimesOut(op)
        BY <1>0, <3>8 DEF UpdateRefTimesOut, OwnerRuns
      <3> QED
        BY <1>1, <3>1, <3>2, <3>3, <3>4, <3>5, <3>6, <3>7, <3>8 DEF AppendStep
    <2> QED
      BY <1>0, <2>1, <2>2, OwnerStays
  <1>2. ASSUME NEW op \in Ops, AcquireLock(op) PROVE OwnerRuns'
    <2>1. outcome[op] = "open"
      BY <1>2 DEF AcquireLock, IInv, Decided
    <2> QED
      BY <1>0, <1>2, <2>1 DEF AcquireLock, Goto, OwnerRuns
  <1>3. ASSUME NEW op \in Ops, Unlock(op) PROVE OwnerRuns'
    BY <1>0, <1>3 DEF Unlock, Goto, OwnerRuns
  <1>4. ASSUME NEW op \in Ops, LoseLock(op) PROVE OwnerRuns'
    BY <1>4 DEF LoseLock, OwnerRuns
  <1>5. ASSUME NEW i \in Processes, NEW survivors \in SUBSET Ops, Crash(i, survivors) PROVE OwnerRuns'
    <2> SUFFICES ASSUME lockOwner' # Nobody
                 PROVE  /\ pc'[lockOwner'] \notin {"new", "queued", "locking", "done"}
                        /\ outcome'[lockOwner'] # "gone"
      BY DEF OwnerRuns
    <2>1. lockOwner' = lockOwner /\ lockOwner \in Ops /\ Home[lockOwner] # i
      BY <1>0, <1>5 DEF Crash
    <2>2. lockOwner \notin At(i)
      BY <2>1 DEF At
    <2>3. pc'[lockOwner] = pc[lockOwner] /\ outcome'[lockOwner] = outcome[lockOwner]
      BY <1>5, <2>1, <2>2 DEF Crash
    <2> QED
      BY <2>1, <2>3 DEF OwnerRuns
  <1>6. ASSUME UNCHANGED <<pc, outcome, lockOwner>> PROVE OwnerRuns'
    BY <1>6 DEF OwnerRuns
  <1>7. ASSUME NEW i \in Processes, Drain(i) \/ Restart(i) PROVE OwnerRuns'
    BY <1>6, <1>7 DEF Drain, Restart
  <1>8. CASE AgeRefLock \/ UNCHANGED vars
    BY <1>6, <1>8 DEF AgeRefLock, vars, server
  <1> QED
    BY <1>1, <1>2, <1>3, <1>4, <1>5, <1>7, <1>8 DEF Next, LockStep

(* RepoStore.drain, "this also waits for every held database lock to be    *)
(* released": a process that is draining and whose queue has emptied has   *)
(* no operation left and holds no lock, after any losses and crashes.      *)
THEOREM DrainedIsIdle == Spec => []DrainWaits
  <1>1. Init => Waiting /\ OwnerRuns
    BY DEF Init, Waiting, OwnerRuns
  <1>2. IInv /\ Waiting /\ OwnerRuns => DrainWaits
    <2> SUFFICES ASSUME IInv, Waiting, OwnerRuns, NEW i \in Processes, queue[i] = <<>>
                 PROVE  At(i) = {} /\ (lockOwner # Nobody => Home[lockOwner] # i)
      BY DEF DrainWaits
    <2>1. ASSUME NEW op \in Ops, Home[op] = i, pc[op] = "queued" PROVE FALSE
      <3>1. PICK k \in 1 .. Len(queue[i]) : TRUE
        BY <2>1 DEF Waiting
      <3> QED
        BY <3>1
    <2>2. ASSUME NEW op \in Ops, Home[op] = i, pc[op] \notin {"new", "done"}, outcome[op] # "gone" PROVE FALSE
      BY <2>1, <2>2 DEF IInv, AtFront
    <2>3. lockOwner \in Ops \cup {Nobody}
      BY DEF IInv, TypeOK
    <2> QED
      BY <2>2, <2>3 DEF At, OwnerRuns
  <1> QED
    BY <1>1, <1>2, Inductive, WaitingNext, OwnerNext, PTL DEF Spec

---------------------------------------------------------------------------
(* The answers, along the parents. *)

(* A step that leaves main and what is under it alone, and answers nobody  *)
(* falsely, keeps the chain.  What is under main is closed by itself, so   *)
(* that a parent read by somebody else does not matter.                    *)
LEMMA ChainedStays ==
    ASSUME IInv, Chained, UNCHANGED <<main, published>>,
           \A op \in published : parent'[op] = parent[op],
           \A op \in Ops : outcome'[op] = "accepted" => outcome[op] = "accepted"
    PROVE  Chained'
  <1>1. \A op \in published' : parent'[op] \in published' \cup {NoCommit}
    BY DEF Chained
  <1>2. ASSUME NEW S \in SUBSET Heads, HoldsHistory(S)' PROVE published' \subseteq S
    <2>1. main \in S /\ \A op \in S \cap Ops : parent'[op] \in S
      BY <1>2 DEF HoldsHistory
    <2> DEFINE under == S \cap (published \cup {NoCommit})
    <2>2. under \in SUBSET Heads
      OBVIOUS
    <2>3. main \in under
      BY <2>1 DEF IInv, HeadPublished
    <2>4. ASSUME NEW op \in under \cap Ops PROVE parent[op] \in under
      <3>1. op \in published
        BY OpsAssumption
      <3>2. parent[op] \in S
        BY <2>1, <3>1
      <3>3. parent[op] \in published \cup {NoCommit}
        BY <3>1 DEF Chained
      <3> QED
        BY <3>2, <3>3
    <2>5. HoldsHistory(under)
      BY <2>3, <2>4 DEF HoldsHistory
    <2> HIDE DEF under
    <2>6. published \subseteq under
      BY <2>2, <2>5 DEF Chained
    <2> QED
      BY <2>6 DEF under
  <1>3. \A op \in Ops : outcome'[op] = "accepted" => op \in published'
    BY DEF Chained
  <1> QED
    BY <1>1, <1>2, <1>3 DEF Chained

(* main moves on from the parent of the operation that moves it. *)
LEMMA ChainedMoves ==
    ASSUME IInv, Chained, NEW op \in Ops, pc[op] = "refLocked", main = parent[op],
           main' = op, published' = published \cup {op}, UNCHANGED parent,
           \A o \in Ops : outcome'[o] = "accepted" => o = op \/ outcome[o] = "accepted"
    PROVE  Chained'
  <1>1. \A o \in published' : parent'[o] \in published' \cup {NoCommit}
    BY DEF Chained, IInv, HeadPublished
  <1>2. ASSUME NEW S \in SUBSET Heads, HoldsHistory(S)' PROVE published' \subseteq S
    <2>1. op \in S /\ \A o \in S \cap Ops : parent[o] \in S
      BY <1>2 DEF HoldsHistory
    <2>2. HoldsHistory(S)
      BY <2>1 DEF HoldsHistory
    <2> QED
      BY <2>1, <2>2 DEF Chained
  <1>3. \A o \in Ops : outcome'[o] = "accepted" => o \in published'
    BY DEF Chained
  <1> QED
    BY <1>1, <1>2, <1>3 DEF Chained

LEMMA ChainedNext == IInv /\ Chained /\ [Next]_vars => Chained'
  <1> SUFFICES ASSUME IInv, Chained, [Next]_vars PROVE Chained'
    OBVIOUS
  <1>0. /\ pc \in [Ops -> Steps] /\ outcome \in [Ops -> Outcomes] /\ published \in SUBSET Ops
        /\ parent \in [Ops -> Heads \cup {Nowhere}]
    BY DEF IInv, TypeOK
  <1>1. ASSUME NEW op \in Ops, (\E h \in Heads : Arrive(op, h)) \/ Enter(op) PROVE Chained'
    <2>1. op \notin published
      BY <1>1 DEF Arrive, Enter, IInv, Decided
    <2>2. \A o \in published : parent'[o] = parent[o]
      BY <1>0, <1>1, <2>1 DEF Arrive, Enter
    <2> QED
      BY <1>1, <2>2, ChainedStays DEF Arrive, Enter, git
  <1>2. ASSUME NEW op \in Ops,
               \/ ShuttingDown(op) \/ Connect(op) \/ AcquireLock(op) \/ LockTimeout(op) \/ Unlock(op)
               \/ NoticeLoss(op) \/ LoseLock(op) \/ Invalid(op) \/ ClearStaleRefLock(op)
               \/ Resolve(op) \/ Stage(op) \/ Probe(op) \/ LockRef(op) \/ LoseSwap(op) \/ GitFails(op)
        PROVE  Chained'
    <2>1. UNCHANGED <<main, published, parent>>
      BY <1>2 DEF ShuttingDown, Connect, AcquireLock, LockTimeout, Unlock, NoticeLoss, LoseLock, Invalid,
                  ClearStaleRefLock, Resolve, Stage, Probe, LockRef, LoseSwap, GitFails, git
    <2>2. UNCHANGED outcome \/ Answer(op, "refused")
      BY <1>2 DEF ShuttingDown, Connect, AcquireLock, LockTimeout, Unlock, NoticeLoss, LoseLock, Invalid,
                  ClearStaleRefLock, Resolve, Stage, Probe, LockRef, LoseSwap, GitFails, Fails
    <2>3. \A o \in Ops : outcome'[o] = "accepted" => outcome[o] = "accepted"
      BY <1>0, <2>2 DEF Answer
    <2> QED
      BY <2>1, <2>3, ChainedStays
  <1>3. ASSUME NEW op \in Ops, MoveRef(op) PROVE Chained'
    <2>1. \A o \in Ops : outcome'[o] = "accepted" => o = op \/ outcome[o] = "accepted"
      BY <1>0, <1>3 DEF MoveRef, Answer
    <2> QED
      BY <1>3, <2>1, ChainedMoves DEF MoveRef
  <1>4. ASSUME NEW op \in Ops, UpdateRefTimesOut(op) PROVE Chained'
    <2>1. \A o \in Ops : outcome'[o] = "accepted" => outcome[o] = "accepted"
      BY <1>0, <1>4 DEF UpdateRefTimesOut, Answer
    <2>2. CASE UNCHANGED <<main, published>>
      BY <1>4, <2>1, <2>2, ChainedStays DEF UpdateRefTimesOut
    <2>3. CASE main = parent[op] /\ main' = op /\ published' = published \cup {op}
      BY <1>4, <2>1, <2>3, ChainedMoves DEF UpdateRefTimesOut
    <2> QED
      BY <1>4, <2>2, <2>3 DEF UpdateRefTimesOut
  <1>5. ASSUME NEW i \in Processes, NEW survivors \in SUBSET Ops, Crash(i, survivors) PROVE Chained'
    <2>1. \A o \in Ops : outcome'[o] = "accepted" => outcome[o] = "accepted"
      BY <1>5 DEF Crash
    <2> QED
      BY <1>5, <2>1, ChainedStays DEF Crash, git
  <1>6. ASSUME UNCHANGED <<main, published, parent, outcome>> PROVE Chained'
    BY <1>6, ChainedStays
  <1>7. ASSUME NEW i \in Processes, Drain(i) \/ Restart(i) PROVE Chained'
    BY <1>6, <1>7 DEF Drain, Restart, git
  <1>8. CASE AgeRefLock \/ UNCHANGED vars
    BY <1>6, <1>8 DEF AgeRefLock, vars, git
  <1> QED
    BY <1>1, <1>2, <1>3, <1>4, <1>5, <1>7, <1>8 DEF Next, LockStep, AppendStep

(* Following the parents from the head, an accepted push is in main's      *)
(* history and a refused one is not: appendCommits, the routes' answers    *)
(* and update-ref together, for histories of any length.                   *)
THEOREM AnswersAreTrue == Spec => []AnswersHold
  <1>1. Init => Chained
    BY DEF Init, Chained
  <1>2. IInv /\ Chained => AnswersHold
    <2> SUFFICES ASSUME IInv, Chained PROVE AnswersHold
      OBVIOUS
    <2>1. published \subseteq OnMain
      BY DEF OnMain, Chained, IInv, TypeOK
    <2>2. OnMain \subseteq published
      <3> DEFINE named == published \cup {NoCommit}
      <3>1. named \in SUBSET Heads
        BY DEF IInv, TypeOK, Heads
      <3>2. HoldsHistory(named)
        BY OpsAssumption DEF HoldsHistory, IInv, HeadPublished, Chained
      <3> HIDE DEF named
      <3>3. OnMain \subseteq named /\ OnMain \subseteq Ops
        BY <3>1, <3>2 DEF OnMain
      <3> QED
        BY <3>3, OpsAssumption DEF named
    <2> QED
      BY <2>1, <2>2 DEF AnswersHold, Chained, IInv, Decided
  <1> QED
    BY <1>1, <1>2, Inductive, ChainedNext, PTL DEF Spec
=============================================================================
