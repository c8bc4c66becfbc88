------------------------- MODULE ServerStateProofs -------------------------
(***************************************************************************)
(* Proofs about ServerState, for any number of instances, heads, trees and *)
(* commits: type correctness of every behaviour; and, as long as close()   *)
(* waits for the running operation, the inductive invariant, that base/    *)
(* and base.head agree, and that no unsent commit leaves pending/.         *)
(***************************************************************************)
EXTENDS ServerState, TLAPS

(* Init establishes the types. *)
LEMMA InitTypeOK == Init => TypeOK
  BY InstancesAssumption
     DEF Init, TypeOK, Folder, Steps, Arguments, NoArgument, AnyHead

(* Every step of initialize, recover, appendPending, update, push and merge *)
(* keeps the types.                                                        *)
LEMMA OperationTypeOK ==
    ASSUME TypeOK, NEW i \in Instances, Operation(i)
    PROVE  TypeOK'
  <1> USE DEF TypeOK, Goto, Finish, Work
  <1>1. ASSUME NEW h \in AnyHead, InitializeBase(i, h) PROVE TypeOK'
    <2>1. TreeAt[h] \in Folder
      BY <1>1, TreesAssumption DEF Folder
    <2>2. arg' \in [Instances -> Arguments]
      BY <1>1 DEF InitializeBase, Arguments
    <2> QED
      BY <1>1, <2>1, <2>2 DEF InitializeBase, Steps
  <1>2. ASSUME NEW h \in AnyHead, Update(i, h) PROVE TypeOK'
    BY <1>2 DEF Update, memory
  <1>3. ASSUME NEW h \in Heads, Answer(i, h) PROVE TypeOK'
    <2>1. {e.number : e \in {x \in pending : x.id \in arg[i].ids}} \in SUBSET Numbers
      OBVIOUS
    <2>2. arg' \in [Instances -> Arguments]
      BY <1>3, <2>1 DEF Answer, Arguments, AnyHead
    <2>3. sent' \in SUBSET Commits
      BY <1>3 DEF Answer, Arguments
    <2> QED
      BY <1>3, <2>2, <2>3 DEF Answer, disk, Steps
  <1>4. ASSUME InitializeDoc(i) PROVE TypeOK'
    BY <1>4 DEF InitializeDoc, Steps, Arguments
  <1>5. ASSUME Recover(i) PROVE TypeOK'
    BY <1>5 DEF Recover, disk, Steps, ApplySteps
  <1>6. ASSUME NEW ids \in SUBSET Commits, Request(i, ids) PROVE TypeOK'
    BY <1>6 DEF Request, disk, Steps, Arguments
  <1>7. {e.id : e \in pending} \in SUBSET Commits
    OBVIOUS
  <1>8. ASSUME RequestFails(i) PROVE TypeOK'
    BY <1>8 DEF RequestFails, disk, Steps, Arguments
  <1>9. ASSUME NEW c \in Commits, AppendPending(i, c) PROVE TypeOK'
    BY <1>9 DEF AppendPending, memory
  <1> QED
    BY <1>1, <1>2, <1>3, <1>4, <1>5, <1>6, <1>7, <1>8, <1>9 DEF Operation, Push, Merge

(* So does every step of advanceBase and applyAdvance. *)
LEMMA AdvanceTypeOK ==
    ASSUME TypeOK, NEW i \in Instances, AdvanceStep(i) \/ ApplyStep(i)
    PROVE  TypeOK'
  <1> USE DEF TypeOK, Goto, Finish, Work, Steps, ApplySteps
  <1>1. CASE ClearNext(i)
    BY <1>1 DEF ClearNext, Folder
  <1>2. CASE WriteNext(i)
    BY <1>2, TreesAssumption DEF WriteNext, Folder, AnyHead
  <1>3. CASE WriteJournal(i)
    BY <1>3 DEF WriteJournal, Journals, Arguments
  <1>4. CASE DiscardNext(i)
    BY <1>4 DEF DiscardNext, Folder, Arguments
  <1>5. CASE ReadJournal(i)
    BY <1>5 DEF ReadJournal, Folder, Journals, Arguments, AnyHead
  <1>6. CASE RemoveBase(i)
    BY <1>6 DEF RemoveBase, Folder
  <1>7. CASE Swap(i)
    BY <1>7 DEF Swap, Folder
  <1>8. CASE ApplyFails(i)
    BY <1>8 DEF ApplyFails, disk, Arguments
  <1>9. CASE DropPending(i)
    BY <1>9 DEF DropPending, Arguments
  <1>10. CASE WriteDoc(i)
    BY <1>10 DEF WriteDoc, Arguments
  <1>11. CASE RemoveJournal(i)
    BY <1>11 DEF RemoveJournal, Arguments
  <1> QED
    BY <1>1, <1>2, <1>3, <1>4, <1>5, <1>6, <1>7, <1>8, <1>9, <1>10, <1>11
       DEF AdvanceStep, ApplyStep

(* TypeOK holds in every reachable state of ServerState. *)
LEMMA NextTypeOK == TypeOK /\ [Next]_vars => TypeOK'
  <1> SUFFICES ASSUME TypeOK, [Next]_vars PROVE TypeOK'
    OBVIOUS
  <1>1. CASE Crash
    BY <1>1 DEF Crash, TypeOK, disk, NoArgument, Arguments, Steps
  <1>2. ASSUME NEW i \in Instances, Reopen(i) PROVE TypeOK'
    BY <1>2 DEF Reopen, TypeOK, disk
  <1>3. CASE UNCHANGED vars
    BY <1>3 DEF TypeOK, vars, disk, memory
  <1> QED
    BY <1>1, <1>2, <1>3, OperationTypeOK, AdvanceTypeOK DEF Next

(* Type correctness: every behaviour of ServerState, crashes and           *)
(* overlapping instances included, keeps each file and each variable of an *)
(* operation in its type.                                                  *)
THEOREM TypeCorrect == Spec => []TypeOK
  BY InitTypeOK, NextTypeOK, PTL DEF Spec

---------------------------------------------------------------------------
(* The inductive invariant, while close() waits for the running operation. *)

LEMMA InitIInv == Init => IInv
  <1> SUFFICES ASSUME Init PROVE IInv
    OBVIOUS
  <1>1. TypeOK
    BY InitTypeOK
  <1> QED
    BY <1>1 DEF Init, IInv, TypeOK, OneAtWork, Uninitialised, PendingNamed, JournalSeen,
           TreesWhole, PushedWereSent, ApplySteps

(* An instance in the middle of an operation is the one in use. *)
LEMMA AtWork ==
    ASSUME IInv, NEW i \in Instances, pc[i] # "idle"
    PROVE  i = current
  BY DEF IInv, OneAtWork

(* The steps of initialize, recover, appendPending, update, push and merge. *)
LEMMA OperationIInv ==
    ASSUME IInv, CloseWaitSuffices, NEW i \in Instances, Operation(i)
    PROVE  IInv'
  <1> USE DEF IInv, OneAtWork, Uninitialised, PendingNamed, JournalSeen, TreesWhole,
              PushedWereSent, ApplySteps, Goto, Finish, Work
  <1>0. TypeOK'
    BY OperationTypeOK
  <1>1. ASSUME NEW h \in AnyHead, InitializeBase(i, h) PROVE IInv'
    BY <1>1, <1>0, TreesAssumption, HeadsAssumption DEF InitializeBase, TypeOK, Arguments, Journals
  <1>2. ASSUME NEW h \in AnyHead, Update(i, h) PROVE IInv'
    BY <1>2, <1>0, TreesAssumption, HeadsAssumption DEF Update, Ready, memory, TypeOK, Arguments, Journals
  <1>3. ASSUME NEW h \in Heads, Answer(i, h) PROVE IInv'
    BY <1>3, <1>0, TreesAssumption, AtWork DEF Answer, disk, TypeOK, Arguments, Journals
  <1>4. ASSUME InitializeDoc(i) PROVE IInv'
    BY <1>4, <1>0, TreesAssumption, AtWork, HeadsAssumption DEF InitializeDoc, TypeOK, Arguments, Journals
  <1>5. ASSUME Recover(i) PROVE IInv'
    BY <1>5, <1>0, TreesAssumption DEF Recover, disk, TypeOK, Arguments, Journals
  <1>6. ASSUME NEW ids \in SUBSET Commits, Request(i, ids) PROVE IInv'
    BY <1>6, <1>0, TreesAssumption DEF Request, Ready, disk, TypeOK, Arguments, Journals
  <1>7. ASSUME RequestFails(i) PROVE IInv'
    BY <1>7, <1>0, TreesAssumption, AtWork DEF RequestFails, disk, TypeOK, Arguments, Journals
  <1>8. ASSUME NEW c \in Commits, AppendPending(i, c) PROVE IInv'
    BY <1>8, <1>0, TreesAssumption, MaxNumberAssumption DEF AppendPending, Ready, IsNextNumber, Numbers, memory, TypeOK, Arguments, Journals
  <1>9. {e.id : e \in pending} \in SUBSET Commits
    BY DEF TypeOK
  <1>10. {} \in SUBSET Commits
    OBVIOUS
  <1> HIDE DEF IInv
  <1> QED
    BY <1>1, <1>2, <1>3, <1>4, <1>5, <1>6, <1>7, <1>8, <1>9, <1>10 DEF Operation, Push, Merge

(* The steps of advanceBase up to its journal. *)
LEMMA AdvanceIInv ==
    ASSUME IInv, CloseWaitSuffices, NEW i \in Instances, AdvanceStep(i)
    PROVE  IInv'
  <1> USE DEF IInv, OneAtWork, Uninitialised, PendingNamed, JournalSeen, TreesWhole,
              PushedWereSent, ApplySteps, Goto, Finish, Work
  <1>0. TypeOK'
    BY AdvanceTypeOK
  <1>1. ASSUME ClearNext(i) PROVE IInv'
    BY <1>1, <1>0, TreesAssumption, AtWork DEF ClearNext, TypeOK, Arguments, Journals
  <1>2. ASSUME WriteNext(i) PROVE IInv'
    BY <1>2, <1>0, TreesAssumption, AtWork DEF WriteNext, TypeOK, Arguments, Journals
  <1>3. ASSUME WriteJournal(i) PROVE IInv'
    BY <1>3, <1>0, TreesAssumption, AtWork, JournalAssumption DEF WriteJournal, TypeOK, Arguments, Journals
  <1> QED
    BY <1>1, <1>2, <1>3 DEF AdvanceStep

(* The steps of applyAdvance. *)
LEMMA ApplyIInv ==
    ASSUME IInv, CloseWaitSuffices, NEW i \in Instances, ApplyStep(i)
    PROVE  IInv'
  <1> USE DEF IInv, OneAtWork, Uninitialised, PendingNamed, JournalSeen, TreesWhole,
              PushedWereSent, ApplySteps, Goto, Finish, Work
  <1>0. TypeOK'
    BY AdvanceTypeOK
  <1>1. ASSUME DiscardNext(i) PROVE IInv'
    BY <1>1, <1>0, TreesAssumption, AtWork DEF DiscardNext, TypeOK, Arguments, Journals
  <1>2. ASSUME ReadJournal(i) PROVE IInv'
    BY <1>2, <1>0, TreesAssumption, AtWork DEF ReadJournal, TypeOK, Arguments, Journals
  <1>3. ASSUME RemoveBase(i) PROVE IInv'
    BY <1>3, <1>0, TreesAssumption, AtWork DEF RemoveBase, TypeOK, Arguments, Journals
  <1>4. ASSUME Swap(i) PROVE IInv'
    BY <1>4, <1>0, TreesAssumption, AtWork DEF Swap, TypeOK, Arguments, Journals
  <1>5. ASSUME ApplyFails(i) PROVE IInv'
    BY <1>5, <1>0, TreesAssumption, AtWork DEF ApplyFails, disk, TypeOK, Arguments, Journals
  <1>6. ASSUME DropPending(i) PROVE IInv'
    BY <1>6, <1>0, TreesAssumption, AtWork DEF DropPending, TypeOK, Arguments, Journals
  <1>7. ASSUME WriteDoc(i) PROVE IInv'
    BY <1>7, <1>0, TreesAssumption, HeadsAssumption, AtWork DEF WriteDoc, AnyHead, TypeOK, Arguments, Journals
  <1>8. ASSUME RemoveJournal(i) PROVE IInv'
    BY <1>8, <1>0, TreesAssumption, AtWork DEF RemoveJournal, TypeOK, Arguments, Journals
  <1> QED
    BY <1>1, <1>2, <1>3, <1>4, <1>5, <1>6, <1>7, <1>8 DEF ApplyStep

LEMMA NextIInv == CloseWaitSuffices /\ IInv /\ [Next]_vars => IInv'
  <1> SUFFICES ASSUME CloseWaitSuffices, IInv, [Next]_vars PROVE IInv'
    OBVIOUS
  <1>0. TypeOK'
    BY NextTypeOK DEF IInv
  <1>1. CASE Crash
    BY <1>0, <1>1, TreesAssumption
       DEF Crash, IInv, TypeOK, OneAtWork, Uninitialised, PendingNamed, JournalSeen,
           TreesWhole, PushedWereSent, ApplySteps, disk
  <1>2. ASSUME NEW i \in Instances, Reopen(i) PROVE IInv'
    BY <1>0, <1>2, TreesAssumption
       DEF Reopen, IInv, TypeOK, OneAtWork, Uninitialised, PendingNamed, JournalSeen,
           TreesWhole, PushedWereSent, ApplySteps, disk
  <1>3. CASE UNCHANGED vars
    BY <1>0, <1>3
       DEF IInv, OneAtWork, Uninitialised, PendingNamed, JournalSeen, TreesWhole,
           PushedWereSent, vars, disk, memory
  <1> QED
    BY <1>1, <1>2, <1>3, OperationIInv, AdvanceIInv, ApplyIInv DEF Next

(* The inductive invariant of ServerState while close() waits for the      *)
(* running operation (SYNC_CLOSE_WAIT_MS is never exceeded).               *)
THEOREM Inductive == CloseWaitSuffices => (Spec => []IInv)
  <1> SUFFICES ASSUME CloseWaitSuffices PROVE Spec => []IInv
    OBVIOUS
  <1>1. Init => IInv
    BY InitIInv
  <1>2. IInv /\ [Next]_vars => IInv'
    BY NextIInv
  <1> QED
    BY <1>1, <1>2, PTL DEF Spec

(* base/ and base.head describe the same commit whenever an operation may  *)
(* read them, whichever step of an advance a crash or a failed rename      *)
(* interrupted before.                                                     *)
THEOREM BaseAgrees == CloseWaitSuffices => (Spec => []BaseMatchesHead)
  <1> SUFFICES ASSUME CloseWaitSuffices PROVE Spec => []BaseMatchesHead
    OBVIOUS
  <1>1. IInv => BaseMatchesHead
    BY DEF IInv, BaseMatchesHead, Ready, Uninitialised, JournalSeen, TreesWhole, ApplySteps
  <1> QED
    BY <1>1, Inductive, PTL

(* Only a commit that a push was answered for leaves pending/, however     *)
(* often applyAdvance runs.                                                *)
THEOREM UnsentKept == CloseWaitSuffices => (Spec => UnsentStaysPending)
  <1> SUFFICES ASSUME CloseWaitSuffices PROVE Spec => UnsentStaysPending
    OBVIOUS
  <1> DEFINE Kept == \A e \in pending : e \notin pending' => e.id \in sent
  <1>1. IInv /\ [Next]_vars => [Kept]_vars
    <2> SUFFICES ASSUME IInv, Next PROVE Kept
      OBVIOUS
    <2>1. ASSUME NEW i \in Instances, DropPending(i) PROVE Kept
      <3>1. i = current
        BY <2>1, AtWork DEF DropPending
      <3>2. \A e \in pending : e.number \in arg[i].names => e.id \in sent
        BY <2>1, <3>1 DEF DropPending, IInv, PushedWereSent, JournalSeen, ApplySteps
      <3> QED
        BY <2>1, <3>2 DEF DropPending
    <2>2. ASSUME NEW i \in Instances, NEW c \in Commits, AppendPending(i, c) PROVE Kept
      BY <2>2 DEF AppendPending
    <2>3. ASSUME UNCHANGED pending PROVE Kept
      BY <2>3
    <2>4. ASSUME NEW i \in Instances, Operation(i) PROVE Kept
      <3>1. (\E c \in Commits : AppendPending(i, c)) \/ UNCHANGED pending
        BY <2>4 DEF Operation, InitializeBase, InitializeDoc, Update, Answer, Recover, Push,
                    Merge, Request, RequestFails, disk
      <3> QED
        BY <3>1, <2>2, <2>3
    <2>5. ASSUME NEW i \in Instances, AdvanceStep(i) \/ ApplyStep(i) PROVE Kept
      <3>1. DropPending(i) \/ UNCHANGED pending
        BY <2>5 DEF AdvanceStep, ApplyStep, ClearNext, WriteNext, WriteJournal, DiscardNext,
                    ReadJournal, RemoveBase, Swap, ApplyFails, WriteDoc, RemoveJournal, disk
      <3> QED
        BY <3>1, <2>1, <2>3
    <2>6. (Crash \/ \E i \in Instances : Reopen(i)) => UNCHANGED pending
      BY DEF Crash, Reopen, disk
    <2> QED
      BY <2>3, <2>4, <2>5, <2>6 DEF Next
  <1> QED
    BY <1>1, Inductive, PTL DEF Spec, UnsentStaysPending

---------------------------------------------------------------------------
(* The folder implements the atomic snapshot of BaseSnapshot.  WriteJournal *)
(* is the step at which an advance happens.                                *)

(* Nothing on disk changes: neither does the snapshot. *)
LEMMA SnapshotStutters ==
    ASSUME UNCHANGED <<baseHead, knownHead, base, baseNext, journal, pending>>
    PROVE  UNCHANGED Snapshot!vars
  BY DEF Snapshot!vars, Committed

(* initialize, appendPending and update are the snapshot's own operations; *)
(* the rest of an operation leaves it alone until the journal is written.  *)
LEMMA OperationRefines ==
    ASSUME IInv, NEW i \in Instances, Operation(i)
    PROVE  [Snapshot!Next]_(Snapshot!vars)
  <1>1. ASSUME NEW h \in AnyHead, InitializeBase(i, h) PROVE UNCHANGED Snapshot!vars
    BY <1>1 DEF InitializeBase, Snapshot!vars, Committed
  <1>2. CASE InitializeDoc(i)
    <2>1. i = current
      BY <1>2, AtWork DEF InitializeDoc
    <2>2. Snapshot!Initialize(arg[i].head)
      BY <1>2, <2>1, HeadsAssumption
         DEF InitializeDoc, Snapshot!Initialize, Committed, IInv, TypeOK, Uninitialised
    <2> QED
      BY <1>2, <2>2 DEF Snapshot!Next, IInv, TypeOK, InitializeDoc
  <1>3. ASSUME NEW h \in AnyHead, Update(i, h) PROVE Snapshot!Next
    <2>1. Snapshot!Update(h)
      BY <1>3, TreesAssumption
         DEF Update, Ready, Snapshot!Update, Committed, IInv, Uninitialised, JournalSeen,
             TreesWhole, TypeOK, ApplySteps
    <2> QED
      BY <2>1 DEF Snapshot!Next
  <1>4. ASSUME NEW c \in Commits, AppendPending(i, c) PROVE Snapshot!Next
    <2>1. Snapshot!AppendPending(c)
      <3>1. journal = NoJournal /\ journal' = NoJournal
        BY <1>4 DEF AppendPending, Ready, IInv, JournalSeen, ApplySteps
      <3>2. baseHead # NoHead /\ base # NoTree
        BY <1>4, <3>1, TreesAssumption
           DEF AppendPending, Ready, IInv, Uninitialised, TreesWhole, TypeOK
      <3>3. c \notin {e.id : e \in pending}
        BY <1>4 DEF AppendPending, IInv, PendingNamed
      <3>4. {e.id : e \in pending'} = {e.id : e \in pending} \cup {c}
        <4>1. PICK n \in Numbers : pending' = pending \cup {[number |-> n, id |-> c]}
          BY <1>4 DEF AppendPending
        <4>2. [number |-> n, id |-> c].id = c
          OBVIOUS
        <4> QED
          BY <4>1, <4>2, Zenon
      <3>5. {x \in pending : Committed => x.number \notin journal.pushed} = pending
        BY <3>1 DEF Committed
      <3>6. {x \in pending : Committed => x.number \notin journal.pushed}' = pending'
        BY <3>1 DEF Committed
      <3> QED
        BY <1>4, <3>1, <3>2, <3>3, <3>4, <3>5, <3>6
           DEF AppendPending, Snapshot!AppendPending, Committed
    <2> QED
      BY <2>1 DEF Snapshot!Next
  <1>5. ASSUME UNCHANGED disk PROVE UNCHANGED Snapshot!vars
    BY <1>5, SnapshotStutters DEF disk
  <1>6. ASSUME (\E h \in Heads : Answer(i, h)) \/ Recover(i) \/ Push(i) \/ Merge(i) \/ RequestFails(i)
        PROVE  UNCHANGED disk
    BY <1>6 DEF Answer, Recover, Push, Merge, Request, RequestFails
  <1> QED
    BY <1>1, <1>2, <1>3, <1>4, <1>5, <1>6 DEF Operation

(* advanceBase's journal is the snapshot's AdvanceBase; what comes before  *)
(* and after it changes nothing a reader will see.                         *)
LEMMA AdvanceRefines ==
    ASSUME IInv, IInv', NEW i \in Instances, AdvanceStep(i)
    PROVE  [Snapshot!Next]_(Snapshot!vars)
  <1>1. i = current
    BY AtWork DEF AdvanceStep, ClearNext, WriteNext, WriteJournal
  <1>2. journal = NoJournal /\ baseHead # NoHead /\ base # NoTree
    BY <1>1, TreesAssumption
       DEF AdvanceStep, ClearNext, WriteNext, WriteJournal, IInv, Uninitialised, JournalSeen,
           TreesWhole, TypeOK, ApplySteps
  <1>3. CASE ClearNext(i) \/ WriteNext(i)
    BY <1>2, <1>3 DEF ClearNext, WriteNext, Snapshot!vars, Committed
  <1>4. CASE WriteJournal(i)
    <2>1. arg[i].head \in Heads /\ arg[i].ids \in SUBSET Commits
      BY <1>4 DEF WriteJournal, IInv, TypeOK, Arguments
    <2> PICK h \in Heads : h = arg[i].head
      BY <2>1
    <2> PICK P \in SUBSET Commits : P = arg[i].ids
      BY <2>1
    <2>2. journal' # NoJournal /\ journal'.head = h /\ journal'.pushed = arg[i].names
      BY <1>4, <2>1, JournalAssumption DEF WriteJournal, IInv, TypeOK, Arguments, Numbers
    <2>3. baseNext' = TreeAt[h] /\ baseNext' # NoTree
      BY <1>1, <1>4, <2>1, TreesAssumption DEF WriteJournal, IInv, TreesWhole, AnyHead
    <2>4. {e.id : e \in {x \in pending : x.number \notin arg[i].names}} = {e.id : e \in pending} \ P
      <3>1. \A e \in pending : e.number \in arg[i].names <=> e.id \in P
        BY <1>1, <1>4 DEF WriteJournal, IInv, PushedWereSent
      <3> QED
        BY <3>1, Zenon
    <2>5. {x \in pending : Committed => x.number \notin journal.pushed} = pending
      BY <1>2 DEF Committed
    <2>6. {x \in pending : Committed => x.number \notin journal.pushed}'
            = {x \in pending : x.number \notin arg[i].names}
      BY <1>4, <2>2 DEF Committed, WriteJournal
    <2>7. Snapshot!AdvanceBase(h, P)
      BY <1>2, <1>4, <2>2, <2>3, <2>4, <2>5, <2>6
         DEF Snapshot!AdvanceBase, Committed, WriteJournal
    <2> QED
      BY <2>7 DEF Snapshot!Next, AnyHead
  <1> QED
    BY <1>3, <1>4 DEF AdvanceStep

(* Rolling the journal forward changes nothing a reader will see. *)
LEMMA ApplyRefines ==
    ASSUME IInv, IInv', NEW i \in Instances, ApplyStep(i)
    PROVE  UNCHANGED Snapshot!vars
  <1> DEFINE Shown == {x \in pending : Committed => x.number \notin journal.pushed}
  <1>1. i = current
    BY AtWork DEF ApplyStep, DiscardNext, ReadJournal, RemoveBase, Swap, ApplyFails, DropPending,
                  WriteDoc, RemoveJournal, ApplySteps
  <1>2. CASE DiscardNext(i)
    BY <1>2 DEF DiscardNext, Snapshot!vars, Committed
  <1>3. CASE ReadJournal(i) \/ RemoveBase(i)
    BY <1>1, <1>3
       DEF ReadJournal, RemoveBase, Snapshot!vars, Committed, IInv, JournalSeen, TreesWhole, ApplySteps
  <1>4. CASE Swap(i)
    BY <1>1, <1>4 DEF Swap, Snapshot!vars, Committed, IInv, JournalSeen, ApplySteps
  <1>5. CASE ApplyFails(i)
    BY <1>5, SnapshotStutters DEF ApplyFails, disk
  <1>6. CASE DropPending(i)
    <2>1. journal # NoJournal /\ arg[i].names \subseteq journal.pushed
      BY <1>1, <1>6 DEF DropPending, IInv, JournalSeen, PushedWereSent, ApplySteps
    <2>2. Shown' = Shown
      BY <1>6, <2>1 DEF DropPending, Committed
    <2> QED
      BY <1>6, <2>2 DEF DropPending, Snapshot!vars, Committed
  <1>7. CASE WriteDoc(i)
    BY <1>1, <1>7, HeadsAssumption
       DEF WriteDoc, Snapshot!vars, Committed, IInv, JournalSeen, TreesWhole, Uninitialised, ApplySteps
  <1>8. CASE RemoveJournal(i)
    <2>1. journal # NoJournal /\ baseHead = journal.head /\ knownHead = journal.head /\ baseNext = NoTree
      BY <1>1, <1>8 DEF RemoveJournal, IInv, JournalSeen, TreesWhole, ApplySteps
    <2>2. Shown = pending /\ Shown' = pending'
      BY <1>1, <1>8, <2>1 DEF RemoveJournal, Committed, IInv, PushedWereSent
    <2> QED
      BY <1>8, <2>1, <2>2 DEF RemoveJournal, Snapshot!vars, Committed
  <1> QED
    BY <1>2, <1>3, <1>4, <1>5, <1>6, <1>7, <1>8 DEF ApplyStep

(* advanceBase, interrupted anywhere and rolled forward, is one atomic     *)
(* change of base/, base.head, knownHead and pending/: ServerState         *)
(* implements BaseSnapshot, while close() waits for the running operation. *)
THEOREM Refinement == CloseWaitSuffices => (Spec => SnapshotSpec)
  <1> SUFFICES ASSUME CloseWaitSuffices PROVE Spec => SnapshotSpec
    OBVIOUS
  <1>1. Init => Snapshot!Init
    BY DEF Init, Snapshot!Init, Committed
  <1>2. IInv /\ IInv' /\ [Next]_vars => [Snapshot!Next]_(Snapshot!vars)
    <2> SUFFICES ASSUME IInv, IInv', [Next]_vars PROVE [Snapshot!Next]_(Snapshot!vars)
      OBVIOUS
    <2>1. ASSUME Crash \/ (\E i \in Instances : Reopen(i)) \/ UNCHANGED vars
          PROVE  UNCHANGED Snapshot!vars
      BY <2>1, SnapshotStutters DEF Crash, Reopen, vars, disk
    <2> QED
      BY <2>1, OperationRefines, AdvanceRefines, ApplyRefines DEF Next
  <1> QED
    BY <1>1, <1>2, Inductive, PTL DEF Spec, SnapshotSpec, Snapshot!Spec

=============================================================================
