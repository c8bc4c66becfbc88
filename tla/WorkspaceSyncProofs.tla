------------------------ MODULE WorkspaceSyncProofs ------------------------
(***************************************************************************)
(* Proofs about WorkspaceSync, for any number of desktops, paths, contents,*)
(* commits, saves and faults.                                              *)
(***************************************************************************)
EXTENDS WorkspaceSync, MergeRuns, FiniteSetTheorems, SequenceTheorems, WellFoundedInduction, TLAPS

---------------------------------------------------------------------------
(* Trees and changes *)

(* A set of commit numbers has a last one. *)
LEMMA LastExists ==
    ASSUME NEW n \in Nat, NEW T \in SUBSET (1 .. n), T # {}
    PROVE  \E i \in T : \A j \in T : j <= i
<1> DEFINE left == {n - i : i \in T}
<1>1. left \in SUBSET Nat /\ left # {}
  <2>1. \A i \in T : n - i \in Nat
    OBVIOUS
  <2>2. PICK i \in T : TRUE
    OBVIOUS
  <2>3. n - i \in left
    BY <2>2
  <2> QED
    BY <2>1, <2>3
<1>2. IsWellFoundedOn(OpToRel(<, Nat), Nat)
  BY NatLessThanWellFounded
<1>3. PICK x \in left : \A y \in left : ~(<<y, x>> \in OpToRel(<, Nat))
  BY <1>1, <1>2, WFMin
<1>4. \A y \in left : ~(y < x)
  BY <1>1, <1>3 DEF OpToRel
<1> QED
  BY <1>4, SMTT(40)

(* The commit that decides a path: the last of the n that touches it. *)
LEMMA LastTouching ==
    ASSUME NEW commits, NEW n \in Nat, NEW p, Touching(commits, n, p) # {}
    PROVE  LET T == Touching(commits, n, p)
               last == CHOOSE i \in T : \A j \in T : j <= i
           IN  last \in T /\ \A j \in T : j <= last
<1> DEFINE T == Touching(commits, n, p)
<1>1. T \in SUBSET (1 .. n)
  BY DEF Touching
<1> HIDE DEF T
<1>2. \E i \in T : \A j \in T : j <= i
  BY <1>1, LastExists DEF T
<1> QED
  BY <1>2 DEF T

LEMMA DecidedBy ==
    ASSUME NEW files, NEW commits, NEW n \in Nat, NEW p \in Paths,
           NEW i \in Touching(commits, n, p), \A j \in Touching(commits, n, p) : j <= i
    PROVE  Replay(files, commits, n)[p] = commits[i].changes[p]
<1> DEFINE T == Touching(commits, n, p)
           last == CHOOSE k \in T : \A j \in T : j <= k
<1>1. last \in T /\ (\A j \in T : j <= last) /\ T \subseteq Nat
  BY LastTouching DEF Touching
<1>2. last = i
  BY <1>1
<1>3. Replay(files, commits, n)[p] = commits[last].changes[p]
  BY DEF Replay
<1> QED
  BY <1>2, <1>3

LEMMA Untouched ==
    ASSUME NEW files, NEW commits, NEW n, NEW p \in Paths, Touching(commits, n, p) = {}
    PROVE  Replay(files, commits, n)[p] = files[p]
  BY DEF Replay

LEMMA ReplayType ==
    ASSUME NEW files \in Files, NEW commits \in Seq(CommitType), NEW n \in 0 .. Len(commits)
    PROVE  Replay(files, commits, n) \in Files
<1>0. n \in Nat
  OBVIOUS
<1>1. ASSUME NEW p \in Paths PROVE Replay(files, commits, n)[p] \in Values
  <2>1. CASE Touching(commits, n, p) = {}
    BY <2>1, Untouched DEF Files
  <2>2. CASE Touching(commits, n, p) # {}
    <3>1. PICK i \in Touching(commits, n, p) : \A j \in Touching(commits, n, p) : j <= i
      BY <1>0, <2>2, LastTouching
    <3>2. i \in 1 .. Len(commits) /\ p \in DOMAIN commits[i].changes
      BY <3>1 DEF Touching
    <3>3. commits[i] \in CommitType
      BY <3>2
    <3>4. PICK D \in SUBSET Paths : commits[i].changes \in [D -> Values]
      BY <3>3 DEF CommitType, Changes
    <3>5. commits[i].changes[p] \in Values
      BY <3>2, <3>4
    <3> QED
      BY <1>0, <3>1, <3>5, DecidedBy
  <2> QED
    BY <2>1, <2>2
<1>2. Replay(files, commits, n) = [p \in Paths |-> Replay(files, commits, n)[p]]
  BY DEF Replay
<1> QED
  BY <1>1, <1>2 DEF Files

(* A request carries the first commits: on main they make what they make   *)
(* here.                                                                   *)
LEMMA ReplayPrefix ==
    ASSUME NEW files, NEW commits \in Seq(CommitType), NEW n \in 0 .. Len(commits), NEW k \in 0 .. n
    PROVE  Replay(files, SubSeq(commits, 1, n), k) = Replay(files, commits, k)
<1> DEFINE s == SubSeq(commits, 1, n)
<1>1. k \in Nat /\ \A i \in 1 .. n : s[i] = commits[i]
  OBVIOUS
<1> HIDE DEF s
<1>2. \A p : Touching(s, k, p) = Touching(commits, k, p)
  BY <1>1 DEF Touching
<1>3. ASSUME NEW p \in Paths PROVE Replay(files, s, k)[p] = Replay(files, commits, k)[p]
  <2>1. CASE Touching(s, k, p) = {}
    BY <1>2, <2>1, Untouched
  <2>2. CASE Touching(s, k, p) # {}
    <3>1. PICK i \in Touching(s, k, p) : \A j \in Touching(s, k, p) : j <= i
      BY <1>1, <2>2, LastTouching
    <3>2. s[i] = commits[i]
      BY <1>1, <3>1 DEF Touching
    <3>3. Replay(files, s, k)[p] = s[i].changes[p] /\ Replay(files, commits, k)[p] = commits[i].changes[p]
      BY <1>1, <1>2, <3>1, DecidedBy
    <3> QED
      BY <3>2, <3>3
  <2> QED
    BY <2>1, <2>2
<1> QED
  BY <1>3 DEF Replay, s

(* One more commit is applied over the others. *)
LEMMA ReplayAppend ==
    ASSUME NEW files, NEW commits \in Seq(CommitType), NEW x \in CommitType
    PROVE  Replay(files, Append(commits, x), Len(commits) + 1)
             = Apply(Replay(files, commits, Len(commits)), x.changes)
<1> DEFINE n == Len(commits)
           s == Append(commits, x)
<1>1. n \in Nat /\ s[n + 1] = x /\ \A i \in 1 .. n : s[i] = commits[i]
  OBVIOUS
<1> HIDE DEF n, s
<1>2. ASSUME NEW p \in Paths
      PROVE  Replay(files, s, n + 1)[p] = IF p \in DOMAIN x.changes THEN x.changes[p] ELSE Replay(files, commits, n)[p]
  <2>1. CASE p \in DOMAIN x.changes
    <3>1. n + 1 \in Touching(s, n + 1, p) /\ \A j \in Touching(s, n + 1, p) : j <= n + 1
      BY <1>1, <2>1 DEF Touching
    <3> QED
      BY <1>1, <2>1, <3>1, DecidedBy
  <2>2. CASE p \notin DOMAIN x.changes
    <3>1. Touching(s, n + 1, p) = Touching(commits, n, p)
      BY <1>1, <2>2 DEF Touching
    <3>2. CASE Touching(commits, n, p) = {}
      BY <2>2, <3>1, <3>2, Untouched
    <3>3. CASE Touching(commits, n, p) # {}
      <4>1. PICK i \in Touching(commits, n, p) : \A j \in Touching(commits, n, p) : j <= i
        BY <1>1, <3>3, LastTouching
      <4>2. s[i] = commits[i]
        BY <1>1, <4>1 DEF Touching
      <4>3. Replay(files, s, n + 1)[p] = s[i].changes[p] /\ Replay(files, commits, n)[p] = commits[i].changes[p]
        BY <1>1, <3>1, <4>1, DecidedBy
      <4> QED
        BY <2>2, <4>2, <4>3
    <3> QED
      BY <3>2, <3>3
  <2> QED
    BY <2>1, <2>2
<1>3. \A f, c, k : Replay(f, c, k) = [p \in Paths |-> Replay(f, c, k)[p]]
  BY DEF Replay
<1>4. Apply(Replay(files, commits, n), x.changes)
        = [p \in Paths |-> IF p \in DOMAIN x.changes THEN x.changes[p] ELSE Replay(files, commits, n)[p]]
  BY DEF Apply
<1>5. Replay(files, s, n + 1)
        = [p \in Paths |-> IF p \in DOMAIN x.changes THEN x.changes[p] ELSE Replay(files, commits, n)[p]]
  BY <1>2, <1>3
<1> QED
  BY <1>4, <1>5 DEF n, s

(* The changes between two trees, applied to the first, make the second. *)
LEMMA ApplyDiff ==
    ASSUME NEW before \in Files, NEW after \in Files
    PROVE  /\ Diff(before, after) \in Changes /\ Apply(before, Diff(before, after)) = after
           /\ DOMAIN Diff(before, after) = {p \in Paths : before[p] # after[p]}
<1> DEFINE D == {q \in Paths : before[q] # after[q]}
<1>1. Diff(before, after) \in [D -> Values] /\ DOMAIN Diff(before, after) = D
  BY DEF Diff, Files
<1>2. \A p \in D : Diff(before, after)[p] = after[p]
  BY DEF Diff
<1> QED
  BY <1>1, <1>2 DEF Changes, Apply, Files

LEMMA MergeFits ==
    ASSUME NEW b \in Files, NEW d \in Files, NEW u \in Files
    PROVE  LET m == Merger!MergeFiles(b, d, u, "conflict")
           IN  m.files \in Files /\ m.conflicts \in SUBSET Paths
  BY DEF Merger!MergeFiles, Merger!Take, Files

---------------------------------------------------------------------------
(* The inductive invariant *)

(* base/ is main's tree at base.head; the head a fetch has seen is not     *)
(* behind it, and an open merge is with that head's tree.                  *)
Ahead(c) == known[c] # NoHead /\ baseHead[c] < known[c]
HeadsAgree(c) ==
    /\ base[c] = TreeAt(baseHead[c])
    /\ known[c] # NoHead => baseHead[c] <= known[c]
    /\ merge[c] # NoMerge => Ahead(c) /\ merge[c].theirs = TreeAt(known[c])

(* The record is there in the steps that use it and gone in those that     *)
(* follow it; a merge under way is with the tree of the head it moves to.  *)
MergeSteps(c) ==
    /\ pc[c] \in {"autoResolve", "autoResolving", "resolving", "finish", "aborting"} => merge[c] # NoMerge
    /\ pc[c] \in {"download", "writing", "recordMerge", "finishAdvance", "answered"} => merge[c] = NoMerge
    /\ pc[c] \in {"writing", "finishAdvance"} =>
          Ahead(c) /\ work[c].head = known[c] /\ work[c].theirs = TreeAt(known[c])

(* A request carries commits that are pending; once it was answered, main  *)
(* has them, and the tree they make here is main's.                        *)
PushSteps(c) ==
    /\ pc[c] \in {"sending", "answered"} => work[c].batch \in 1 .. Len(pending[c])
    /\ pc[c] = "answered" =>
          /\ work[c].head \in baseHead[c] + 1 .. MainHead
          /\ TreeAt(work[c].head) = Replay(base[c], pending[c], work[c].batch)
          /\ \A i \in 1 .. work[c].batch : OnMain(c, pending[c][i].id) # {}

KeepsCommits(c) == \A id \in 1 .. drawn[c] : IsPending(c, id) \/ OnMain(c, id) # {}

DesktopInv(c) == HeadsAgree(c) /\ MergeSteps(c) /\ PushSteps(c) /\ KeepsCommits(c)
SyncInv == TypeOK /\ \A c \in Clients : DesktopInv(c)

---------------------------------------------------------------------------
(* Steps of one desktop *)

HistoryType == [tree : Files, author : Clients \cup {NoEdit}, id : Nat]
RequestType == [author : Clients, parent : Nat, commits : Seq(CommitType)]

(* Main only grows. *)
Grows ==
    /\ history' \in Seq(HistoryType)
    /\ MainHead' >= MainHead
    /\ \A h \in 1 .. MainHead : history'[h] = history[h]

SameDesktop(d) ==
    /\ base'[d] = base[d] /\ baseHead'[d] = baseHead[d] /\ known'[d] = known[d]
    /\ pending'[d] = pending[d] /\ merge'[d] = merge[d]
    /\ pc'[d] = pc[d] /\ work'[d] = work[d] /\ drawn'[d] = drawn[d]

LEMMA MainStays ==
    ASSUME TypeOK, Grows
    PROVE  /\ MainHead \in Nat /\ MainHead' \in Nat /\ MainHead <= MainHead'
           /\ \A h \in 1 .. MainHead : TreeAt(h)' = TreeAt(h)
           /\ \A c, id : OnMain(c, id) \subseteq OnMain(c, id)'
<1>1. history \in Seq(HistoryType) /\ history' \in Seq(HistoryType)
  BY DEF TypeOK, Grows, HistoryType
<1>2. /\ MainHead \in Nat /\ MainHead' \in Nat
      /\ DOMAIN history = 1 .. MainHead /\ DOMAIN history' = 1 .. MainHead'
  BY <1>1 DEF MainHead
<1>3. MainHead <= MainHead' /\ \A h \in 1 .. MainHead : history'[h] = history[h]
  BY <1>2 DEF Grows
<1> QED
  BY <1>2, <1>3 DEF TreeAt, OnMain

LEMMA SameKeeps ==
    ASSUME SyncInv, Grows, NEW d \in Clients, SameDesktop(d)
    PROVE  DesktopInv(d)'
<1>1. /\ MainHead \in Nat /\ MainHead' \in Nat /\ MainHead <= MainHead'
      /\ \A h \in 1 .. MainHead : TreeAt(h)' = TreeAt(h)
      /\ \A c, id : OnMain(c, id) \subseteq OnMain(c, id)'
  BY MainStays DEF SyncInv
<1>2. DesktopInv(d) /\ baseHead[d] \in 1 .. MainHead /\ known[d] \in 1 .. MainHead \cup {NoHead}
  BY DEF SyncInv, TypeOK
<1>3. /\ base'[d] = history'[baseHead'[d]].tree
      /\ known'[d] # NoHead => known'[d] \in 1 .. MainHead /\ history'[known'[d]].tree = TreeAt(known[d])
  BY <1>1, <1>2 DEF SameDesktop, TreeAt, DesktopInv, HeadsAgree
<1>4. HeadsAgree(d)'
  BY <1>2, <1>3 DEF DesktopInv, HeadsAgree, Ahead, SameDesktop, TreeAt
<1>5. MergeSteps(d)'
  BY <1>2, <1>3 DEF DesktopInv, MergeSteps, Ahead, SameDesktop, TreeAt
<1>6. PushSteps(d)'
  <2>1. pc[d] = "answered" => work[d].head \in 1 .. MainHead /\ history'[work[d].head].tree = TreeAt(work[d].head)
    BY <1>1, <1>2 DEF DesktopInv, PushSteps, TreeAt
  <2>2. \A id : OnMain(d, id) # {} => OnMain(d, id)' # {}
    BY <1>1
  <2>3. pc[d] = "answered" => \A i \in 1 .. work[d].batch : OnMain(d, pending[d][i].id)' # {}
    <3> SUFFICES ASSUME pc[d] = "answered", NEW i \in 1 .. work[d].batch, NEW id, id = pending'[d][i].id
                 PROVE  OnMain(d, id)' # {}
      BY DEF SameDesktop, OnMain
    <3> QED
      BY <1>2, <2>2 DEF SameDesktop, DesktopInv, PushSteps
  <2> QED
    BY <1>1, <1>2, <2>1, <2>3 DEF DesktopInv, PushSteps, SameDesktop, TreeAt, OnMain
<1>7. KeepsCommits(d)'
  <2>1. \A id : OnMain(d, id) # {} => OnMain(d, id)' # {}
    BY <1>1
  <2>2. \A id : IsPending(d, id)' <=> IsPending(d, id)
    BY DEF IsPending, SameDesktop
  <2>3. drawn'[d] = drawn[d] /\ KeepsCommits(d)
    BY <1>2 DEF SameDesktop, DesktopInv
  <2> QED
    BY <2>1, <2>2, <2>3 DEF KeepsCommits
<1> QED
  BY <1>4, <1>5, <1>6, <1>7 DEF DesktopInv

LEMMA DesktopType ==
    ASSUME TypeOK, NEW c \in Clients
    PROVE  /\ tree[c] \in Files /\ base[c] \in Files
           /\ baseHead[c] \in 1 .. MainHead /\ known[c] \in 1 .. MainHead \cup {NoHead}
           /\ pending[c] \in Seq(CommitType) /\ merge[c] \in MergeType \cup {NoMerge}
           /\ pc[c] \in Steps /\ work[c] \in WorkType /\ drawn[c] \in Nat
           /\ edit[c] \in [Paths -> Values \cup {NoEdit}] /\ fresh[c] \in [Paths -> SUBSET Values]
           /\ Committed(c) \in Files
           /\ MainHead \in Nat /\ NoHead \notin Nat
<1>1. base[c] \in Files /\ pending[c] \in Seq(CommitType)
  BY DEF TypeOK
<1>2. Len(pending[c]) \in 0 .. Len(pending[c])
  BY <1>1
<1>3. Committed(c) \in Files
  BY <1>1, <1>2, ReplayType DEF Committed
<1> QED
  BY <1>3, MarkersAssumption DEF TypeOK, MainHead

LEMMA NoWorkType == NoWork \in WorkType /\ \A n \in 0 .. 2 : [NoWork EXCEPT !.attempt = n] \in WorkType
<1>1. NoFiles \in Files
  BY DEF NoFiles, Files, Values
<1> QED
  BY <1>1 DEF NoWork, WorkType

LEMMA SameHistory ==
    ASSUME TypeOK, UNCHANGED history
    PROVE  Grows
<1>1. history \in Seq(HistoryType)
  BY DEF TypeOK, HistoryType
<1> QED
  BY <1>1 DEF Grows, MainHead

(* A step of one desktop that leaves that desktop in order. *)
LEMMA OneMoves ==
    ASSUME SyncInv, NEW c \in Clients, TypeOK', Grows, \A d \in Clients \ {c} : SameDesktop(d), DesktopInv(c)'
    PROVE  SyncInv'
<1>1. \A d \in Clients : DesktopInv(d)'
  BY SameKeeps
<1> QED
  BY <1>1 DEF SyncInv

(* A commit joins the pending ones. *)
LEMMA Pends ==
    ASSUME TypeOK, NEW c \in Clients, NEW changes \in Changes, AppendPending(c, changes)
    PROVE  /\ pending' \in [Clients -> Seq(CommitType)] /\ drawn' \in [Clients -> Nat]
           /\ \A d \in Clients \ {c} : pending'[d] = pending[d] /\ drawn'[d] = drawn[d]
           /\ \/ pending'[c] = pending[c] /\ drawn'[c] = drawn[c] /\ DOMAIN changes = {}
              \/ /\ pending'[c] = Append(pending[c], [id |-> drawn[c] + 1, changes |-> changes])
                 /\ drawn'[c] = drawn[c] + 1
<1> DEFINE x == [id |-> drawn[c] + 1, changes |-> changes]
<1>0. pending[c] \in Seq(CommitType) /\ drawn[c] \in Nat
  BY DesktopType
<1>1. x \in CommitType
  BY <1>0 DEF CommitType
<1>2. Append(pending[c], x) \in Seq(CommitType)
  BY <1>0, <1>1
<1>3. CASE DOMAIN changes = {}
  BY <1>3 DEF AppendPending, TypeOK
<1>4. CASE DOMAIN changes # {}
  <2>1. pending' = [pending EXCEPT ![c] = Append(pending[c], x)] /\ drawn' = [drawn EXCEPT ![c] = drawn[c] + 1]
    BY <1>4 DEF AppendPending
  <2> HIDE DEF x
  <2>2. pending'[c] = Append(pending[c], x) /\ drawn'[c] = drawn[c] + 1
    BY <2>1 DEF TypeOK
  <2>3. pending' \in [Clients -> Seq(CommitType)] /\ drawn' \in [Clients -> Nat]
    BY <1>0, <1>2, <2>1 DEF TypeOK
  <2>4. \A d \in Clients \ {c} : pending'[d] = pending[d] /\ drawn'[d] = drawn[d]
    BY <2>1 DEF TypeOK
  <2> QED
    BY <2>2, <2>3, <2>4 DEF x
<1> QED
  BY <1>3, <1>4

LEMMA PendsKeeps ==
    ASSUME TypeOK, NEW c \in Clients, KeepsCommits(c), UNCHANGED history, NEW x, x.id = drawn[c] + 1,
           \/ pending'[c] = pending[c] /\ drawn'[c] = drawn[c]
           \/ pending'[c] = Append(pending[c], x) /\ drawn'[c] = drawn[c] + 1
    PROVE  KeepsCommits(c)'
<1>1. pending[c] \in Seq(CommitType) /\ drawn[c] \in Nat
  BY DesktopType
<1>2. \A id : OnMain(c, id)' = OnMain(c, id)
  BY DEF OnMain
<1>3. CASE pending'[c] = pending[c] /\ drawn'[c] = drawn[c]
  BY <1>2, <1>3 DEF KeepsCommits, IsPending
<1>4. CASE pending'[c] = Append(pending[c], x) /\ drawn'[c] = drawn[c] + 1
  <2> DEFINE s == pending[c]
             t == Append(s, x)
  <2>1. /\ DOMAIN t = 1 .. Len(s) + 1 /\ t[Len(s) + 1] = x /\ DOMAIN s = 1 .. Len(s) /\ Len(s) \in Nat
        /\ \A i \in DOMAIN s : t[i] = s[i]
    BY <1>1
  <2>2. \A id : IsPending(c, id)' <=> \E i \in DOMAIN t : t[i].id = id
    BY <1>4 DEF IsPending
  <2>3. \A id : IsPending(c, id) <=> \E i \in DOMAIN s : s[i].id = id
    BY DEF IsPending
  <2> HIDE DEF s, t
  <2>4. \A id : IsPending(c, id) => IsPending(c, id)'
    BY <2>1, <2>2, <2>3
  <2>5. \A id : id = drawn[c] + 1 => IsPending(c, id)'
    BY <2>1, <2>2
  <2> QED
    BY <1>1, <1>2, <1>4, <2>4, <2>5 DEF KeepsCommits
<1> QED
  BY <1>3, <1>4

LEMMA KeptCommits ==
    ASSUME SyncInv, Grows, NEW c \in Clients, pending'[c] = pending[c], drawn'[c] = drawn[c]
    PROVE  KeepsCommits(c)'
<1>1. \A id : OnMain(c, id) # {} => OnMain(c, id)' # {}
  BY MainStays DEF SyncInv
<1>2. \A id : IsPending(c, id)' <=> IsPending(c, id)
  BY DEF IsPending
<1> QED
  BY <1>1, <1>2 DEF KeepsCommits, SyncInv, DesktopInv

(* Only the tree, the step and the step's memory change. *)
LEMMA StepMoves ==
    ASSUME SyncInv, NEW c \in Clients, NEW s \in Steps, NEW w \in WorkType,
           UNCHANGED <<history, base, baseHead, known, pending, merge, drawn>>,
           tree' \in [Clients -> Files], late' \in SUBSET RequestType,
           pc' = [pc EXCEPT ![c] = s], work' = [work EXCEPT ![c] = w],
           edit' \in [Clients -> [Paths -> Values \cup {NoEdit}]], fresh' \in [Clients -> [Paths -> SUBSET Values]],
           saves' \in Nat, faults' \in Nat,
           s \in {"autoResolve", "autoResolving", "resolving", "finish", "aborting"} => merge[c] # NoMerge,
           s \in {"download", "writing", "recordMerge", "finishAdvance"} => merge[c] = NoMerge,
           s \in {"writing", "finishAdvance"} =>
              Ahead(c) /\ w.head = known[c] /\ w.theirs = TreeAt(known[c]),
           s = "sending" => w.batch \in 1 .. Len(pending[c]),
           s # "answered"
    PROVE  SyncInv'
<1>1. TypeOK'
  BY DEF SyncInv, TypeOK, MainHead, RequestType
<1>2. pc'[c] = s /\ work'[c] = w /\ \A d \in Clients \ {c} : SameDesktop(d)
  BY DEF SyncInv, TypeOK, SameDesktop
<1>3. Grows
  BY SameHistory DEF SyncInv
<1>4. HeadsAgree(c)'
  BY DEF SyncInv, DesktopInv, HeadsAgree, Ahead, TreeAt
<1>5. MergeSteps(c)'
  BY <1>2 DEF MergeSteps, Ahead, TreeAt
<1>6. PushSteps(c)'
  BY <1>2 DEF PushSteps
<1>7. KeepsCommits(c)'
  BY <1>3, KeptCommits
<1> QED
  BY <1>1, <1>2, <1>3, <1>4, <1>5, <1>6, <1>7, OneMoves DEF DesktopInv

LEMMA Ends ==
    ASSUME SyncInv, NEW c \in Clients, EndOperation(c),
           UNCHANGED <<history, tree, base, baseHead, known, pending, merge, drawn, ghosts>>,
           late' \in SUBSET RequestType, saves' \in Nat, faults' \in Nat
    PROVE  SyncInv'
<1>1. "idle" \in Steps
  BY DEF Steps
<1>2. pc' = [pc EXCEPT ![c] = "idle"] /\ work' = [work EXCEPT ![c] = NoWork]
  BY DEF EndOperation, Goto, Work
<1>3. /\ tree' \in [Clients -> Files]
      /\ edit' \in [Clients -> [Paths -> Values \cup {NoEdit}]]
      /\ fresh' \in [Clients -> [Paths -> SUBSET Values]]
  BY DEF ghosts, SyncInv, TypeOK
<1> QED
  BY <1>1, <1>2, <1>3, NoWorkType, StepMoves

LEMMA AttemptType ==
    ASSUME NEW w \in WorkType
    PROVE  w.attempt \in 0 .. 2 /\ [NoWork EXCEPT !.attempt = w.attempt] \in WorkType
<1>1. w.attempt \in 0 .. 2
  BY DEF WorkType
<1> QED
  BY <1>1, NoWorkType

LEMMA RequestFits ==
    ASSUME TypeOK, NEW c \in Clients, work[c].batch \in 1 .. Len(pending[c])
    PROVE  Request(c) \in RequestType
<1>1. baseHead[c] \in Nat /\ pending[c] \in Seq(CommitType)
  BY DesktopType
<1>2. SubSeq(pending[c], 1, work[c].batch) \in Seq(CommitType)
  BY <1>1
<1> QED
  BY <1>1, <1>2 DEF Request, RequestType

(* What is over, fails or stops. *)
LEMMA EndSteps ==
    ASSUME SyncInv, NEW c \in Clients,
           \/ MergeRefused(c) \/ ConflictLeft(c) \/ PushNothing(c)
           \/ PullFails(c) \/ PushUnanswered(c) \/ Crash(c)
    PROVE  SyncInv'
<1>1. late \in SUBSET RequestType /\ saves \in Nat /\ faults \in Nat
  BY DEF SyncInv, TypeOK, RequestType
<1>2. CASE MergeRefused(c) \/ ConflictLeft(c) \/ PushNothing(c)
  BY <1>1, <1>2, Ends DEF MergeRefused, ConflictLeft, PushNothing, disk, counters
<1>3. CASE PullFails(c)
  BY <1>1, <1>3, Ends DEF PullFails, disk
<1>4. pc[c] = "sending" => Request(c) \in RequestType
  BY RequestFits DEF SyncInv, DesktopInv, PushSteps
<1>5. CASE PushUnanswered(c)
  BY <1>1, <1>4, <1>5, Ends DEF PushUnanswered, disk
<1>6. CASE Crash(c)
  BY <1>1, <1>4, <1>6, Ends DEF Crash, disk
<1> QED
  BY <1>2, <1>3, <1>5, <1>6

LEMMA Settles ==
    ASSUME TypeOK, NEW c \in Clients, NEW paths, Settle(c, paths)
    PROVE  /\ edit' \in [Clients -> [Paths -> Values \cup {NoEdit}]]
           /\ fresh' \in [Clients -> [Paths -> SUBSET Values]]
<1> DEFINE e == [p \in Paths |-> IF p \in paths THEN NoEdit ELSE edit[c][p]]
           f == [p \in Paths |-> IF p \in paths THEN {} ELSE fresh[c][p]]
<1>1. edit' = [edit EXCEPT ![c] = e] /\ fresh' = [fresh EXCEPT ![c] = f]
  BY DEF Settle
<1>2. e \in [Paths -> Values \cup {NoEdit}] /\ f \in [Paths -> SUBSET Values]
  BY DesktopType
<1> HIDE DEF e, f
<1> QED
  BY <1>1, <1>2 DEF TypeOK

LEMMA SaveMoves ==
    ASSUME SyncInv, NEW c \in Clients, NEW p \in Paths, NEW v \in Values, Save(c, p, v)
    PROVE  SyncInv'
<1> DEFINE t == [tree[c] EXCEPT ![p] = v]
           e == [edit[c] EXCEPT ![p] = v]
           f == [fresh[c] EXCEPT ![p] = @ \cup {v}]
<1>0. TypeOK
  BY DEF SyncInv
<1>1. tree' = [tree EXCEPT ![c] = t] /\ edit' = [edit EXCEPT ![c] = e] /\ fresh' = [fresh EXCEPT ![c] = f]
  BY DEF Save
<1>2. t \in Files /\ e \in [Paths -> Values \cup {NoEdit}] /\ f \in [Paths -> SUBSET Values]
  BY <1>0, DesktopType DEF Files
<1> HIDE DEF t, e, f
<1>3. /\ tree' \in [Clients -> Files] /\ edit' \in [Clients -> [Paths -> Values \cup {NoEdit}]]
      /\ fresh' \in [Clients -> [Paths -> SUBSET Values]] /\ saves' \in Nat
  <2>1. tree' \in [Clients -> Files]
    BY <1>0, <1>1, <1>2 DEF TypeOK
  <2>2. edit' \in [Clients -> [Paths -> Values \cup {NoEdit}]]
    BY <1>0, <1>1, <1>2 DEF TypeOK
  <2>3. fresh' \in [Clients -> [Paths -> SUBSET Values]]
    BY <1>0, <1>1, <1>2 DEF TypeOK
  <2>4. saves' = saves + 1 /\ saves \in Nat
    BY <1>0 DEF Save, TypeOK
  <2> QED
    BY <2>1, <2>2, <2>3, <2>4
<1>4. TypeOK'
  BY <1>0, <1>3 DEF TypeOK, MainHead, Save
<1>5. Grows /\ \A d \in Clients : SameDesktop(d)
  BY <1>0, SameHistory DEF Save, SameDesktop
<1> QED
  BY <1>4, <1>5, SameKeeps DEF SyncInv

LEMMA TreeType ==
    ASSUME TypeOK
    PROVE  \A h \in 1 .. MainHead : TreeAt(h) \in Files
<1>1. history \in Seq(HistoryType)
  BY DEF TypeOK, HistoryType
<1>2. \A h \in 1 .. MainHead : history[h] \in HistoryType
  BY <1>1 DEF MainHead
<1> QED
  BY <1>2 DEF TreeAt, HistoryType

LEMMA MergeBegins ==
    ASSUME SyncInv, NEW c \in Clients, MergeCompute(c)
    PROVE  SyncInv'
<1> DEFINE theirs == Apply(base[c], ServerChanges(baseHead[c], known[c]))
           mine == Committed(c)
           result == Merger!MergeFiles(base[c], theirs, mine, "conflict")
           todo == {p \in Paths : mine[p] # result.files[p]}
           w == [work[c] EXCEPT !.head = known[c], !.theirs = theirs, !.target = result.files,
                                !.todo = todo, !.conflicts = result.conflicts]
<1>0. TypeOK /\ DesktopInv(c)
  BY DEF SyncInv
<1>1. /\ base[c] \in Files /\ baseHead[c] \in 1 .. MainHead /\ known[c] \in 1 .. MainHead
      /\ mine \in Files /\ work[c] \in WorkType /\ MainHead \in Nat
  BY <1>0, DesktopType DEF MergeCompute
<1>2. \A h \in 1 .. MainHead : TreeAt(h) \in Files
  BY <1>0, TreeType
<1>3. theirs = TreeAt(known[c])
  <2>1. base[c] = TreeAt(baseHead[c])
    BY <1>0 DEF DesktopInv, HeadsAgree
  <2> QED
    BY <1>1, <1>2, <2>1, ApplyDiff DEF ServerChanges
<1>4. theirs \in Files
  BY <1>1, <1>2, <1>3
<1>5. Ahead(c) /\ merge[c] = NoMerge
  BY <1>0, <1>1 DEF MergeCompute, Ahead, DesktopInv, HeadsAgree, MergeSteps
<1>6. /\ work' = [work EXCEPT ![c] = w]
      /\ Settle(c, {p \in Paths : mine[p] = base[c][p] /\ tree[c][p] = mine[p]})
      /\ pc' = [pc EXCEPT ![c] = "writing"]
      /\ UNCHANGED <<history, late, disk, drawn, counters>>
  BY DEF MergeCompute, Work, Goto
<1> HIDE DEF theirs, mine
<1>7. result.files \in Files /\ result.conflicts \in SUBSET Paths
  BY <1>1, <1>4, MergeFits
<1> HIDE DEF result
<1>8. w \in WorkType /\ w.head = known[c] /\ w.theirs = theirs
  <2> DEFINE files == result.files
             conflicts == result.conflicts
  <2>1. files \in Files /\ conflicts \in SUBSET Paths /\ todo \in SUBSET Paths /\ known[c] \in Nat \cup {NoHead}
    BY <1>1, <1>7
  <2> HIDE DEF todo, files, conflicts
  <2>2. w = [work[c] EXCEPT !.head = known[c], !.theirs = theirs, !.target = files,
                            !.todo = todo, !.conflicts = conflicts]
    BY DEF files, conflicts
  <2> HIDE DEF w
  <2> QED
    BY <1>1, <1>4, <2>1, <2>2 DEF WorkType
<1> HIDE DEF w
<1>9. "writing" \in Steps /\ tree' \in [Clients -> Files] /\ late' \in SUBSET RequestType
      /\ saves' \in Nat /\ faults' \in Nat
  BY <1>0, <1>6 DEF Steps, TypeOK, disk, counters, RequestType
<1>10. /\ edit' \in [Clients -> [Paths -> Values \cup {NoEdit}]]
       /\ fresh' \in [Clients -> [Paths -> SUBSET Values]]
  BY <1>0, <1>6, Settles
<1>11. UNCHANGED <<history, base, baseHead, known, pending, merge, drawn>>
  BY <1>6 DEF disk
<1> QED
  BY <1>3, <1>5, <1>6, <1>8, <1>9, <1>10, <1>11, StepMoves

LEMMA AfterMergeMoves ==
    ASSUME TypeOK, NEW c \in Clients, AfterMerge(c)
    PROVE  \E s \in {"repush", "idle"}, w \in WorkType :
              pc' = [pc EXCEPT ![c] = s] /\ work' = [work EXCEPT ![c] = w]
<1>1. 2 \in 0 .. 2
  OBVIOUS
<1>2. [NoWork EXCEPT !.attempt = 2] \in WorkType
  BY <1>1, NoWorkType
<1> QED
  BY <1>2, NoWorkType DEF AfterMerge, EndOperation, Goto, Work

(* Steps of an operation that leave the base, the record and the pending   *)
(* commits alone.                                                          *)
LEMMA PlainSteps ==
    ASSUME SyncInv, NEW c \in Clients,
           \/ MergeNothing(c) \/ \E p \in Paths : MergeWrite(c, p)
           \/ \E p \in Paths, side \in Sides : Resolve(c, p, side)
           \/ ResolveNothing(c) \/ Abort(c) \/ Push(c) \/ PushRejected(c)
    PROVE  SyncInv'
<1>0. TypeOK /\ DesktopInv(c)
  BY DEF SyncInv
<1>1. /\ late \in SUBSET RequestType /\ saves \in Nat /\ faults \in Nat /\ tree \in [Clients -> Files]
      /\ edit \in [Clients -> [Paths -> Values \cup {NoEdit}]] /\ fresh \in [Clients -> [Paths -> SUBSET Values]]
      /\ \A s \in {"idle", "repush", "repull", "writing", "sending", "resolving", "autoResolving", "finish", "aborting"} :
            s \in Steps
  BY <1>0 DEF TypeOK, RequestType, Steps
<1>2. work[c] \in WorkType /\ merge[c] \in MergeType \cup {NoMerge}
      /\ pending[c] \in Seq(CommitType) /\ tree[c] \in Files
      /\ edit[c] \in [Paths -> Values \cup {NoEdit}] /\ fresh[c] \in [Paths -> SUBSET Values]
  BY <1>0, DesktopType
<1>3. CASE MergeNothing(c)
  <2>1. PICK s \in {"repush", "idle"}, w \in WorkType :
            pc' = [pc EXCEPT ![c] = s] /\ work' = [work EXCEPT ![c] = w]
    BY <1>0, <1>3, AfterMergeMoves DEF MergeNothing
  <2> QED
    BY <1>1, <1>3, <2>1, StepMoves DEF MergeNothing, disk, ghosts, counters
<1>4. ASSUME NEW p \in Paths, MergeWrite(c, p) PROVE SyncInv'
  <2> DEFINE w == [work[c] EXCEPT !.todo = work[c].todo \ {p}]
             t == [tree[c] EXCEPT ![p] = work[c].target[p]]
  <2>1. w \in WorkType /\ w.head = work[c].head /\ w.theirs = work[c].theirs
    BY <1>2 DEF WorkType
  <2>2. t \in Files
    <3>1. work[c].target \in Files
      BY <1>2 DEF WorkType
    <3> QED
      BY <1>2, <3>1 DEF Files
  <2>3. work' = [work EXCEPT ![c] = [work[c] EXCEPT !.todo = @ \ {p}]] /\ tree' = [tree EXCEPT ![c] = t]
    BY <1>4 DEF MergeWrite, Work
  <2>4. [work[c] EXCEPT !.todo = @ \ {p}] = w
    BY <1>2 DEF WorkType
  <2> HIDE DEF w, t
  <2>5. tree' \in [Clients -> Files]
    BY <1>1, <2>2, <2>3
  <2>6. pc[c] = "writing" /\ pc' = [pc EXCEPT ![c] = "writing"]
    BY <1>0, <1>4 DEF MergeWrite, TypeOK
  <2>7. merge[c] = NoMerge /\ Ahead(c) /\ work[c].head = known[c] /\ work[c].theirs = TreeAt(known[c])
    BY <1>0, <2>6 DEF DesktopInv, MergeSteps
  <2> QED
    BY <1>1, <1>4, <2>1, <2>3, <2>4, <2>5, <2>6, <2>7, StepMoves DEF MergeWrite, ghosts, counters
<1>5. ASSUME NEW p \in Paths, NEW side \in Sides, Resolve(c, p, side) PROVE SyncInv'
  <2> DEFINE k == Kept(c, p, side)
             w == [work[c] EXCEPT !.todo = {p}]
             t == [tree[c] EXCEPT ![p] = k]
             s == IF pc[c] = "idle" THEN "resolving" ELSE "autoResolving"
             e == [edit[c] EXCEPT ![p] = IF side = "mine" THEN k ELSE NoEdit]
             f == [fresh[c] EXCEPT ![p] = IF side = "mine" THEN {k} ELSE {}]
  <2>1. merge[c] # NoMerge /\ merge[c] \in MergeType
    BY <1>2, <1>5 DEF Resolve, InConflict
  <2>2. k \in Values
    <3>1. merge[c].mine \in Files /\ merge[c].theirs \in Files
      BY <2>1 DEF MergeType
    <3> QED
      BY <3>1 DEF Kept, Files
  <2>3. w \in WorkType /\ s \in {"resolving", "autoResolving"}
    BY <1>2 DEF WorkType
  <2>4. /\ tree' = [tree EXCEPT ![c] = t] /\ edit' = [edit EXCEPT ![c] = e] /\ fresh' = [fresh EXCEPT ![c] = f]
        /\ work' = [work EXCEPT ![c] = w] /\ pc' = [pc EXCEPT ![c] = s]
        /\ UNCHANGED <<history, late, base, baseHead, known, pending, merge, drawn, counters>>
    BY <1>5 DEF Resolve, Work, Goto
  <2> HIDE DEF k
  <2>5. t \in Files /\ e \in [Paths -> Values \cup {NoEdit}] /\ f \in [Paths -> SUBSET Values]
    BY <1>2, <2>2 DEF Files
  <2> HIDE DEF w, t, s, e, f
  <2>6. /\ tree' \in [Clients -> Files] /\ edit' \in [Clients -> [Paths -> Values \cup {NoEdit}]]
        /\ fresh' \in [Clients -> [Paths -> SUBSET Values]]
    BY <1>1, <2>4, <2>5
  <2> QED
    BY <1>1, <2>1, <2>3, <2>4, <2>6, StepMoves DEF counters
<1>6. CASE ResolveNothing(c)
  <2>1. work' = [work EXCEPT ![c] = work[c]]
    BY <1>0, <1>6 DEF ResolveNothing, TypeOK
  <2> QED
    BY <1>1, <1>2, <1>6, <2>1, StepMoves DEF ResolveNothing, Goto, disk, ghosts, counters
<1>7. CASE Abort(c)
  <2> DEFINE t == [p \in Paths |-> IF p \in merge[c].paths THEN merge[c].preMerge[p] ELSE tree[c][p]]
             open == {p \in merge[c].paths : merge[c].preMerge[p] # base[c][p]}
             e == [p \in Paths |-> IF p \in open THEN merge[c].preMerge[p]
                                   ELSE IF p \in merge[c].paths /\ edit[c][p] # merge[c].preMerge[p] THEN NoEdit
                                   ELSE edit[c][p]]
             f == [p \in Paths |-> IF p \in open THEN fresh[c][p] \cup {merge[c].preMerge[p]} ELSE fresh[c][p]]
  <2>1. /\ tree' = [tree EXCEPT ![c] = t] /\ edit' = [edit EXCEPT ![c] = e] /\ fresh' = [fresh EXCEPT ![c] = f]
        /\ pc' = [pc EXCEPT ![c] = "aborting"] /\ merge[c] # NoMerge
        /\ UNCHANGED <<history, late, base, baseHead, known, pending, merge, work, drawn, counters>>
    BY <1>7 DEF Abort, Goto
  <2>2. merge[c].preMerge \in Files
    BY <1>2, <2>1 DEF MergeType
  <2>3. t \in Files /\ e \in [Paths -> Values \cup {NoEdit}] /\ f \in [Paths -> SUBSET Values]
    <3>1. \A p \in Paths : merge[c].preMerge[p] \in Values
      BY <2>2 DEF Files
    <3> HIDE DEF open
    <3> QED
      BY <1>2, <3>1 DEF Files
  <2> HIDE DEF t, e, f
  <2>4. /\ tree' \in [Clients -> Files] /\ edit' \in [Clients -> [Paths -> Values \cup {NoEdit}]]
        /\ fresh' \in [Clients -> [Paths -> SUBSET Values]]
    BY <1>1, <2>1, <2>3
  <2>5. work' = [work EXCEPT ![c] = work[c]]
    BY <1>0, <2>1 DEF TypeOK
  <2> QED
    BY <1>1, <1>2, <2>1, <2>4, <2>5, StepMoves DEF counters
<1>8. CASE Push(c)
  <2>1. PICK n \in Batches(c), attempt \in {1, 2} : Work(c, [NoWork EXCEPT !.batch = n, !.attempt = attempt])
    BY <1>8 DEF Push
  <2> DEFINE w == [NoWork EXCEPT !.batch = n, !.attempt = attempt]
  <2>2. n \in 1 .. Len(pending[c])
    <3>0. pending[c] # <<>>
      BY <1>8 DEF Push
    <3>1. pending[c] # <<>> /\ Len(pending[c]) \in Nat
      BY <1>2, <3>0
    <3>2. Len(pending[c]) # 0
      BY <1>2, <3>1
    <3> QED
      BY <3>1, <3>2 DEF Batches
  <2>3. w \in WorkType /\ w.batch = n
    <3>1. NoWork \in WorkType /\ attempt \in 0 .. 2 /\ n \in Nat
      BY <2>2, NoWorkType
    <3> QED
      BY <3>1 DEF WorkType
  <2> HIDE DEF w
  <2>4. work' = [work EXCEPT ![c] = w] /\ pc' = [pc EXCEPT ![c] = "sending"]
    BY <1>8, <2>1 DEF Push, Work, Goto, w
  <2> QED
    BY <1>1, <1>8, <2>2, <2>3, <2>4, StepMoves DEF Push, disk, ghosts, counters
<1>9. CASE PushRejected(c)
  <2>1. CASE work[c].attempt = 1
    <3>1. 1 \in 0 .. 2
      OBVIOUS
    <3>2. [NoWork EXCEPT !.attempt = 1] \in WorkType
      BY <3>1, NoWorkType
    <3> QED
      BY <1>1, <1>9, <2>1, <3>2, StepMoves DEF PushRejected, Goto, Work, disk, ghosts, counters
  <2>2. CASE work[c].attempt # 1
    BY <1>1, <1>9, <2>2, Ends DEF PushRejected, disk, counters
  <2> QED
    BY <2>1, <2>2
<1> QED
  BY <1>3, <1>4, <1>5, <1>6, <1>7, <1>8, <1>9

---------------------------------------------------------------------------
(* Steps that change the record, the base or the pending commits *)

(* The record changes, or goes. *)
LEMMA RecordMoves ==
    ASSUME SyncInv, NEW c \in Clients, NEW s \in Steps, NEW w \in WorkType, NEW m \in MergeType \cup {NoMerge},
           UNCHANGED <<history, late, tree, base, baseHead, known, pending, drawn, ghosts, counters>>,
           merge' = [merge EXCEPT ![c] = m], pc' = [pc EXCEPT ![c] = s], work' = [work EXCEPT ![c] = w],
           m # NoMerge => Ahead(c) /\ m.theirs = TreeAt(known[c]),
           s \in {"autoResolve", "autoResolving", "resolving", "finish", "aborting"} => m # NoMerge,
           s \in {"idle", "autoResolve", "autoResolving", "resolving", "finish", "finishAdvance"},
           s = "finishAdvance" => m = NoMerge /\ Ahead(c) /\ w.head = known[c] /\ w.theirs = TreeAt(known[c])
    PROVE  SyncInv'
<1>0. TypeOK /\ DesktopInv(c)
  BY DEF SyncInv
<1>1. TypeOK'
  BY <1>0 DEF TypeOK, MainHead, ghosts, counters
<1>2. pc'[c] = s /\ work'[c] = w /\ merge'[c] = m /\ \A d \in Clients \ {c} : SameDesktop(d)
  BY <1>0 DEF TypeOK, SameDesktop
<1>3. Grows
  BY <1>0, SameHistory
<1>4. HeadsAgree(c)'
  BY <1>0, <1>2 DEF DesktopInv, HeadsAgree, Ahead, TreeAt
<1>5. MergeSteps(c)' /\ PushSteps(c)'
  BY <1>2 DEF MergeSteps, PushSteps, Ahead, TreeAt
<1>6. KeepsCommits(c)'
  BY <1>3, KeptCommits
<1> QED
  BY <1>1, <1>2, <1>3, <1>4, <1>5, <1>6, OneMoves DEF DesktopInv

LEMMA RecordSteps ==
    ASSUME SyncInv, NEW c \in Clients,
           MergeConflict(c) \/ ResolveRecord(c) \/ FinishClear(c) \/ AbortClear(c)
    PROVE  SyncInv'
<1>0. TypeOK /\ DesktopInv(c)
  BY DEF SyncInv
<1>1. /\ work[c] \in WorkType /\ merge[c] \in MergeType \cup {NoMerge} /\ tree[c] \in Files
      /\ Committed(c) \in Files /\ NoMerge \notin MergeType
  BY <1>0, DesktopType, MarkersAssumption
<1>2. \A s \in {"idle", "autoResolve", "autoResolving", "resolving", "finish", "finishAdvance"} : s \in Steps
  BY DEF Steps
<1>3. CASE MergeConflict(c)
  <2> DEFINE mine == Committed(c)
             paths == work[c].conflicts \cup {p \in Paths : mine[p] # work[c].target[p]}
             m == [conflicts |-> work[c].conflicts, mine |-> mine, theirs |-> work[c].theirs, preMerge |-> mine,
                   paths |-> paths]
             w == [NoWork EXCEPT !.attempt = work[c].attempt]
  <2>1. merge' = [merge EXCEPT ![c] = m] /\ work' = [work EXCEPT ![c] = w] /\ pc' = [pc EXCEPT ![c] = "autoResolve"]
        /\ UNCHANGED <<history, late, tree, base, baseHead, known, pending, drawn, ghosts, counters>>
    BY <1>3 DEF MergeConflict, Goto, Work
  <2>2. w \in WorkType
    BY <1>1, AttemptType
  <2>3. work[c].conflicts \in SUBSET Paths /\ work[c].theirs \in Files
    BY <1>1 DEF WorkType
  <2>4. paths \in SUBSET Paths
    BY <2>3
  <2> HIDE DEF paths, mine
  <2>5. m \in MergeType
    BY <1>1, <2>3, <2>4 DEF MergeType, mine
  <2>6. Ahead(c) /\ m.theirs = TreeAt(known[c])
    BY <1>0, <1>3 DEF MergeConflict, DesktopInv, MergeSteps
  <2> HIDE DEF m, w
  <2> QED
    BY <1>1, <1>2, <2>1, <2>2, <2>5, <2>6, RecordMoves
<1>4. CASE ResolveRecord(c)
  <2> DEFINE left == merge[c].conflicts \ work[c].todo
             m == [merge[c] EXCEPT !.conflicts = left]
             w == [work[c] EXCEPT !.todo = {}]
             s == IF left = {} THEN "finish" ELSE IF pc[c] = "resolving" THEN "idle" ELSE "autoResolve"
  <2>1. merge[c] \in MergeType /\ Ahead(c) /\ merge[c].theirs = TreeAt(known[c])
    BY <1>0, <1>1, <1>4 DEF ResolveRecord, DesktopInv, MergeSteps, HeadsAgree
  <2>2. merge' = [merge EXCEPT ![c] = m]
    BY <1>0, <1>4 DEF ResolveRecord, TypeOK
  <2>3. /\ work' = [work EXCEPT ![c] = w] /\ pc' = [pc EXCEPT ![c] = s]
        /\ UNCHANGED <<history, late, tree, base, baseHead, known, pending, drawn, ghosts, counters>>
    BY <1>4 DEF ResolveRecord, Work, Goto
  <2>4. left \in SUBSET Paths
    BY <2>1 DEF MergeType
  <2>5. s \in {"idle", "autoResolve", "finish"}
    OBVIOUS
  <2> HIDE DEF left, s
  <2>6. m \in MergeType /\ m.theirs = merge[c].theirs /\ w \in WorkType
    BY <1>1, <2>1, <2>4 DEF MergeType, WorkType
  <2>7. m # NoMerge
    BY <1>1, <2>6
  <2> HIDE DEF m, w
  <2> QED
    BY <1>2, <2>1, <2>2, <2>3, <2>5, <2>6, <2>7, RecordMoves
<1>5. CASE FinishClear(c)
  <2> DEFINE target == [p \in Paths |-> IF p \in merge[c].paths THEN tree[c][p] ELSE Committed(c)[p]]
             w == [work[c] EXCEPT !.head = known[c], !.theirs = merge[c].theirs, !.target = target]
  <2>1. merge[c] \in MergeType /\ Ahead(c) /\ merge[c].theirs = TreeAt(known[c])
    BY <1>0, <1>1, <1>5 DEF FinishClear, DesktopInv, MergeSteps, HeadsAgree
  <2>2. /\ merge' = [merge EXCEPT ![c] = NoMerge] /\ work' = [work EXCEPT ![c] = w]
        /\ pc' = [pc EXCEPT ![c] = "finishAdvance"]
        /\ UNCHANGED <<history, late, tree, base, baseHead, known, pending, drawn, ghosts, counters>>
    BY <1>5 DEF FinishClear, Work, Goto
  <2>3. target \in Files /\ merge[c].theirs \in Files /\ known[c] \in Nat \cup {NoHead}
    BY <1>0, <1>1, <2>1, DesktopType DEF MergeType, Files
  <2> HIDE DEF target
  <2>4. w \in WorkType /\ w.head = known[c] /\ w.theirs = merge[c].theirs
    BY <1>1, <2>3 DEF WorkType
  <2> HIDE DEF w
  <2> QED
    BY <1>2, <2>1, <2>2, <2>4, RecordMoves
<1>6. CASE AbortClear(c)
  BY <1>2, <1>6, NoWorkType, RecordMoves DEF AbortClear, EndOperation, Goto, Work
<1> QED
  BY <1>3, <1>4, <1>5, <1>6

(* A fetch moves the known head only while no merge is open. *)
LEMMA Fetches ==
    ASSUME SyncInv, NEW c \in Clients, known' = [known EXCEPT ![c] = FetchedHead(c)], UNCHANGED <<history, baseHead>>
    PROVE  /\ known' \in [Clients -> 1 .. MainHead \cup {NoHead}]
           /\ known'[c] # NoHead => baseHead'[c] <= known'[c]
           /\ merge[c] # NoMerge => known'[c] = known[c]
           /\ \A d \in Clients \ {c} : known'[d] = known[d]
<1>0. TypeOK /\ DesktopInv(c)
  BY DEF SyncInv
<1>1. known[c] \in 1 .. MainHead \cup {NoHead} /\ baseHead[c] \in 1 .. MainHead /\ MainHead \in Nat /\ MainHead >= 1
  BY <1>0, DesktopType DEF TypeOK
<1>2. known'[c] = FetchedHead(c) /\ \A d \in Clients \ {c} : known'[d] = known[d]
  BY <1>0 DEF TypeOK
<1>3. FetchedHead(c) \in 1 .. MainHead \cup {NoHead}
  BY <1>1 DEF FetchedHead
<1>4. known' \in [Clients -> 1 .. MainHead \cup {NoHead}]
  BY <1>0, <1>3 DEF TypeOK
<1> QED
  BY <1>0, <1>1, <1>2, <1>4 DEF FetchedHead, DesktopInv, HeadsAgree

(* What a commit adds to the pending ones. *)
LEMMA ChangesFit ==
    ASSUME TypeOK, NEW c \in Clients, NEW t \in Files
    PROVE  Diff(Committed(c), t) \in Changes
  BY DesktopType, ApplyDiff

LEMMA FetchSteps ==
    ASSUME SyncInv, NEW c \in Clients, Commit(c) \/ Fetch(c) \/ Pull(c) \/ PullRefused(c)
    PROVE  SyncInv'
<1> DEFINE changes == Diff(Committed(c), tree[c])
           x == [id |-> drawn[c] + 1, changes |-> changes]
<1>0. TypeOK /\ DesktopInv(c) /\ Grows
  BY SameHistory DEF SyncInv, Commit, Fetch, Pull, PullRefused
<1>1. changes \in Changes
  BY <1>0, DesktopType, ChangesFit
<1> HIDE DEF changes
<1>2. /\ pending' \in [Clients -> Seq(CommitType)] /\ drawn' \in [Clients -> Nat]
      /\ \A d \in Clients \ {c} : pending'[d] = pending[d] /\ drawn'[d] = drawn[d]
      /\ \/ pending'[c] = pending[c] /\ drawn'[c] = drawn[c]
         \/ pending'[c] = Append(pending[c], x) /\ drawn'[c] = drawn[c] + 1
  <2>1. CASE AppendPending(c, changes)
    BY <1>0, <1>1, <2>1, Pends
  <2>2. CASE UNCHANGED <<pending, drawn>>
    BY <1>0, <2>2 DEF TypeOK
  <2> QED
    BY <2>1, <2>2 DEF Commit, Fetch, Pull, PullRefused, changes
<1>3. UNCHANGED <<history, late, tree, base, baseHead, merge, ghosts, counters>>
  BY DEF Commit, Fetch, Pull, PullRefused
<1>4. /\ known' \in [Clients -> 1 .. MainHead \cup {NoHead}]
      /\ known'[c] # NoHead => baseHead'[c] <= known'[c]
      /\ merge[c] # NoMerge => known'[c] = known[c]
      /\ \A d \in Clients \ {c} : known'[d] = known[d]
  <2>1. CASE UNCHANGED known
    BY <1>0, <1>3, <2>1 DEF TypeOK, DesktopInv, HeadsAgree
  <2>2. CASE known' = [known EXCEPT ![c] = FetchedHead(c)]
    BY <1>3, <2>2, Fetches
  <2> QED
    BY <2>1, <2>2 DEF Commit, Fetch, Pull, PullRefused
<1>5. PICK s \in {"idle", "finish", "download"}, w \in WorkType :
          /\ pc' = [pc EXCEPT ![c] = s] /\ work' = [work EXCEPT ![c] = w]
          /\ s = "finish" => merge[c] # NoMerge
          /\ s = "download" => merge[c] = NoMerge
  <2>1. pc = [pc EXCEPT ![c] = pc[c]] /\ work = [work EXCEPT ![c] = work[c]] /\ work[c] \in WorkType
    BY <1>0 DEF TypeOK
  <2>2. CASE Commit(c) \/ Fetch(c)
    BY <2>1, <2>2 DEF Commit, Fetch
  <2>3. CASE PullRefused(c)
    BY <2>3, NoWorkType DEF PullRefused, EndOperation, Goto, Work
  <2>4. CASE Pull(c)
    BY <2>1, <2>4 DEF Pull, Goto
  <2> QED
    BY <2>2, <2>3, <2>4
<1>6. TypeOK'
  <2>1. s \in Steps
    BY <1>5 DEF Steps
  <2> QED
    BY <1>0, <1>2, <1>3, <1>4, <1>5, <2>1 DEF TypeOK, MainHead, ghosts, counters
<1>7. pc'[c] = s /\ work'[c] = w /\ \A d \in Clients \ {c} : SameDesktop(d)
  BY <1>0, <1>2, <1>3, <1>4, <1>5 DEF TypeOK, SameDesktop
<1>8. HeadsAgree(c)'
  BY <1>0, <1>3, <1>4 DEF DesktopInv, HeadsAgree, Ahead, TreeAt
<1>9. MergeSteps(c)' /\ PushSteps(c)'
  BY <1>3, <1>5, <1>7 DEF MergeSteps, PushSteps
<1>10. KeepsCommits(c)'
  BY <1>0, <1>2, <1>3, PendsKeeps DEF DesktopInv
<1> QED
  BY <1>0, <1>6, <1>7, <1>8, <1>9, <1>10, OneMoves DEF DesktopInv

(* The base moves, to main's tree at the head it moves to. *)
LEMMA BaseMoves ==
    ASSUME SyncInv, NEW c \in Clients, NEW h \in 1 .. MainHead, NEW s \in Steps, NEW w \in WorkType,
           AdvanceBase(c, h, TreeAt(h)), merge[c] = NoMerge,
           UNCHANGED <<history, late, tree, merge, drawn, ghosts, counters>>,
           pc' = [pc EXCEPT ![c] = s], work' = [work EXCEPT ![c] = w],
           pending' \in [Clients -> Seq(CommitType)], \A d \in Clients \ {c} : pending'[d] = pending[d],
           KeepsCommits(c)',
           s \in {"idle", "repush", "recordMerge", "sending"},
           s = "sending" => w.batch \in 1 .. Len(pending'[c])
    PROVE  SyncInv'
<1>0. TypeOK /\ DesktopInv(c)
  BY DEF SyncInv
<1>1. TreeAt(h) \in Files /\ h \in Nat /\ NoHead \notin Nat
  BY <1>0, TreeType, MarkersAssumption
<1>2. PICK t : t = TreeAt(h)
  OBVIOUS
<1>3. base' = [base EXCEPT ![c] = t] /\ baseHead' = [baseHead EXCEPT ![c] = h] /\ known' = [known EXCEPT ![c] = h]
  BY <1>2 DEF AdvanceBase
<1>4. base' \in [Clients -> Files] /\ baseHead' \in [Clients -> 1 .. MainHead] /\ known' \in [Clients -> 1 .. MainHead \cup {NoHead}]
  BY <1>0, <1>1, <1>2, <1>3 DEF TypeOK
<1>5. TypeOK'
  BY <1>0, <1>4 DEF TypeOK, MainHead, ghosts, counters
<1>6. /\ base'[c] = t /\ baseHead'[c] = h /\ known'[c] = h /\ pc'[c] = s /\ work'[c] = w /\ merge'[c] = NoMerge
      /\ \A d \in Clients \ {c} : SameDesktop(d)
  BY <1>0, <1>3 DEF TypeOK, SameDesktop
<1>7. HeadsAgree(c)'
  BY <1>1, <1>2, <1>6 DEF HeadsAgree, TreeAt
<1>8. MergeSteps(c)' /\ PushSteps(c)'
  BY <1>6 DEF MergeSteps, PushSteps
<1> QED
  BY <1>0, <1>5, <1>6, <1>7, <1>8, SameHistory, OneMoves DEF DesktopInv

LEMMA AdvanceSteps ==
    ASSUME SyncInv, NEW c \in Clients, MergeAdvance(c) \/ FinishAdvance(c)
    PROVE  SyncInv'
<1>0. TypeOK /\ DesktopInv(c)
  BY DEF SyncInv
<1>1. /\ merge[c] = NoMerge /\ Ahead(c) /\ work[c].head = known[c] /\ work[c].theirs = TreeAt(known[c])
  BY <1>0 DEF MergeAdvance, FinishAdvance, DesktopInv, MergeSteps
<1>2. known[c] \in 1 .. MainHead /\ work[c] \in WorkType
  BY <1>0, <1>1, DesktopType DEF Ahead
<1>3. AdvanceBase(c, known[c], TreeAt(known[c]))
  BY <1>1 DEF MergeAdvance, FinishAdvance
<1>4. UNCHANGED <<history, late, tree, pending, merge, drawn, ghosts, counters>>
  BY DEF MergeAdvance, FinishAdvance
<1>5. PICK s \in {"idle", "repush", "recordMerge"}, w \in WorkType :
          pc' = [pc EXCEPT ![c] = s] /\ work' = [work EXCEPT ![c] = w]
  <2>1. work = [work EXCEPT ![c] = work[c]]
    BY <1>0 DEF TypeOK
  <2>2. CASE pc' = [pc EXCEPT ![c] = "recordMerge"] /\ UNCHANGED work
    BY <1>2, <2>1, <2>2
  <2>3. CASE AfterMerge(c)
    BY <1>0, <2>3, AfterMergeMoves
  <2> QED
    BY <2>2, <2>3 DEF MergeAdvance, FinishAdvance, Goto
<1>6. s \in Steps
  BY <1>5 DEF Steps
<1>7. /\ pending' \in [Clients -> Seq(CommitType)]
      /\ \A d \in Clients \ {c} : pending'[d] = pending[d]
      /\ KeepsCommits(c)'
  BY <1>0, <1>4, SameHistory, KeptCommits DEF TypeOK
<1> QED
  BY <1>1, <1>2, <1>3, <1>4, <1>5, <1>6, <1>7, BaseMoves

(* The Merge commit over the pending ones. *)
LEMMA MergeRecorded ==
    ASSUME SyncInv, NEW c \in Clients, RecordMerge(c)
    PROVE  SyncInv'
<1> DEFINE changes == Diff(Committed(c), work[c].target)
           x == [id |-> drawn[c] + 1, changes |-> changes]
<1>0. TypeOK /\ DesktopInv(c) /\ Grows /\ merge[c] = NoMerge
  BY SameHistory DEF SyncInv, RecordMerge, DesktopInv, MergeSteps
<1>1. work[c].target \in Files
  BY <1>0, DesktopType DEF WorkType
<1>2. changes \in Changes
  BY <1>0, <1>1, ChangesFit
<1>3. AppendPending(c, changes)
  BY DEF RecordMerge
<1> HIDE DEF changes
<1>4. /\ pending' \in [Clients -> Seq(CommitType)] /\ drawn' \in [Clients -> Nat]
      /\ \A d \in Clients \ {c} : pending'[d] = pending[d] /\ drawn'[d] = drawn[d]
      /\ \/ pending'[c] = pending[c] /\ drawn'[c] = drawn[c]
         \/ pending'[c] = Append(pending[c], x) /\ drawn'[c] = drawn[c] + 1
  BY <1>0, <1>2, <1>3, Pends
<1>5. UNCHANGED <<history, late, tree, base, baseHead, known, merge, ghosts, counters>>
  BY DEF RecordMerge
<1>6. PICK s \in {"repush", "idle"}, w \in WorkType :
          pc' = [pc EXCEPT ![c] = s] /\ work' = [work EXCEPT ![c] = w]
  BY <1>0, AfterMergeMoves DEF RecordMerge
<1>7. TypeOK'
  <2>1. s \in Steps
    BY <1>6 DEF Steps
  <2> QED
    BY <1>0, <1>4, <1>5, <1>6, <2>1 DEF TypeOK, MainHead, ghosts, counters
<1>8. pc'[c] = s /\ \A d \in Clients \ {c} : SameDesktop(d)
  BY <1>0, <1>4, <1>5, <1>6 DEF TypeOK, SameDesktop
<1>9. HeadsAgree(c)'
  BY <1>0, <1>5 DEF DesktopInv, HeadsAgree, Ahead, TreeAt
<1>10. MergeSteps(c)' /\ PushSteps(c)'
  BY <1>6, <1>8 DEF MergeSteps, PushSteps
<1>11. KeepsCommits(c)'
  BY <1>0, <1>4, <1>5, PendsKeeps DEF DesktopInv
<1> QED
  BY <1>0, <1>7, <1>8, <1>9, <1>10, <1>11, OneMoves DEF DesktopInv

(* What an answered request carried leaves the pending commits: main has it. *)
LEMMA Leaves ==
    ASSUME NEW s \in Seq(CommitType), NEW b \in 1 .. Len(s)
    PROVE  /\ SubSeq(s, b + 1, Len(s)) \in Seq(CommitType)
           /\ Len(SubSeq(s, b + 1, Len(s))) = Len(s) - b
           /\ \A j \in 1 .. Len(s) - b : SubSeq(s, b + 1, Len(s))[j] = s[j + b]
           /\ \A i \in b + 1 .. Len(s) : \E j \in DOMAIN SubSeq(s, b + 1, Len(s)) : SubSeq(s, b + 1, Len(s))[j] = s[i]
<1>1. Len(s) \in Nat /\ b \in Nat /\ b >= 1 /\ b <= Len(s)
  OBVIOUS
<1>2. SubSeq(s, b + 1, Len(s)) \in Seq(CommitType)
  OBVIOUS
<1>3. Len(SubSeq(s, b + 1, Len(s))) = Len(s) - b
  BY <1>1
<1>4. ASSUME NEW i \in b + 1 .. Len(s)
      PROVE  i - b \in DOMAIN SubSeq(s, b + 1, Len(s)) /\ SubSeq(s, b + 1, Len(s))[i - b] = s[i]
  BY <1>1
<1>5. ASSUME NEW j \in 1 .. Len(s) - b PROVE SubSeq(s, b + 1, Len(s))[j] = s[j + b]
  BY <1>1
<1> QED
  BY <1>2, <1>3, <1>4, <1>5

LEMMA PushEnds ==
    ASSUME SyncInv, NEW c \in Clients, PushAdvance(c)
    PROVE  SyncInv'
<1> DEFINE s == pending[c]
           b == work[c].batch
           left == SubSeq(s, b + 1, Len(s))
<1>0. TypeOK /\ DesktopInv(c)
  BY DEF SyncInv
<1>1. /\ s \in Seq(CommitType) /\ b \in 1 .. Len(s) /\ baseHead[c] \in 1 .. MainHead /\ work[c] \in WorkType
      /\ merge[c] = NoMerge /\ MainHead \in Nat
      /\ work[c].head \in baseHead[c] + 1 .. MainHead
      /\ TreeAt(work[c].head) = Replay(base[c], s, b)
      /\ \A i \in 1 .. b : OnMain(c, s[i].id) # {}
  BY <1>0, DesktopType DEF PushAdvance, DesktopInv, PushSteps, MergeSteps
<1>2. work[c].head \in 1 .. MainHead
  BY <1>1
<1>3. AdvanceBase(c, work[c].head, TreeAt(work[c].head))
  BY <1>1 DEF PushAdvance
<1>4. pending' = [pending EXCEPT ![c] = left] /\ UNCHANGED <<history, late, tree, merge, drawn, ghosts, counters>>
  BY <1>0 DEF PushAdvance, TypeOK
<1>5. /\ left \in Seq(CommitType) /\ Len(left) = Len(s) - b
      /\ \A i \in b + 1 .. Len(s) : \E j \in DOMAIN left : left[j] = s[i]
  BY <1>1, Leaves
<1>6. PICK step \in {"idle", "sending"}, w \in WorkType :
          /\ pc' = [pc EXCEPT ![c] = step] /\ work' = [work EXCEPT ![c] = w]
          /\ step = "sending" => w.batch \in 1 .. Len(left)
  <2>1. CASE b = Len(s)
    BY <2>1, NoWorkType DEF PushAdvance, EndOperation, Goto, Work
  <2>2. CASE b # Len(s)
    <3>1. PICK n \in 1 .. Len(s) - b : Work(c, [NoWork EXCEPT !.batch = n, !.attempt = work[c].attempt])
      BY <2>2 DEF PushAdvance
    <3> DEFINE w == [NoWork EXCEPT !.batch = n, !.attempt = work[c].attempt]
    <3>2. w \in WorkType /\ w.batch = n
      <4>1. NoWork \in WorkType /\ n \in Nat /\ work[c].attempt \in 0 .. 2
        <5>1. n \in Nat
          BY <1>1
        <5> QED
          BY <1>1, <5>1, NoWorkType DEF WorkType
      <4> QED
        BY <4>1 DEF WorkType
    <3> HIDE DEF w
    <3>3. work' = [work EXCEPT ![c] = w] /\ pc' = [pc EXCEPT ![c] = "sending"]
      BY <2>2, <3>1 DEF PushAdvance, Work, Goto, w
    <3>4. n \in 1 .. Len(left)
      BY <1>5
    <3> QED
      BY <3>2, <3>3, <3>4
  <2> QED
    BY <2>1, <2>2
<1> HIDE DEF left
<1>7. /\ pending' \in [Clients -> Seq(CommitType)] /\ pending'[c] = left
      /\ \A d \in Clients \ {c} : pending'[d] = pending[d]
  BY <1>0, <1>4, <1>5 DEF TypeOK
<1>8. KeepsCommits(c)'
  <2>1. \A id : OnMain(c, id)' = OnMain(c, id)
    BY <1>4 DEF OnMain
  <2>2. \A id : IsPending(c, id)' <=> \E j \in DOMAIN left : left[j].id = id
    BY <1>7 DEF IsPending
  <2>3. ASSUME NEW id, IsPending(c, id) PROVE IsPending(c, id)' \/ OnMain(c, id) # {}
    <3>1. PICK i \in 1 .. Len(s) : s[i].id = id
      BY <1>1, <2>3 DEF IsPending
    <3>2. CASE i \in 1 .. b
      BY <1>1, <3>1, <3>2
    <3>3. CASE i \in b + 1 .. Len(s)
      BY <1>5, <2>2, <3>1, <3>3
    <3> QED
      BY <1>1, <3>2, <3>3
  <2>4. drawn' = drawn
    BY <1>4
  <2> QED
    BY <1>0, <2>1, <2>3, <2>4 DEF KeepsCommits, DesktopInv
<1>9. step \in Steps
  BY <1>6 DEF Steps
<1> QED
  BY <1>1, <1>2, <1>3, <1>4, <1>6, <1>7, <1>8, <1>9, BaseMoves

---------------------------------------------------------------------------
(* Main takes a request *)

LEMMA PublishedType ==
    ASSUME TypeOK, NEW r \in RequestType, Published(r)
    PROVE  /\ edit' \in [Clients -> [Paths -> Values \cup {NoEdit}]]
           /\ fresh' \in [Clients -> [Paths -> SUBSET Values]]
<1> DEFINE carried == {r.commits[i].id : i \in DOMAIN r.commits}
           seen == [p \in Paths |-> {r.commits[i].changes[p] : i \in Touching(r.commits, Len(r.commits), p)}]
           later == [p \in Paths |-> {i \in Touching(pending[r.author], Len(pending[r.author]), p) :
                                         pending[r.author][i].id \notin carried}]
           open == [p \in Paths |-> later[p] # {} \/ tree[r.author][p] # Committed(r.author)[p]]
           ahead == [p \in Paths |-> {pending[r.author][i].changes[p] : i \in later[p]}]
           left == [p \in Paths |-> IF ~open[p] /\ edit[r.author][p] \in seen[p] THEN NoEdit
                                    ELSE edit[r.author][p]]
           unseen == [p \in Paths |-> {v \in fresh[r.author][p] : v \in seen[p] => v = left[p] \/ v \in ahead[p]}]
<1>1. r.author \in Clients
  BY DEF RequestType
<1>2. edit[r.author] \in [Paths -> Values \cup {NoEdit}] /\ fresh[r.author] \in [Paths -> SUBSET Values]
  BY <1>1, DesktopType
<1>3. edit' = [edit EXCEPT ![r.author] = left] /\ fresh' = [fresh EXCEPT ![r.author] = unseen]
  BY DEF Published
<1> HIDE DEF seen, open, ahead
<1>4. left \in [Paths -> Values \cup {NoEdit}]
  BY <1>2
<1> HIDE DEF left
<1>5. unseen \in [Paths -> SUBSET Values]
  BY <1>2
<1> HIDE DEF unseen
<1> QED
  BY <1>1, <1>3, <1>4, <1>5 DEF TypeOK

(* One commit on main for each commit of the request, each with the tree   *)
(* its changes make of the one before.                                     *)
LEMMA Appends ==
    ASSUME TypeOK, NEW r \in RequestType, AppendCommits(r)
    PROVE  /\ Grows
           /\ MainHead' = MainHead + Len(r.commits)
           /\ \A i \in 1 .. Len(r.commits) :
                 /\ history'[MainHead + i].tree = Replay(TreeAt(MainHead), r.commits, i)
                 /\ MainHead + i \in DOMAIN history'
                 /\ history'[MainHead + i].author = r.author /\ history'[MainHead + i].id = r.commits[i].id
           /\ edit' \in [Clients -> [Paths -> Values \cup {NoEdit}]]
           /\ fresh' \in [Clients -> [Paths -> SUBSET Values]]
<1> DEFINE n == Len(r.commits)
           files == TreeAt(MainHead)
           batch == [i \in 1 .. n |-> [tree |-> Replay(files, r.commits, i),
                                       author |-> r.author, id |-> r.commits[i].id]]
<1>1. /\ r.author \in Clients /\ r.commits \in Seq(CommitType) /\ n \in Nat
      /\ history \in Seq(HistoryType) /\ MainHead \in Nat /\ MainHead >= 1
  BY DesktopType DEF RequestType, TypeOK, HistoryType, MainHead
<1>2. files \in Files
  BY <1>1, TreeType
<1>3. history' = history \o batch
  BY DEF AppendCommits
<1> HIDE DEF files
<1>4. ASSUME NEW i \in 1 .. n PROVE batch[i] \in HistoryType
  <2>1. Replay(files, r.commits, i) \in Files
    BY <1>1, <1>2, ReplayType
  <2>2. r.commits[i] \in CommitType
    BY <1>1
  <2> QED
    BY <1>1, <2>1, <2>2 DEF HistoryType, CommitType
<1>5. batch \in Seq(HistoryType) /\ Len(batch) = n
  <2> DEFINE f == batch
  <2>1. f \in [1 .. n -> HistoryType]
    BY <1>4
  <2> HIDE DEF f
  <2>2. f \in Seq(HistoryType)
    BY <1>1, <2>1
  <2>3. Len(f) \in Nat /\ 1 .. Len(f) = 1 .. n
    BY <2>1, <2>2
  <2>4. Len(f) = n
    BY <1>1, <2>3
  <2> QED
    BY <2>2, <2>4 DEF f
<1>6. /\ \A i \in 1 .. n : /\ batch[i].tree = Replay(files, r.commits, i)
                           /\ batch[i].author = r.author /\ batch[i].id = r.commits[i].id
  OBVIOUS
<1> HIDE DEF batch
<1>7. /\ history' \in Seq(HistoryType) /\ Len(history') = MainHead + n
      /\ \A h \in 1 .. MainHead : history'[h] = history[h]
      /\ \A i \in 1 .. n : history'[MainHead + i] = batch[i]
  <2>1. MainHead = Len(history)
    BY DEF MainHead
  <2>2. \A h \in 1 .. MainHead + n : history'[h] = IF h <= MainHead THEN history[h] ELSE batch[h - MainHead]
    <3>1. \A h \in 1 .. Len(history) + Len(batch) :
              (history \o batch)[h] = IF h <= Len(history) THEN history[h] ELSE batch[h - Len(history)]
      BY <1>1, <1>5, ConcatProperties
    <3> QED
      BY <1>3, <1>5, <2>1, <3>1
  <2>3. history' \in Seq(HistoryType) /\ Len(history') = MainHead + n
    <3>1. history \o batch \in Seq(HistoryType) /\ Len(history \o batch) = Len(history) + Len(batch)
      BY <1>1, <1>5, ConcatProperties
    <3> QED
      BY <1>3, <1>5, <2>1, <3>1
  <2>4. ASSUME NEW i \in 1 .. n PROVE history'[MainHead + i] = batch[i]
    <3>1. MainHead + i \in 1 .. MainHead + n /\ ~(MainHead + i <= MainHead) /\ (MainHead + i) - MainHead = i
      BY <1>1
    <3> QED
      BY <2>2, <3>1
  <2> QED
    BY <1>1, <2>2, <2>3, <2>4, SMTT(40)
<1>8. Grows /\ MainHead' = MainHead + n
  BY <1>1, <1>7 DEF Grows, MainHead
<1>9. ASSUME NEW i \in 1 .. n
      PROVE  /\ history'[MainHead + i].tree = Replay(files, r.commits, i)
             /\ MainHead + i \in DOMAIN history'
             /\ history'[MainHead + i].author = r.author /\ history'[MainHead + i].id = r.commits[i].id
  <2>1. MainHead + i \in DOMAIN history'
    BY <1>1, <1>7
  <2> QED
    BY <1>6, <1>7, <2>1
<1>10. Published(r)
  BY DEF AppendCommits
<1> QED
  BY <1>8, <1>9, <1>10, PublishedType DEF files

LEMMA GrowsKeepsType ==
    ASSUME TypeOK, Grows, UNCHANGED <<tree, base, baseHead, known, pending, merge, drawn, saves, faults>>,
           late' \in SUBSET RequestType, pc' \in [Clients -> Steps], work' \in [Clients -> WorkType],
           edit' \in [Clients -> [Paths -> Values \cup {NoEdit}]], fresh' \in [Clients -> [Paths -> SUBSET Values]]
    PROVE  TypeOK'
<1>1. /\ MainHead \in Nat /\ MainHead' \in Nat /\ MainHead <= MainHead' /\ MainHead >= 1
  BY MainStays DEF TypeOK
<1>2. 1 .. MainHead \subseteq 1 .. MainHead'
  BY <1>1
<1>3. baseHead' \in [Clients -> 1 .. MainHead'] /\ known' \in [Clients -> 1 .. MainHead' \cup {NoHead}]
  BY <1>2 DEF TypeOK
<1> QED
  BY <1>1, <1>3 DEF TypeOK, Grows, HistoryType, RequestType

(* Main takes a request whose author no longer waits, or never will. *)
LEMMA LateArrives ==
    ASSUME SyncInv, NEW r \in late, LateArrival(r)
    PROVE  SyncInv'
<1>0. TypeOK /\ r \in RequestType
  BY DEF SyncInv, TypeOK, RequestType
<1>1. UNCHANGED <<tree, base, baseHead, known, pending, merge, pc, work, drawn, saves, faults>>
  BY DEF LateArrival, disk, counters
<1>2. late' \in SUBSET RequestType
  BY <1>0 DEF LateArrival, TypeOK, RequestType
<1>3. /\ Grows
      /\ edit' \in [Clients -> [Paths -> Values \cup {NoEdit}]]
      /\ fresh' \in [Clients -> [Paths -> SUBSET Values]]
  <2>1. CASE AppendCommits(r)
    BY <1>0, <2>1, Appends
  <2>2. CASE UNCHANGED <<history, ghosts>>
    BY <1>0, <2>2, SameHistory DEF TypeOK, ghosts
  <2> QED
    BY <2>1, <2>2 DEF LateArrival
<1>4. TypeOK'
  BY <1>0, <1>1, <1>2, <1>3, GrowsKeepsType DEF TypeOK
<1>5. \A d \in Clients : SameDesktop(d)
  BY <1>1 DEF SameDesktop
<1> QED
  BY <1>3, <1>4, <1>5, SameKeeps DEF SyncInv

(* The server took the push: the tree its last commit made on main is the  *)
(* tree the pushed commits make on the base here, for the base is main's.  *)
LEMMA PushTaken ==
    ASSUME SyncInv, NEW c \in Clients, PushAccepted(c)
    PROVE  SyncInv'
<1> DEFINE r == Request(c)
           s == pending[c]
           b == work[c].batch
           w == [work[c] EXCEPT !.head = MainHead + b]
<1>0. TypeOK /\ DesktopInv(c)
  BY DEF SyncInv
<1>1. /\ s \in Seq(CommitType) /\ b \in 1 .. Len(s) /\ b \in Nat /\ work[c] \in WorkType
      /\ MainHead \in Nat /\ MainHead >= 1 /\ NoHead \notin Nat
      /\ known[c] \in 1 .. MainHead \cup {NoHead}
  BY <1>0, DesktopType, SMTT(40) DEF PushAccepted, DesktopInv, PushSteps, TypeOK
<1>2. r \in RequestType /\ r.author = c /\ r.parent = baseHead[c] /\ r.commits = SubSeq(s, 1, b)
  BY <1>0, <1>1, RequestFits DEF Request
<1>3. Len(r.commits) = b /\ \A i \in 1 .. b : r.commits[i] = s[i]
  BY <1>1, <1>2
<1>4. /\ AppendCommits(r) /\ baseHead[c] = MainHead /\ base[c] = TreeAt(MainHead)
      /\ UNCHANGED <<late, tree, base, baseHead, known, pending, merge, drawn, saves, faults>>
  BY <1>0, <1>2 DEF PushAccepted, AppendCommits, DesktopInv, HeadsAgree, disk, counters
<1>5. merge[c] = NoMerge
  BY <1>0, <1>1, <1>4 DEF DesktopInv, HeadsAgree, Ahead
<1> HIDE DEF r
<1>6. /\ Grows
      /\ MainHead' = MainHead + b
      /\ \A i \in 1 .. b :
            /\ history'[MainHead + i].tree = Replay(TreeAt(MainHead), r.commits, i)
            /\ \E k \in DOMAIN history' : history'[k].author = c /\ history'[k].id = s[i].id
      /\ edit' \in [Clients -> [Paths -> Values \cup {NoEdit}]]
      /\ fresh' \in [Clients -> [Paths -> SUBSET Values]]
  <2>1. /\ Grows
        /\ MainHead' = MainHead + Len(r.commits)
        /\ \A i \in 1 .. Len(r.commits) :
              /\ history'[MainHead + i].tree = Replay(TreeAt(MainHead), r.commits, i)
              /\ MainHead + i \in DOMAIN history'
              /\ history'[MainHead + i].author = r.author /\ history'[MainHead + i].id = r.commits[i].id
        /\ edit' \in [Clients -> [Paths -> Values \cup {NoEdit}]]
        /\ fresh' \in [Clients -> [Paths -> SUBSET Values]]
    BY <1>0, <1>2, <1>4, Appends
  <2> HIDE DEF s, b
  <2> QED
    BY <1>2, <1>3, <2>1
<1>7. w \in WorkType /\ w.head = MainHead + b /\ w.batch = b
  BY <1>1 DEF WorkType
<1>8. /\ work' = [work EXCEPT ![c] = w] /\ pc' = [pc EXCEPT ![c] = "answered"]
  BY DEF PushAccepted, Work, Goto
<1> HIDE DEF w
<1>9. work'[c] = w /\ pc'[c] = "answered" /\ \A d \in Clients \ {c} : SameDesktop(d)
  BY <1>0, <1>4, <1>8 DEF TypeOK, SameDesktop
<1>10. pc' \in [Clients -> Steps] /\ work' \in [Clients -> WorkType]
  BY <1>0, <1>7, <1>8 DEF TypeOK, Steps
<1>11. TypeOK'
  BY <1>0, <1>4, <1>6, <1>10, GrowsKeepsType DEF TypeOK, RequestType
<1>12. HeadsAgree(c)'
  <2>1. TreeAt(MainHead) = history'[MainHead].tree
    BY <1>1, <1>6 DEF Grows, TreeAt
  <2>2. base'[c] = history'[baseHead'[c]].tree /\ merge'[c] = NoMerge
    BY <1>4, <1>5, <2>1
  <2>3. known'[c] # NoHead => baseHead'[c] <= known'[c]
    BY <1>0, <1>4 DEF DesktopInv, HeadsAgree
  <2> QED
    BY <2>2, <2>3 DEF HeadsAgree, TreeAt
<1>13. MergeSteps(c)'
  BY <1>4, <1>5, <1>9 DEF MergeSteps
<1>14. PushSteps(c)'
  <2>1. history'[MainHead + b].tree = Replay(base[c], s, b)
    <3>1. Replay(TreeAt(MainHead), r.commits, b) = Replay(TreeAt(MainHead), s, b)
      BY <1>1, <1>2, ReplayPrefix
    <3>2. b \in 1 .. b
      BY <1>1
    <3> QED
      BY <1>4, <1>6, <3>1, <3>2
  <2>2. w.head \in baseHead'[c] + 1 .. MainHead'
    BY <1>1, <1>4, <1>6, <1>7
  <2>3. TreeAt(work[c].head)' = Replay(base[c], pending[c], work[c].batch)'
    BY <1>4, <1>7, <1>9, <2>1 DEF TreeAt
  <2>4. \A i \in 1 .. b : OnMain(c, pending[c][i].id)' # {}
    <3> SUFFICES ASSUME NEW i \in 1 .. b, NEW id, id = s[i].id PROVE OnMain(c, id)' # {}
      BY <1>4 DEF OnMain
    <3> QED
      BY <1>6 DEF OnMain
  <2> QED
    BY <1>1, <1>4, <1>7, <1>9, <2>2, <2>3, <2>4 DEF PushSteps
<1>15. KeepsCommits(c)'
  BY <1>4, <1>6, KeptCommits
<1> QED
  BY <1>0, <1>6, <1>9, <1>11, <1>12, <1>13, <1>14, <1>15, OneMoves DEF DesktopInv

---------------------------------------------------------------------------
(* The theorems *)

LEMMA InitSync == Init => SyncInv
<1> SUFFICES ASSUME Init PROVE SyncInv
  OBVIOUS
<1>1. PICK t \in FirstTrees :
          /\ history = <<[tree |-> t, author |-> NoEdit, id |-> 0]>>
          /\ tree = [c \in Clients |-> t]
          /\ base = [c \in Clients |-> t]
  BY DEF Init
<1>2. t \in Files
  BY FirstTreesAssumption
<1>3. /\ history \in Seq(HistoryType) /\ MainHead = 1 /\ TreeAt(1) = t
  BY <1>1, <1>2 DEF HistoryType, MainHead, TreeAt
<1>4. TypeOK
  <2>1. "idle" \in Steps /\ NoWork \in WorkType
    BY NoWorkType DEF Steps
  <2>2. <<>> \in Seq(CommitType)
    OBVIOUS
  <2> QED
    BY <1>1, <1>2, <1>3, <2>1, <2>2 DEF Init, TypeOK, HistoryType
<1>5. ASSUME NEW c \in Clients PROVE DesktopInv(c)
  <2>1. /\ base[c] = t /\ baseHead[c] = 1 /\ known[c] = NoHead /\ merge[c] = NoMerge
        /\ pc[c] = "idle" /\ drawn[c] = 0
    BY <1>1 DEF Init
  <2> QED
    BY <1>3, <2>1 DEF DesktopInv, HeadsAgree, MergeSteps, PushSteps, KeepsCommits
<1> QED
  BY <1>4, <1>5 DEF SyncInv

LEMMA SyncStep == SyncInv /\ [Next]_vars => SyncInv'
<1> SUFFICES ASSUME SyncInv, [Next]_vars PROVE SyncInv'
  OBVIOUS
<1>1. CASE UNCHANGED vars
  <2>1. Grows /\ \A d \in Clients : SameDesktop(d)
    BY <1>1, SameHistory DEF SyncInv, vars, disk, SameDesktop
  <2>2. TypeOK'
    BY <1>1 DEF SyncInv, TypeOK, MainHead, vars, disk, ghosts, counters
  <2> QED
    BY <2>1, <2>2, SameKeeps DEF SyncInv
<1>2. ASSUME NEW c \in Clients,
             \/ \E p \in Paths, v \in Values : Save(c, p, v)
             \/ Commit(c) \/ Fetch(c) \/ Abort(c)
             \/ PullStep(c) \/ ConflictStep(c) \/ PushStep(c) \/ Fault(c)
      PROVE  SyncInv'
  <2>1. CASE \E p \in Paths, v \in Values : Save(c, p, v)
    BY <2>1, SaveMoves
  <2>2. CASE Commit(c) \/ Fetch(c) \/ Abort(c)
    BY <2>2, FetchSteps, PlainSteps
  <2>3. CASE PullStep(c)
    BY <2>3, FetchSteps, PlainSteps, EndSteps, MergeBegins, RecordSteps, AdvanceSteps, MergeRecorded DEF PullStep
  <2>4. CASE ConflictStep(c)
    BY <2>4, PlainSteps, RecordSteps, AdvanceSteps DEF ConflictStep
  <2>5. CASE PushStep(c)
    BY <2>5, PlainSteps, EndSteps, PushTaken, PushEnds DEF PushStep
  <2>6. CASE Fault(c)
    BY <2>6, EndSteps DEF Fault
  <2> QED
    BY <1>2, <2>1, <2>2, <2>3, <2>4, <2>5, <2>6
<1>3. ASSUME NEW r \in late, LateArrival(r) PROVE SyncInv'
  BY <1>3, LateArrives
<1> QED
  BY <1>1, <1>2, <1>3 DEF Next

(* What every step of every desktop keeps: the base is main's, the record  *)
(* and the step agree, a request carries what is pending, a commit stays   *)
(* until main has it.                                                      *)
THEOREM SyncInvHolds == Spec => []SyncInv
<1>1. Init => SyncInv
  BY InitSync
<1>2. SyncInv /\ [Next]_vars => SyncInv'
  BY SyncStep
<1> QED
  BY <1>1, <1>2, PTL DEF Spec

(* Every variable of the server and of the desktops keeps its type.        *)
THEOREM TypeCorrect == Spec => []TypeOK
<1>1. SyncInv => TypeOK
  BY DEF SyncInv
<1> QED
  BY <1>1, SyncInvHolds, PTL

(* base/ is the tree main has at base.head, whatever pushed, merged,       *)
(* crashed or arrived late: the three-way merge and the diff the server    *)
(* answers start from the same commit.                                     *)
THEOREM BaseStaysServerTree == Spec => []BaseIsServerTree
<1>1. SyncInv => BaseIsServerTree
  BY DEF SyncInv, DesktopInv, HeadsAgree, BaseIsServerTree
<1> QED
  BY <1>1, SyncInvHolds, PTL

(* A commit stays in pending/ until main has it, whatever was sent in how  *)
(* many requests, refused, merged or interrupted.                          *)
THEOREM CommitsAreKept == Spec => []EveryCommitKept
<1>1. SyncInv => EveryCommitKept
  BY DEF SyncInv, DesktopInv, KeepsCommits, EveryCommitKept
<1> QED
  BY <1>1, SyncInvHolds, PTL

---------------------------------------------------------------------------
(* No saved content is lost *)

(* A content main has not seen is in the tree, and what a merge still has  *)
(* to write falls on no such content.                                      *)
Held(c) ==
    /\ \A p \in Paths : edit[c][p] \in Contents => tree[c][p] = edit[c][p]
    /\ pc[c] = "writing" => \A p \in work[c].todo : edit[c][p] \notin Contents
ContentInv == \A c \in Clients : Held(c)

LEMMA HeldStays ==
    ASSUME SyncInv, NEW d \in Clients, Held(d), tree'[d] = tree[d],
           \A p \in Paths : edit'[d][p] \in {edit[d][p], NoEdit},
           pc'[d] = "writing" => pc[d] = "writing" /\ work'[d].todo = work[d].todo
    PROVE  Held(d)'
<1>1. NoEdit \notin Contents /\ work[d].todo \in SUBSET Paths
  <2>1. work[d] \in WorkType
    BY DesktopType DEF SyncInv
  <2> QED
    BY <2>1, MarkersAssumption DEF Values, WorkType
<1> QED
  BY <1>1 DEF Held

(* Steps of an operation that begin no writing and get no answer. *)
LEMMA Turns ==
    ASSUME SyncInv, NEW c \in Clients,
           \/ Pull(c) \/ PullRefused(c) \/ MergeNothing(c) \/ MergeRefused(c) \/ MergeConflict(c)
           \/ ConflictLeft(c) \/ MergeAdvance(c) \/ RecordMerge(c)
           \/ (\E p \in Paths, side \in Sides : Resolve(c, p, side))
           \/ ResolveNothing(c) \/ ResolveRecord(c) \/ FinishClear(c) \/ FinishAdvance(c) \/ AbortClear(c)
           \/ Abort(c) \/ Push(c) \/ PushNothing(c) \/ PushRejected(c) \/ PushAdvance(c) \/ Fault(c)
    PROVE  /\ pc'[c] \notin {"answered", "writing"}
           /\ \A d \in Clients \ {c} : pc'[d] = pc[d] /\ work'[d] = work[d]
<1>0. \A d \in Clients : pc \in [Clients -> Steps] /\ work \in [Clients -> WorkType]
  BY DEF SyncInv, TypeOK
<1>1. ASSUME NEW s \in Steps \ {"answered", "writing"}, Goto(c, s), NEW w, Work(c, w) \/ UNCHANGED work
      PROVE  /\ pc'[c] \notin {"answered", "writing"}
             /\ \A d \in Clients \ {c} : pc'[d] = pc[d] /\ work'[d] = work[d]
  BY <1>0, <1>1 DEF Goto, Work
<1>2. \A s \in {"idle", "repull", "repush", "download", "recordMerge", "autoResolve", "autoResolving", "resolving",
               "finish", "finishAdvance", "aborting", "sending"} : s \in Steps \ {"answered", "writing"}
  BY DEF Steps
<1>3. CASE EndOperation(c)
  BY <1>1, <1>2, <1>3 DEF EndOperation
<1>4. CASE AfterMerge(c)
  BY <1>1, <1>2, <1>4 DEF AfterMerge, EndOperation
<1>5. CASE Pull(c) \/ ResolveNothing(c) \/ FinishAdvance(c) \/ Abort(c)
  BY <1>1, <1>2, <1>5 DEF Pull, ResolveNothing, FinishAdvance, Abort
<1>6. CASE MergeConflict(c) \/ ResolveRecord(c) \/ FinishClear(c)
  BY <1>1, <1>2, <1>6 DEF MergeConflict, ResolveRecord, FinishClear
<1>7. CASE \E p \in Paths, side \in Sides : Resolve(c, p, side)
  BY <1>1, <1>2, <1>7 DEF Resolve
<1>8. CASE Push(c)
  BY <1>1, <1>2, <1>8 DEF Push
<1>9. CASE PushRejected(c)
  BY <1>1, <1>2, <1>3, <1>9 DEF PushRejected
<1>10. CASE PushAdvance(c)
  BY <1>1, <1>2, <1>3, <1>10 DEF PushAdvance
<1>11. CASE MergeAdvance(c)
  BY <1>1, <1>2, <1>4, <1>11 DEF MergeAdvance
<1>12. CASE PullRefused(c) \/ MergeRefused(c) \/ ConflictLeft(c) \/ AbortClear(c) \/ PushNothing(c) \/ Fault(c)
  BY <1>3, <1>12 DEF PullRefused, MergeRefused, ConflictLeft, AbortClear, PushNothing, Fault, PullFails,
     PushUnanswered, Crash
<1>13. CASE MergeNothing(c) \/ RecordMerge(c)
  BY <1>4, <1>13 DEF MergeNothing, RecordMerge
<1> QED
  BY <1>5, <1>6, <1>7, <1>8, <1>9, <1>10, <1>11, <1>12, <1>13

LEMMA MergeHolds ==
    ASSUME SyncInv, SyncInv', NEW c \in Clients, Held(c), MergeCompute(c)
    PROVE  Held(c)'
<1> DEFINE theirs == Apply(base[c], ServerChanges(baseHead[c], known[c]))
           mine == Committed(c)
           result == Merger!MergeFiles(base[c], theirs, mine, "conflict")
           todo == {p \in Paths : mine[p] # result.files[p]}
           settled == {p \in Paths : mine[p] = base[c][p] /\ tree[c][p] = mine[p]}
           e == [p \in Paths |-> IF p \in settled THEN NoEdit ELSE edit[c][p]]
<1>0. TypeOK /\ tree[c] \in Files /\ mine \in Files /\ work[c] \in WorkType
  BY DesktopType DEF SyncInv
<1>1. edit' = [edit EXCEPT ![c] = e] /\ UNCHANGED tree
  BY DEF MergeCompute, Settle, disk
<1>2. edit'[c] = e
  BY <1>0, <1>1 DEF TypeOK
<1>3. work'[c].todo = todo
  <2>1. PICK f, t, g : work' = [work EXCEPT ![c] = [work[c] EXCEPT !.head = known[c], !.theirs = t,
                                                       !.target = f, !.todo = todo, !.conflicts = g]]
    BY DEF MergeCompute, Work
  <2> HIDE DEF todo
  <2> QED
    BY <1>0, <2>1 DEF TypeOK, WorkType
<1>4. mine = tree[c]
  BY DEF MergeCompute, Uncommitted
<1>5. \A p \in Paths : result.files[p] = Merger!Take(p, base[c][p], theirs[p], mine[p], "conflict")
  BY DEF Merger!MergeFiles
<1> HIDE DEF mine, theirs, result
<1>6. ASSUME NEW p \in Paths, e[p] \in Contents
      PROVE  p \notin settled /\ e[p] = edit[c][p] /\ tree[c][p] = e[p]
  <2>1. NoEdit \notin Contents
    BY MarkersAssumption DEF Values
  <2> QED
    BY <1>6, <2>1 DEF Held
<1>7. ASSUME NEW p \in todo, e[p] \in Contents PROVE FALSE
  <2>1. p \notin settled /\ tree[c][p] \in Contents /\ p \in Paths
    BY <1>6, <1>7
  <2>2. mine[p] # base[c][p] /\ mine[p] # Absent
    BY <1>4, <2>1, MarkersAssumption
  <2>3. Merger!Take(p, base[c][p], theirs[p], mine[p], "conflict") = mine[p]
    BY <2>2 DEF Merger!Take, Merger!Same, Merger!Dropped
  <2> QED
    BY <1>5, <2>1, <2>3
<1> QED
  BY <1>1, <1>2, <1>3, <1>6, <1>7 DEF Held

LEMMA PublishedEdits ==
    ASSUME TypeOK, NEW r \in RequestType, Published(r)
    PROVE  \A d \in Clients, p \in Paths : edit'[d][p] \in {edit[d][p], NoEdit}
<1> DEFINE carried == {r.commits[i].id : i \in DOMAIN r.commits}
           seen == [p \in Paths |-> {r.commits[i].changes[p] : i \in Touching(r.commits, Len(r.commits), p)}]
           later == [p \in Paths |-> {i \in Touching(pending[r.author], Len(pending[r.author]), p) :
                                         pending[r.author][i].id \notin carried}]
           open == [p \in Paths |-> later[p] # {} \/ tree[r.author][p] # Committed(r.author)[p]]
           left == [p \in Paths |-> IF ~open[p] /\ edit[r.author][p] \in seen[p] THEN NoEdit
                                    ELSE edit[r.author][p]]
<1>1. edit' = [edit EXCEPT ![r.author] = left]
  BY DEF Published
<1> HIDE DEF seen, open
<1>2. \A p \in Paths : left[p] \in {edit[r.author][p], NoEdit}
  OBVIOUS
<1> HIDE DEF left
<1> QED
  BY <1>1, <1>2 DEF TypeOK

LEMMA OthersHeld ==
    ASSUME SyncInv, ContentInv, NEW c \in Clients, Held(c)',
           \A d \in Clients \ {c} : /\ tree'[d] = tree[d] /\ edit'[d] = edit[d]
                                    /\ pc'[d] = pc[d] /\ work'[d] = work[d]
    PROVE  ContentInv'
<1>1. ASSUME NEW d \in Clients \ {c} PROVE Held(d)'
  BY HeldStays DEF ContentInv
<1> QED
  BY <1>1 DEF ContentInv

(* Steps that leave the trees alone, and the edits at most settle some. *)
LEMMA TurnsHold ==
    ASSUME SyncInv, ContentInv, NEW c \in Clients, UNCHANGED tree,
           \A d \in Clients, p \in Paths : edit'[d][p] \in {edit[d][p], NoEdit},
           \A d \in Clients \ {c} : pc'[d] = pc[d] /\ work'[d] = work[d],
           pc'[c] # "writing"
    PROVE  ContentInv'
  BY HeldStays DEF ContentInv

LEMMA SaveHolds ==
    ASSUME SavesHeld, SyncInv, ContentInv, NEW c \in Clients, NEW p \in Paths, NEW v \in Values, Save(c, p, v)
    PROVE  ContentInv'
<1>0. TypeOK /\ Held(c) /\ tree[c] \in Files /\ edit[c] \in [Paths -> Values \cup {NoEdit}]
  BY DesktopType DEF SyncInv, ContentInv
<1>1. tree' = [tree EXCEPT ![c][p] = v] /\ edit' = [edit EXCEPT ![c][p] = v] /\ pc[c] # "writing"
      /\ UNCHANGED <<pc, work>>
  BY DEF Save
<1>2. /\ tree'[c] = [tree[c] EXCEPT ![p] = v] /\ edit'[c] = [edit[c] EXCEPT ![p] = v]
      /\ \A d \in Clients \ {c} : tree'[d] = tree[d] /\ edit'[d] = edit[d]
  BY <1>0, <1>1 DEF TypeOK
<1>3. \A q \in Paths : edit'[c][q] \in Contents => tree'[c][q] = edit'[c][q]
  BY <1>0, <1>2 DEF Held, Files
<1> QED
  BY <1>1, <1>2, <1>3, OthersHeld DEF Held

LEMMA WriteHolds ==
    ASSUME SyncInv, ContentInv, NEW c \in Clients, NEW p \in Paths, MergeWrite(c, p)
    PROVE  ContentInv'
<1>0. TypeOK /\ Held(c) /\ tree[c] \in Files /\ work[c] \in WorkType
  BY DesktopType DEF SyncInv, ContentInv
<1>1. tree' = [tree EXCEPT ![c][p] = work[c].target[p]] /\ UNCHANGED <<edit, pc>> /\ pc[c] = "writing"
      /\ work' = [work EXCEPT ![c] = [work[c] EXCEPT !.todo = @ \ {p}]] /\ p \in work[c].todo
  BY DEF MergeWrite, Work, ghosts
<1>2. /\ tree'[c] = [tree[c] EXCEPT ![p] = work[c].target[p]]
      /\ work'[c].todo = work[c].todo \ {p}
      /\ \A d \in Clients \ {c} : tree'[d] = tree[d] /\ work'[d] = work[d]
  BY <1>0, <1>1 DEF TypeOK, WorkType
<1>3. edit[c][p] \notin Contents
  BY <1>0, <1>1 DEF Held
<1>4. \A q \in Paths : edit'[c][q] \in Contents => tree'[c][q] = edit'[c][q]
  BY <1>0, <1>1, <1>2, <1>3 DEF Held, Files
<1> QED
  BY <1>0, <1>1, <1>2, <1>4, OthersHeld DEF Held

(* A resolution decides the path; an abort gives up what it takes back. *)
LEMMA DecisionsHold ==
    ASSUME SyncInv, ContentInv, NEW c \in Clients,
           Abort(c) \/ \E p \in Paths, side \in Sides : Resolve(c, p, side)
    PROVE  ContentInv'
<1>0. /\ TypeOK /\ Held(c) /\ tree[c] \in Files /\ edit[c] \in [Paths -> Values \cup {NoEdit}]
      /\ NoEdit \notin Contents
  BY DesktopType, MarkersAssumption DEF SyncInv, ContentInv, Values
<1>1. pc'[c] # "writing" /\ \A d \in Clients \ {c} : pc'[d] = pc[d] /\ work'[d] = work[d]
  BY Turns
<1>2. CASE Abort(c)
  <2> DEFINE t == [p \in Paths |-> IF p \in merge[c].paths THEN merge[c].preMerge[p] ELSE tree[c][p]]
             open == {p \in merge[c].paths : merge[c].preMerge[p] # base[c][p]}
             e == [p \in Paths |-> IF p \in open THEN merge[c].preMerge[p]
                                   ELSE IF p \in merge[c].paths /\ edit[c][p] # merge[c].preMerge[p] THEN NoEdit
                                   ELSE edit[c][p]]
  <2>1. tree' = [tree EXCEPT ![c] = t] /\ edit' = [edit EXCEPT ![c] = e]
    BY <1>2 DEF Abort
  <2>2. \A p \in Paths : e[p] \in Contents => t[p] = e[p]
    BY <1>0 DEF Held
  <2> HIDE DEF t, e
  <2>3. tree'[c] = t /\ edit'[c] = e /\ \A d \in Clients \ {c} : tree'[d] = tree[d] /\ edit'[d] = edit[d]
    BY <1>0, <2>1 DEF TypeOK
  <2> QED
    BY <1>1, <2>2, <2>3, OthersHeld DEF Held
<1>3. ASSUME NEW p \in Paths, NEW side \in Sides, Resolve(c, p, side) PROVE ContentInv'
  <2> DEFINE k == Kept(c, p, side)
             x == IF side = "mine" THEN k ELSE NoEdit
  <2>1. tree' = [tree EXCEPT ![c][p] = k] /\ edit' = [edit EXCEPT ![c][p] = x]
    BY <1>3 DEF Resolve
  <2>2. x \in {k, NoEdit}
    OBVIOUS
  <2> HIDE DEF k, x
  <2>3. /\ tree'[c] = [tree[c] EXCEPT ![p] = k] /\ edit'[c] = [edit[c] EXCEPT ![p] = x]
        /\ \A d \in Clients \ {c} : tree'[d] = tree[d] /\ edit'[d] = edit[d]
    BY <1>0, <2>1 DEF TypeOK
  <2>4. \A q \in Paths : edit'[c][q] \in Contents => tree'[c][q] = edit'[c][q]
    BY <1>0, <2>2, <2>3 DEF Held, Files
  <2> QED
    BY <1>1, <2>3, <2>4, OthersHeld DEF Held
<1> QED
  BY <1>2, <1>3

LEMMA ContentStep ==
    ASSUME SavesHeld, SyncInv, SyncInv', ContentInv, [Next]_vars
    PROVE  ContentInv'
<1>0. TypeOK /\ \A c \in Clients : Held(c)
  BY DEF SyncInv, ContentInv
<1>1. CASE UNCHANGED vars
  BY <1>0, <1>1, HeldStays DEF vars, disk, ghosts, ContentInv
<1>2. ASSUME NEW c \in Clients,
             \/ \E p \in Paths, v \in Values : Save(c, p, v)
             \/ Commit(c) \/ Fetch(c) \/ Abort(c)
             \/ PullStep(c) \/ ConflictStep(c) \/ PushStep(c) \/ Fault(c)
      PROVE  ContentInv'
  <2>1. CASE \E p \in Paths, v \in Values : Save(c, p, v)
    BY <2>1, SaveHolds
  <2>2. CASE Commit(c) \/ Fetch(c)
    BY <1>0, <2>2, HeldStays DEF Commit, Fetch, ghosts, ContentInv
  <2>3. CASE Abort(c) \/ \E p \in Paths, side \in Sides : Resolve(c, p, side)
    BY <2>3, DecisionsHold
  <2>4. CASE \/ Pull(c) \/ PullRefused(c) \/ MergeNothing(c) \/ MergeRefused(c) \/ MergeConflict(c)
             \/ ConflictLeft(c) \/ MergeAdvance(c) \/ RecordMerge(c)
    <3>1. UNCHANGED <<tree, edit>>
      BY <2>4 DEF Pull, PullRefused, MergeNothing, MergeRefused, MergeConflict, ConflictLeft, MergeAdvance,
         RecordMerge, ghosts, disk
    <3> QED
      BY <2>4, <3>1, Turns, TurnsHold
  <2>5. CASE \/ ResolveNothing(c) \/ ResolveRecord(c) \/ FinishClear(c) \/ FinishAdvance(c) \/ AbortClear(c)
             \/ Push(c) \/ PushNothing(c) \/ PushRejected(c) \/ PushAdvance(c) \/ Fault(c)
    <3>1. UNCHANGED <<tree, edit>>
      BY <2>5 DEF ResolveNothing, ResolveRecord, FinishClear, FinishAdvance, AbortClear, Push, PushNothing,
         PushRejected, PushAdvance, Fault, PullFails, PushUnanswered, Crash, ghosts, disk
    <3> QED
      BY <2>5, <3>1, Turns, TurnsHold
  <2>6. CASE MergeCompute(c)
    <3>1. Held(c)'
      BY <1>0, <2>6, MergeHolds
    <3>2. UNCHANGED tree /\ \A d \in Clients \ {c} : edit'[d] = edit[d] /\ pc'[d] = pc[d] /\ work'[d] = work[d]
      BY <1>0, <2>6 DEF MergeCompute, Settle, Goto, Work, disk, TypeOK
    <3> QED
      BY <3>1, <3>2, OthersHeld
  <2>7. CASE \E p \in Paths : MergeWrite(c, p)
    BY <2>7, WriteHolds
  <2>8. CASE PushAccepted(c)
    <3>1. Request(c) \in RequestType
      BY <1>0, <2>8, RequestFits DEF PushAccepted, SyncInv, DesktopInv, PushSteps
    <3>2. Published(Request(c)) /\ UNCHANGED tree
      BY <2>8 DEF PushAccepted, AppendCommits, disk
    <3>3. PICK r \in RequestType : r = Request(c)
      BY <3>1
    <3>4. \A d \in Clients, p \in Paths : edit'[d][p] \in {edit[d][p], NoEdit}
      BY <1>0, <3>2, <3>3, PublishedEdits
    <3>5. pc'[c] # "writing" /\ \A d \in Clients \ {c} : pc'[d] = pc[d] /\ work'[d] = work[d]
      BY <1>0, <2>8 DEF PushAccepted, Goto, Work, TypeOK
    <3> QED
      BY <3>2, <3>4, <3>5, TurnsHold
  <2> QED
    BY <1>2, <2>1, <2>2, <2>3, <2>4, <2>5, <2>6, <2>7, <2>8 DEF PullStep, ConflictStep, PushStep
<1>3. ASSUME NEW r \in late, LateArrival(r) PROVE ContentInv'
  <2>1. r \in RequestType /\ UNCHANGED <<tree, pc, work>>
    BY <1>0, <1>3 DEF TypeOK, RequestType, LateArrival, disk
  <2>2. \A d \in Clients, p \in Paths : edit'[d][p] \in {edit[d][p], NoEdit}
    BY <1>0, <1>3, <2>1, PublishedEdits DEF LateArrival, AppendCommits, ghosts
  <2> QED
    BY <1>0, <2>1, <2>2, HeldStays DEF ContentInv
<1> QED
  BY <1>1, <1>2, <1>3 DEF Next

(* A saved content that main has not seen is in the tree until the user    *)
(* saves over it, resolves or aborts, as long as no save falls between the *)
(* merge's last look at the tree and its writes.                           *)
THEOREM ContentIsKept == SavesHeld => (Spec => []ContentKept)
<1> SUFFICES ASSUME SavesHeld PROVE Spec => []ContentKept
  OBVIOUS
<1>1. Init => ContentInv
  <2>1. NoEdit \notin Contents
    BY MarkersAssumption DEF Values
  <2> QED
    BY <2>1 DEF Init, ContentInv, Held
<1>2. SyncInv /\ SyncInv' /\ ContentInv /\ [Next]_vars => ContentInv'
  BY ContentStep
<1>3. ContentInv => ContentKept
  BY DEF ContentInv, Held, ContentKept, Keeps
<1> QED
  BY <1>1, <1>2, <1>3, SyncInvHolds, PTL DEF Spec

---------------------------------------------------------------------------
(* A commit goes onto main once *)

(* Commit ids are drawn in order; an id is on main at most once, and what  *)
(* is pending is not on main, except what an answered request carried.     *)
Ordered(c) ==
    \A i \in DOMAIN pending[c] :
        /\ pending[c][i].id \in 1 .. drawn[c]
        /\ \A j \in DOMAIN pending[c] : i < j => pending[c][i].id < pending[c][j].id
MainOnce(c) ==
    \A k \in DOMAIN history : history[k].author = c =>
        /\ history[k].id <= drawn[c]
        /\ \A l \in DOMAIN history : history[l].author = c /\ history[l].id = history[k].id => k = l
Unsent(c) ==
    \A i \in DOMAIN pending[c] :
        (pc[c] = "answered" => work[c].batch < i) => OnMain(c, pending[c][i].id) = {}
Once(c) == Ordered(c) /\ MainOnce(c) /\ Unsent(c)
OnceInv == Undisturbed => late = {} /\ \A c \in Clients : Once(c)

LEMMA OnceStays ==
    ASSUME NEW d, Once(d), UNCHANGED history, pending'[d] = pending[d], drawn'[d] = drawn[d],
           \/ pc'[d] = pc[d] /\ work'[d] = work[d]
           \/ pc[d] # "answered" /\ pc'[d] # "answered"
    PROVE  Once(d)'
<1>1. Ordered(d)'
  BY DEF Once, Ordered
<1>2. MainOnce(d)'
  BY DEF Once, MainOnce
<1>3. Unsent(d)'
  BY DEF Once, Unsent, OnMain
<1> QED
  BY <1>1, <1>2, <1>3 DEF Once

(* A commit joins the pending ones: its id is new. *)
LEMMA OncePends ==
    ASSUME TypeOK, NEW c \in Clients, Once(c), UNCHANGED history, pc[c] # "answered", pc'[c] # "answered",
           NEW x, x.id = drawn[c] + 1,
           pending'[c] = Append(pending[c], x), drawn'[c] = drawn[c] + 1
    PROVE  Once(c)'
<1> DEFINE s == pending[c]
           t == Append(s, x)
           n == drawn[c]
<1>0. s \in Seq(CommitType) /\ n \in Nat /\ history \in Seq(HistoryType)
  BY DesktopType DEF TypeOK, HistoryType
<1>1. /\ DOMAIN t = 1 .. Len(s) + 1 /\ t[Len(s) + 1] = x /\ DOMAIN s = 1 .. Len(s) /\ Len(s) \in Nat
      /\ \A i \in DOMAIN s : t[i] = s[i]
  BY <1>0
<1>2. /\ \A i \in DOMAIN s : s[i].id \in 1 .. n /\ OnMain(c, s[i].id) = {}
      /\ \A i, j \in DOMAIN s : i < j => s[i].id < s[j].id
  BY DEF Once, Ordered, Unsent
<1>3. pending'[c] = t /\ drawn'[c] = n + 1
  OBVIOUS
<1> HIDE DEF s, t, n
<1>4. \A i \in DOMAIN t : (i \in DOMAIN s /\ t[i] = s[i]) \/ (i = Len(s) + 1 /\ t[i].id = n + 1)
  <2>1. \A i \in DOMAIN t : i \in DOMAIN s \/ i = Len(s) + 1
    BY <1>1
  <2>2. x.id = n + 1
    BY DEF n
  <2> QED
    BY <1>1, <2>1, <2>2
<1>5. \A k \in DOMAIN history : history[k].id \in Nat
  <2>1. \A k \in DOMAIN history : history[k] \in HistoryType
    BY <1>0, ElementOfSeq, LenProperties
  <2> QED
    BY <2>1 DEF HistoryType
<1>6. Ordered(c)'
  <2>1. \A i \in DOMAIN t : t[i].id \in 1 .. n + 1
    BY <1>0, <1>2, <1>4
  <2>2. ASSUME NEW i \in DOMAIN t, NEW j \in DOMAIN t, i < j PROVE t[i].id < t[j].id
    <3>1. i \in DOMAIN s /\ t[i] = s[i]
      BY <1>1, <1>4, <2>2
    <3>2. CASE j \in DOMAIN s /\ t[j] = s[j]
      BY <1>2, <2>2, <3>1, <3>2
    <3>3. CASE t[j].id = n + 1
      BY <1>0, <1>2, <3>1, <3>3
    <3> QED
      BY <1>4, <3>2, <3>3
  <2> QED
    BY <1>3, <2>1, <2>2 DEF Ordered
<1>7. MainOnce(c)'
  <2>1. \A k \in DOMAIN history : history[k].author = c => history[k].id <= n + 1
    BY <1>0, <1>5 DEF Once, MainOnce, n
  <2> QED
    BY <1>3, <2>1 DEF Once, MainOnce
<1>8. Unsent(c)'
  <2>1. \A id : id = n + 1 => OnMain(c, id) = {}
    BY <1>0, <1>5 DEF Once, MainOnce, OnMain, n
  <2>2. \A i \in DOMAIN t : OnMain(c, t[i].id) = {}
    BY <1>2, <1>4, <2>1
  <2> QED
    BY <1>3, <2>2 DEF Unsent, OnMain
<1> QED
  BY <1>6, <1>7, <1>8 DEF Once

(* What the answered request carried leaves: what is left is not on main.  *)
LEMMA OnceLeaves ==
    ASSUME SyncInv, SyncInv', NEW c \in Clients, Once(c), PushAdvance(c)
    PROVE  Once(c)'
<1> DEFINE s == pending[c]
           b == work[c].batch
           left == SubSeq(s, b + 1, Len(s))
<1>0. s \in Seq(CommitType) /\ b \in 1 .. Len(s) /\ pc[c] = "answered"
  BY DesktopType DEF PushAdvance, SyncInv, DesktopInv, PushSteps
<1>1. left \in Seq(CommitType) /\ Len(left) = Len(s) - b /\ \A j \in 1 .. Len(s) - b : left[j] = s[j + b]
  BY <1>0, Leaves
<1>2. pending'[c] = left /\ UNCHANGED <<history, drawn>>
  BY DEF PushAdvance, SyncInv, TypeOK
<1>3. pc'[c] # "answered"
  BY Turns
<1>4. DOMAIN s = 1 .. Len(s) /\ Len(s) \in Nat /\ b \in Nat
  BY <1>0
<1>5. /\ \A i \in DOMAIN s : s[i].id \in 1 .. drawn[c] /\ (b < i => OnMain(c, s[i].id) = {})
      /\ \A i, j \in DOMAIN s : i < j => s[i].id < s[j].id
  BY DEF Once, Ordered, Unsent
<1> HIDE DEF left, s, b
<1>6. DOMAIN left = 1 .. Len(s) - b
  BY <1>1
<1>7. \A j \in DOMAIN left : j + b \in DOMAIN s /\ b < j + b /\ left[j] = s[j + b]
  BY <1>1, <1>4, <1>6
<1>8. Ordered(c)'
  <2>1. \A j \in DOMAIN left : left[j].id \in 1 .. drawn[c]
    BY <1>5, <1>7
  <2>2. \A i, j \in DOMAIN left : i < j => left[i].id < left[j].id
    <3>1. \A i, j \in DOMAIN left : i < j => i + b < j + b
      BY <1>4, <1>6
    <3> QED
      BY <1>5, <1>7, <3>1
  <2> QED
    BY <1>2, <2>1, <2>2 DEF Ordered
<1>9. MainOnce(c)'
  BY <1>2 DEF Once, MainOnce
<1>10. Unsent(c)'
  <2>1. \A j \in DOMAIN left : OnMain(c, left[j].id) = {}
    BY <1>5, <1>7
  <2> QED
    BY <1>2, <2>1 DEF Unsent, OnMain
<1> QED
  BY <1>8, <1>9, <1>10 DEF Once

(* Main takes the first pending commits, none of which it had.             *)
LEMMA OnceSent ==
    ASSUME SyncInv, NEW c \in Clients, NEW d \in Clients, Once(c), Once(d), PushAccepted(c)
    PROVE  Once(d)'
<1> DEFINE r == Request(c)
           s == pending[c]
           b == work[c].batch
           m == MainHead
<1>0. TypeOK
  BY DEF SyncInv
<1>1. /\ s \in Seq(CommitType) /\ b \in 1 .. Len(s) /\ pc[c] = "sending" /\ m \in Nat
      /\ work[c] \in WorkType /\ history \in Seq(HistoryType)
  BY <1>0, DesktopType DEF PushAccepted, SyncInv, DesktopInv, PushSteps, TypeOK, HistoryType
<1>2. r \in RequestType /\ r.author = c /\ r.commits = SubSeq(s, 1, b)
  BY <1>0, <1>1, RequestFits DEF Request
<1>3. Len(r.commits) = b /\ \A i \in 1 .. b : r.commits[i] = s[i]
  BY <1>1, <1>2
<1>4. AppendCommits(r) /\ UNCHANGED <<pending, drawn>>
  BY DEF PushAccepted, disk
<1> HIDE DEF r
<1>5. /\ Grows /\ MainHead' = m + b
      /\ \A i \in 1 .. b : history'[m + i].author = c /\ history'[m + i].id = s[i].id
  <2>1. /\ Grows
        /\ MainHead' = MainHead + Len(r.commits)
        /\ \A i \in 1 .. Len(r.commits) :
              history'[MainHead + i].author = r.author /\ history'[MainHead + i].id = r.commits[i].id
    BY <1>0, <1>2, <1>4, Appends
  <2> HIDE DEF s, b
  <2> QED
    BY <1>2, <1>3, <2>1
<1>6. /\ DOMAIN history = 1 .. m /\ DOMAIN history' = 1 .. m + b
      /\ \A k \in 1 .. m : history'[k] = history[k]
  BY <1>1, <1>5 DEF Grows, MainHead
<1>7. /\ pc'[c] = "answered" /\ work'[c].batch = b
      /\ \A e \in Clients \ {c} : pc'[e] = pc[e] /\ work'[e] = work[e]
  BY <1>0, <1>1 DEF PushAccepted, Goto, Work, TypeOK, WorkType
<1>8. /\ \A i \in 1 .. Len(s) : s[i].id \in 1 .. drawn[c] /\ OnMain(c, s[i].id) = {}
      /\ \A i, j \in 1 .. Len(s) : i < j => s[i].id < s[j].id
      /\ DOMAIN s = 1 .. Len(s) /\ Len(s) \in Nat /\ b \in Nat /\ b <= Len(s) /\ drawn[c] \in Nat
  <2>1. DOMAIN s = 1 .. Len(s) /\ Len(s) \in Nat /\ b \in Nat /\ b <= Len(s)
    BY <1>1
  <2>2. drawn[c] \in Nat
    BY <1>0, DesktopType
  <2>3. \A i \in DOMAIN s : s[i].id \in 1 .. drawn[c] /\ \A j \in DOMAIN s : i < j => s[i].id < s[j].id
    BY DEF Once, Ordered
  <2>4. \A i \in DOMAIN s : OnMain(c, s[i].id) = {}
    BY <1>1 DEF Once, Unsent
  <2> HIDE DEF s, b
  <2> QED
    BY <2>1, <2>2, <2>3, <2>4
<1> HIDE DEF s, b, m
<1>9. \A k \in DOMAIN history' :
          \/ k \in DOMAIN history /\ history'[k] = history[k]
          \/ \E i \in 1 .. b : k = m + i /\ history'[k].author = c /\ history'[k].id = s[i].id
  <2>1. ASSUME NEW k \in 1 .. m + b PROVE k \in 1 .. m \/ \E i \in 1 .. b : k = m + i
    <3>1. k \in 1 .. m \/ (k - m \in 1 .. b /\ k = m + (k - m))
      BY <1>1, <1>8
    <3> QED
      BY <3>1
  <2> QED
    BY <1>5, <1>6, <2>1
<1>10. Ordered(d)'
  BY <1>4 DEF Once, Ordered
<1>11. CASE d # c
  <2>1. \A k \in DOMAIN history' : history'[k].author = d => k \in DOMAIN history /\ history'[k] = history[k]
    BY <1>9, <1>11
  <2>2. MainOnce(d)'
    BY <1>4, <2>1 DEF Once, MainOnce
  <2>3. \A id : OnMain(d, id) = {} => OnMain(d, id)' = {}
    BY <2>1 DEF OnMain
  <2>4. Unsent(d)'
    <3> SUFFICES ASSUME NEW i \in DOMAIN pending[d], pc'[d] = "answered" => work'[d].batch < i, NEW id,
                        id = pending[d][i].id
                 PROVE  OnMain(d, id)' = {}
      BY <1>4 DEF Unsent, OnMain
    <3>1. pc[d] = "answered" => work[d].batch < i
      BY <1>7, <1>11
    <3> QED
      BY <2>3, <3>1 DEF Once, Unsent
  <2> QED
    BY <1>10, <2>2, <2>4 DEF Once
<1>12. CASE d = c
  <2>1. /\ \A k \in DOMAIN history : history[k].author = c => history[k].id <= drawn[c]
        /\ \A k, l \in DOMAIN history :
              history[k].author = c /\ history[l].author = c /\ history[l].id = history[k].id => k = l
    BY DEF Once, MainOnce
  <2>2. \A i \in 1 .. b : i \in 1 .. Len(s)
    BY <1>8
  <2>3. \A k \in DOMAIN history, i \in 1 .. b : history[k].author = c => history[k].id # s[i].id
    BY <1>8, <2>2 DEF OnMain
  <2>4. \A i, j \in 1 .. b : s[i].id = s[j].id => i = j
    <3>1. \A i \in 1 .. b : s[i].id \in Nat
      BY <1>8, <2>2
    <3>2. \A i, j \in 1 .. b : i < j \/ j < i \/ i = j
      BY <1>8
    <3> QED
      BY <1>8, <2>2, <3>1, <3>2
  <2>5. MainOnce(c)'
    <3>1. ASSUME NEW k \in DOMAIN history', history'[k].author = c PROVE history'[k].id <= drawn[c]
      <4>1. CASE k \in DOMAIN history /\ history'[k] = history[k]
        BY <2>1, <3>1, <4>1
      <4>2. CASE \E i \in 1 .. b : k = m + i /\ history'[k].author = c /\ history'[k].id = s[i].id
        BY <1>8, <2>2, <4>2
      <4> QED
        BY <1>9, <4>1, <4>2
    <3>2. ASSUME NEW k \in DOMAIN history', NEW l \in DOMAIN history', history'[k].author = c, history'[l].author = c,
                 history'[l].id = history'[k].id
          PROVE  k = l
      <4>1. CASE /\ k \in DOMAIN history /\ history'[k] = history[k]
                 /\ l \in DOMAIN history /\ history'[l] = history[l]
        BY <2>1, <3>2, <4>1
      <4>2. CASE /\ k \in DOMAIN history /\ history'[k] = history[k]
                 /\ \E i \in 1 .. b : l = m + i /\ history'[l].author = c /\ history'[l].id = s[i].id
        BY <2>3, <3>2, <4>2
      <4>3. CASE /\ l \in DOMAIN history /\ history'[l] = history[l]
                 /\ \E i \in 1 .. b : k = m + i /\ history'[k].author = c /\ history'[k].id = s[i].id
        BY <2>3, <3>2, <4>3
      <4>4. CASE /\ \E i \in 1 .. b : k = m + i /\ history'[k].author = c /\ history'[k].id = s[i].id
                 /\ \E i \in 1 .. b : l = m + i /\ history'[l].author = c /\ history'[l].id = s[i].id
        BY <2>4, <3>2, <4>4
      <4> QED
        BY <1>9, <4>1, <4>2, <4>3, <4>4
    <3> QED
      BY <1>4, <3>1, <3>2 DEF MainOnce
  <2>6. Unsent(c)'
    <3>1. ASSUME NEW i \in 1 .. Len(s), b < i, NEW k \in DOMAIN history', history'[k].author = c,
                 history'[k].id = s[i].id
          PROVE  FALSE
      <4>1. CASE k \in DOMAIN history /\ history'[k] = history[k]
        BY <1>8, <3>1, <4>1 DEF OnMain
      <4>2. CASE \E j \in 1 .. b : k = m + j /\ history'[k].author = c /\ history'[k].id = s[j].id
        <5>1. PICK j \in 1 .. b : history'[k].id = s[j].id
          BY <4>2
        <5>2. j < i /\ j \in 1 .. Len(s)
          BY <1>8, <2>2, <3>1
        <5>3. s[j].id < s[i].id /\ s[i].id \in Nat
          BY <1>8, <5>2
        <5> QED
          BY <3>1, <5>1, <5>3
      <4> QED
        BY <1>9, <4>1, <4>2
    <3>2. \A i \in 1 .. Len(s) : b < i => OnMain(c, pending[c][i].id)' = {}
      BY <1>4, <3>1 DEF OnMain, s
    <3> QED
      BY <1>4, <1>7, <1>8, <3>2 DEF Unsent, OnMain, s
  <2> QED
    BY <1>10, <1>12, <2>5, <2>6 DEF Once
<1> QED
  BY <1>11, <1>12

(* Steps of one desktop, none of which is the answer to a push. *)
LEMMA OnceQuiet ==
    ASSUME NEW c \in Clients, \A d \in Clients : Once(d), UNCHANGED <<history, pending, drawn>>,
           pc[c] # "answered", pc'[c] # "answered",
           \A d \in Clients \ {c} : pc'[d] = pc[d] /\ work'[d] = work[d]
    PROVE  \A d \in Clients : Once(d)'
<1>1. ASSUME NEW d \in Clients PROVE Once(d)'
  BY OnceStays
<1> QED
  BY <1>1

LEMMA OnceCommits ==
    ASSUME SyncInv, NEW c \in Clients, \A d \in Clients : Once(d), UNCHANGED history,
           NEW t \in Files, AppendPending(c, Diff(Committed(c), t)),
           pc[c] # "answered", pc'[c] # "answered",
           \A d \in Clients \ {c} : pc'[d] = pc[d] /\ work'[d] = work[d]
    PROVE  \A d \in Clients : Once(d)'
<1> DEFINE changes == Diff(Committed(c), t)
           x == [id |-> drawn[c] + 1, changes |-> changes]
<1>1. TypeOK /\ changes \in Changes
  BY ChangesFit DEF SyncInv
<1> HIDE DEF changes
<1>2. /\ \A d \in Clients \ {c} : pending'[d] = pending[d] /\ drawn'[d] = drawn[d]
      /\ \/ pending'[c] = pending[c] /\ drawn'[c] = drawn[c]
         \/ pending'[c] = Append(pending[c], x) /\ drawn'[c] = drawn[c] + 1
  BY <1>1, Pends DEF changes
<1>3. x.id = drawn[c] + 1
  OBVIOUS
<1> HIDE DEF x
<1>4. Once(c)'
  BY <1>1, <1>2, <1>3, OncePends, OnceStays
<1>5. ASSUME NEW d \in Clients \ {c} PROVE Once(d)'
  BY <1>2, OnceStays
<1> QED
  BY <1>4, <1>5

LEMMA OnceStep ==
    ASSUME SyncInv, SyncInv', OnceInv, [Next]_vars
    PROVE  OnceInv'
<1> SUFFICES ASSUME faults' = 0 PROVE late' = {} /\ \A d \in Clients : Once(d)'
  BY DEF OnceInv, Undisturbed
<1>0. TypeOK /\ faults \in Nat /\ (faults = 0 => late = {} /\ \A d \in Clients : Once(d))
  BY DEF SyncInv, TypeOK, OnceInv, Undisturbed
<1>1. CASE UNCHANGED vars
  BY <1>0, <1>1, OnceStays DEF vars, disk, counters
<1>2. ASSUME NEW c \in Clients,
             \/ \E p \in Paths, v \in Values : Save(c, p, v)
             \/ Commit(c) \/ Fetch(c) \/ Abort(c)
             \/ PullStep(c) \/ ConflictStep(c) \/ PushStep(c) \/ Fault(c)
      PROVE  late' = {} /\ \A d \in Clients : Once(d)'
  <2>1. CASE (\E p \in Paths, v \in Values : Save(c, p, v)) \/ Fetch(c)
    <3>1. UNCHANGED <<history, late, pending, drawn, pc, work, faults>>
      BY <2>1 DEF Save, Fetch, counters
    <3> QED
      BY <1>0, <3>1, OnceStays
  <2>2. CASE Commit(c) \/ Pull(c) \/ RecordMerge(c)
    <3>1. UNCHANGED <<history, late, faults>> /\ pc[c] # "answered"
      BY <2>2 DEF Commit, Pull, RecordMerge, counters
    <3>2. pc'[c] # "answered" /\ \A d \in Clients \ {c} : pc'[d] = pc[d] /\ work'[d] = work[d]
      <4>1. CASE Commit(c)
        BY <3>1, <4>1 DEF Commit
      <4>2. CASE Pull(c) \/ RecordMerge(c)
        BY <4>2, Turns
      <4> QED
        BY <2>2, <4>1, <4>2
    <3>3. \E t \in Files : AppendPending(c, Diff(Committed(c), t))
      <4>1. tree[c] \in Files /\ work[c].target \in Files
        BY <1>0, DesktopType DEF WorkType
      <4> QED
        BY <2>2, <4>1 DEF Commit, Pull, RecordMerge
    <3>4. PICK t \in Files : AppendPending(c, Diff(Committed(c), t))
      BY <3>3
    <3> QED
      BY <1>0, <3>1, <3>2, <3>4, OnceCommits
  <2>3. CASE \/ PullRefused(c) \/ MergeNothing(c) \/ MergeRefused(c) \/ MergeConflict(c) \/ ConflictLeft(c)
             \/ MergeAdvance(c) \/ Abort(c) \/ Push(c) \/ PushNothing(c) \/ PushRejected(c)
    <3>1. UNCHANGED <<history, late, pending, drawn, faults>> /\ pc[c] # "answered"
      BY <2>3 DEF PullRefused, MergeNothing, MergeRefused, MergeConflict, ConflictLeft, MergeAdvance, Abort,
         Push, PushNothing, PushRejected, disk, counters
    <3> QED
      BY <1>0, <2>3, <3>1, Turns, OnceQuiet
  <2>4. CASE \/ \E p \in Paths, side \in Sides : Resolve(c, p, side)
             \/ ResolveNothing(c) \/ ResolveRecord(c) \/ FinishClear(c) \/ FinishAdvance(c) \/ AbortClear(c)
    <3>1. UNCHANGED <<history, late, pending, drawn, faults>> /\ pc[c] # "answered"
      BY <2>4 DEF Resolve, ResolveNothing, ResolveRecord, FinishClear, FinishAdvance, AbortClear, disk, counters
    <3> QED
      BY <1>0, <2>4, <3>1, Turns, OnceQuiet
  <2>5. CASE MergeCompute(c) \/ \E p \in Paths : MergeWrite(c, p)
    <3>1. UNCHANGED <<history, late, pending, drawn, faults>> /\ pc[c] # "answered"
      BY <2>5 DEF MergeCompute, MergeWrite, disk, counters
    <3>2. pc'[c] # "answered" /\ \A d \in Clients \ {c} : pc'[d] = pc[d] /\ work'[d] = work[d]
      BY <1>0, <2>5 DEF MergeCompute, MergeWrite, Goto, Work, TypeOK
    <3> QED
      BY <1>0, <3>1, <3>2, OnceQuiet
  <2>6. CASE PushAccepted(c)
    BY <1>0, <2>6, OnceSent DEF PushAccepted, counters
  <2>7. CASE PushAdvance(c)
    <3>1. UNCHANGED <<history, late, drawn, faults>> /\ \A d \in Clients \ {c} : pending'[d] = pending[d]
      BY <1>0, <2>7 DEF PushAdvance, counters, TypeOK
    <3>2. \A d \in Clients \ {c} : pc'[d] = pc[d] /\ work'[d] = work[d]
      BY <2>7, Turns
    <3>3. Once(c)'
      BY <1>0, <2>7, <3>1, OnceLeaves
    <3>4. ASSUME NEW d \in Clients \ {c} PROVE Once(d)'
      BY <1>0, <3>1, <3>2, OnceStays
    <3> QED
      BY <1>0, <3>1, <3>3, <3>4
  <2>8. CASE Fault(c)
    BY <1>0, <2>8 DEF Fault, PullFails, PushUnanswered, Crash
  <2> QED
    BY <1>2, <2>1, <2>2, <2>3, <2>4, <2>5, <2>6, <2>7, <2>8 DEF PullStep, ConflictStep, PushStep
<1>3. ASSUME NEW r \in late, LateArrival(r) PROVE FALSE
  BY <1>0, <1>3 DEF LateArrival, counters
<1> QED
  BY <1>1, <1>2, <1>3 DEF Next

LEMMA OnceInvHolds == Spec => []OnceInv
<1>1. Init => OnceInv
  <2>1. ASSUME Init, NEW c \in Clients PROVE Once(c)
    <3>1. /\ pending[c] = <<>> /\ drawn[c] = 0
          /\ DOMAIN history = {1} /\ history[1].id = 0
      BY <2>1 DEF Init
    <3> QED
      BY <3>1 DEF Once, Ordered, MainOnce, Unsent
  <2> QED
    BY <2>1 DEF Init, OnceInv
<1>2. SyncInv /\ SyncInv' /\ OnceInv /\ [Next]_vars => OnceInv'
  BY OnceStep
<1> QED
  BY <1>1, <1>2, SyncInvHolds, PTL DEF Spec

(* While nothing is lost, a commit goes onto main once, and is then not    *)
(* pending any more: the retry after a refusal sends only what main lacks. *)
THEOREM CommitsGoOnce == Spec => []PublishedOnce
<1>1. SyncInv /\ OnceInv => PublishedOnce
  <2> SUFFICES ASSUME SyncInv, OnceInv, Undisturbed, NEW c \in Clients, NEW id \in 1 .. drawn[c]
               PROVE  /\ Cardinality(OnMain(c, id)) <= 1
                      /\ IsPending(c, id) /\ pc[c] # "answered" => OnMain(c, id) = {}
    BY DEF PublishedOnce
  <2>1. Once(c)
    BY DEF OnceInv
  <2>2. Cardinality(OnMain(c, id)) <= 1
    <3>1. CASE OnMain(c, id) = {}
      BY <3>1, FS_EmptySet
    <3>2. CASE OnMain(c, id) # {}
      <4>1. PICK k \in OnMain(c, id) : TRUE
        BY <3>2
      <4>2. OnMain(c, id) = {k}
        BY <2>1, <4>1 DEF Once, MainOnce, OnMain
      <4>3. Cardinality({k}) = 1
        BY FS_Singleton
      <4> QED
        BY <4>2, <4>3
    <3> QED
      BY <3>1, <3>2
  <2>3. IsPending(c, id) /\ pc[c] # "answered" => OnMain(c, id) = {}
    BY <2>1 DEF Once, Unsent, IsPending
  <2> QED
    BY <2>2, <2>3
<1> QED
  BY <1>1, OnceInvHolds, SyncInvHolds, PTL

---------------------------------------------------------------------------
(* No deletion is lost, while nothing crashes *)

(* A deletion main has not seen is in the tree, or its path is one that    *)
(* the merge under way asks the user about.                                *)
Deferred(c, p) ==
    \/ pc[c] = "writing" /\ p \in work[c].conflicts /\ Committed(c)[p] = Absent
    \/ merge[c] # NoMerge /\ p \in merge[c].conflicts /\ merge[c].mine[p] = Absent
RecordWhole(c) ==
    /\ merge[c] # NoMerge => merge[c].preMerge = merge[c].mine /\ merge[c].conflicts \subseteq merge[c].paths
    /\ pc[c] = "finish" => merge[c].conflicts = {}
Gone(c) ==
    /\ \A p \in Paths : edit[c][p] = Absent => tree[c][p] = Absent \/ Deferred(c, p)
    /\ pc[c] = "writing" =>
          \A p \in work[c].todo : edit[c][p] = Absent => p \in work[c].conflicts /\ Committed(c)[p] = Absent
    /\ pc[c] \in {"resolving", "autoResolving"} =>
          \A p \in work[c].todo : edit[c][p] = Absent => tree[c][p] = Absent
    /\ pc[c] = "aborting" => \A p \in Paths : edit[c][p] = Absent => tree[c][p] = Absent
    /\ RecordWhole(c)
DeletionInv == Undisturbed => \A c \in Clients : Gone(c)

(* A step of one desktop touches no other. *)
SameFiles(d) == SameDesktop(d) /\ tree'[d] = tree[d] /\ edit'[d] = edit[d] /\ fresh'[d] = fresh[d]

LEMMA Elsewhere ==
    ASSUME SyncInv, NEW c \in Clients,
           \/ \E p \in Paths, v \in Values : Save(c, p, v)
           \/ Commit(c) \/ Fetch(c) \/ Abort(c)
           \/ PullStep(c) \/ ConflictStep(c) \/ PushStep(c)
    PROVE  \A d \in Clients \ {c} : SameFiles(d)
<1>0. TypeOK
  BY DEF SyncInv
<1>1. CASE \E p \in Paths, v \in Values : Save(c, p, v)
  BY <1>0, <1>1 DEF Save, SameFiles, SameDesktop, TypeOK
<1>2. CASE Commit(c) \/ Fetch(c) \/ Pull(c) \/ PullRefused(c)
  BY <1>0, <1>2 DEF Commit, Fetch, Pull, PullRefused, AppendPending, Goto, Work, EndOperation, ghosts, SameFiles,
     SameDesktop, TypeOK
<1>3. CASE MergeNothing(c) \/ MergeRefused(c) \/ ConflictLeft(c)
  BY <1>0, <1>3 DEF MergeNothing, MergeRefused, ConflictLeft, AfterMerge, Goto, Work, EndOperation, disk, ghosts,
     SameFiles, SameDesktop, TypeOK
<1>4. CASE MergeCompute(c)
  BY <1>0, <1>4 DEF MergeCompute, Settle, Goto, Work, disk, SameFiles, SameDesktop, TypeOK
<1>5. CASE \E p \in Paths : MergeWrite(c, p)
  BY <1>0, <1>5 DEF MergeWrite, Work, ghosts, SameFiles, SameDesktop, TypeOK
<1>6. CASE MergeConflict(c)
  BY <1>0, <1>6 DEF MergeConflict, Goto, Work, ghosts, SameFiles, SameDesktop, TypeOK
<1>7. CASE MergeAdvance(c) \/ FinishAdvance(c)
  BY <1>0, <1>7 DEF MergeAdvance, FinishAdvance, AdvanceBase, AfterMerge, Goto, Work, EndOperation, ghosts,
     SameFiles, SameDesktop, TypeOK
<1>8. CASE RecordMerge(c)
  BY <1>0, <1>8 DEF RecordMerge, AppendPending, AfterMerge, Goto, Work, EndOperation, ghosts, SameFiles, SameDesktop, TypeOK
<1>9. CASE \E p \in Paths, side \in Sides : Resolve(c, p, side)
  BY <1>0, <1>9 DEF Resolve, Goto, Work, SameFiles, SameDesktop, TypeOK
<1>10. CASE ResolveNothing(c) \/ ResolveRecord(c) \/ FinishClear(c) \/ AbortClear(c)
  BY <1>0, <1>10 DEF ResolveNothing, ResolveRecord, FinishClear, AbortClear, Goto, Work, EndOperation, disk, ghosts,
     SameFiles, SameDesktop, TypeOK
<1>11. CASE Abort(c)
  BY <1>0, <1>11 DEF Abort, Goto, SameFiles, SameDesktop, TypeOK
<1>12. CASE Push(c) \/ PushNothing(c) \/ PushRejected(c)
  BY <1>0, <1>12 DEF Push, PushNothing, PushRejected, Goto, Work, EndOperation, disk, ghosts, SameFiles, SameDesktop, TypeOK
<1>13. CASE PushAccepted(c)
  <2>1. Request(c).author = c
    BY DEF Request
  <2> QED
    BY <1>0, <1>13, <2>1 DEF PushAccepted, AppendCommits, Published, Goto, Work, disk, SameFiles, SameDesktop, TypeOK
<1>14. CASE PushAdvance(c)
  BY <1>0, <1>14 DEF PushAdvance, AdvanceBase, Goto, Work, EndOperation, ghosts, SameFiles, SameDesktop, TypeOK
<1> QED
  BY <1>1, <1>2, <1>3, <1>4, <1>5, <1>6, <1>7, <1>8, <1>9, <1>10, <1>11, <1>12, <1>13, <1>14
     DEF PullStep, ConflictStep, PushStep

LEMMA GoneStays ==
    ASSUME NEW d \in Clients, Gone(d), SameFiles(d)
    PROVE  Gone(d)'
<1>1. Committed(d)' = Committed(d)
  BY DEF Committed, SameFiles, SameDesktop
<1>2. RecordWhole(d)'
  BY DEF Gone, RecordWhole, SameFiles, SameDesktop
<1>3. \A p : Deferred(d, p) => Deferred(d, p)'
  BY <1>1 DEF Deferred, SameFiles, SameDesktop
<1> QED
  BY <1>1, <1>2, <1>3 DEF Gone, SameFiles, SameDesktop

(* A step that leaves the tree and the record and is not one of a merge's. *)
LEMMA GoneTurns ==
    ASSUME NEW c \in Clients, Gone(c), tree'[c] = tree[c], merge'[c] = merge[c],
           \A p \in Paths : edit'[c][p] \in {edit[c][p], NoEdit},
           pc'[c] \notin {"writing", "resolving", "autoResolving", "aborting"},
           pc'[c] = "finish" => merge[c].conflicts = {},
           pc[c] = "writing" => work[c].conflicts = {}
    PROVE  Gone(c)'
<1>1. NoEdit # Absent
  BY MarkersAssumption DEF Values
<1>2. RecordWhole(c)'
  BY DEF Gone, RecordWhole
<1>3. ASSUME NEW p \in Paths, edit'[c][p] = Absent PROVE tree'[c][p] = Absent \/ Deferred(c, p)'
  <2>1. tree[c][p] = Absent \/ Deferred(c, p)
    BY <1>1, <1>3 DEF Gone
  <2>2. Deferred(c, p) => Deferred(c, p)'
    BY DEF Deferred
  <2> QED
    BY <2>1, <2>2
<1> QED
  BY <1>2, <1>3 DEF Gone

LEMMA SaveGone ==
    ASSUME SavesHeld, SyncInv, NEW c \in Clients, Gone(c), NEW p \in Paths, NEW v \in Values, Save(c, p, v)
    PROVE  Gone(c)'
<1>0. TypeOK /\ tree[c] \in Files /\ edit[c] \in [Paths -> Values \cup {NoEdit}] /\ work[c].todo \in SUBSET Paths
  BY DesktopType DEF SyncInv, WorkType
<1>1. tree' = [tree EXCEPT ![c][p] = v] /\ edit' = [edit EXCEPT ![c][p] = v] /\ pc[c] # "writing"
      /\ UNCHANGED <<pc, work, merge>>
  BY DEF Save
<1>2. tree'[c] = [tree[c] EXCEPT ![p] = v] /\ edit'[c] = [edit[c] EXCEPT ![p] = v]
  BY <1>0, <1>1 DEF TypeOK
<1>3. \A q \in Paths : \/ tree'[c][q] = tree[c][q] /\ edit'[c][q] = edit[c][q]
                       \/ tree'[c][q] = v /\ edit'[c][q] = v
  BY <1>0, <1>2 DEF Files
<1>4. RecordWhole(c)'
  BY <1>1 DEF Gone, RecordWhole
<1>5. \A q : Deferred(c, q) => Deferred(c, q)'
  BY <1>1 DEF Deferred
<1> QED
  BY <1>0, <1>1, <1>3, <1>4, <1>5 DEF Gone

(* Where a merge begins, what it will write over a deletion is in conflict. *)
LEMMA MergeGone ==
    ASSUME SyncInv, NEW c \in Clients, Gone(c), MergeCompute(c)
    PROVE  Gone(c)'
<1> DEFINE theirs == Apply(base[c], ServerChanges(baseHead[c], known[c]))
           mine == Committed(c)
           result == Merger!MergeFiles(base[c], theirs, mine, "conflict")
           todo == {p \in Paths : mine[p] # result.files[p]}
           asked == result.conflicts
           settled == {p \in Paths : mine[p] = base[c][p] /\ tree[c][p] = mine[p]}
           e == [p \in Paths |-> IF p \in settled THEN NoEdit ELSE edit[c][p]]
<1>0. TypeOK /\ tree[c] \in Files /\ mine \in Files /\ work[c] \in WorkType
  BY DesktopType DEF SyncInv
<1>1. edit' = [edit EXCEPT ![c] = e] /\ UNCHANGED <<tree, base, pending, merge>> /\ pc' = [pc EXCEPT ![c] = "writing"]
  BY DEF MergeCompute, Settle, disk, Goto
<1>2. edit'[c] = e /\ pc'[c] = "writing"
  BY <1>0, <1>1 DEF TypeOK
<1>3. work'[c].todo = todo /\ work'[c].conflicts = asked
  <2>1. PICK f, t : work' = [work EXCEPT ![c] = [work[c] EXCEPT !.head = known[c], !.theirs = t,
                                                    !.target = f, !.todo = todo, !.conflicts = asked]]
    BY DEF MergeCompute, Work
  <2> HIDE DEF todo, asked
  <2> QED
    BY <1>0, <2>1 DEF TypeOK, WorkType
<1>4. mine = tree[c] /\ merge[c] = NoMerge
  BY DEF MergeCompute, Uncommitted, SyncInv, DesktopInv, MergeSteps
<1>5. /\ \A p \in Paths : result.files[p] = Merger!Take(p, base[c][p], theirs[p], mine[p], "conflict")
      /\ \A p \in Paths : Merger!Conflicting(p, base[c][p], theirs[p], mine[p], "conflict") => p \in asked
  BY DEF Merger!MergeFiles
<1>6. Committed(c)' = mine
  BY <1>1 DEF Committed
<1> HIDE DEF mine, theirs, result, asked
<1>7. ASSUME NEW p \in Paths, e[p] = Absent PROVE p \notin settled /\ mine[p] = Absent
  <2>1. NoEdit # Absent
    BY MarkersAssumption DEF Values
  <2>2. p \notin settled /\ edit[c][p] = Absent
    BY <1>7, <2>1
  <2>3. tree[c][p] = Absent
    BY <1>4, <2>2 DEF Gone, Deferred, MergeCompute
  <2> QED
    BY <1>4, <2>2, <2>3
<1>8. ASSUME NEW p \in todo, e[p] = Absent PROVE p \in asked /\ mine[p] = Absent
  <2>1. p \in Paths /\ p \notin settled /\ mine[p] = Absent
    BY <1>7, <1>8
  <2>2. mine[p] # base[c][p]
    BY <1>4, <2>1
  <2>3. mine[p] # Merger!Take(p, base[c][p], theirs[p], mine[p], "conflict")
    BY <1>5, <1>8
  <2>4. Merger!Conflicting(p, base[c][p], theirs[p], mine[p], "conflict")
    BY <2>2, <2>3 DEF Merger!Take, Merger!Conflicting, Merger!BothChanged, Merger!Dropped, Merger!Same
  <2> QED
    BY <1>5, <2>1, <2>4
<1>9. RecordWhole(c)'
  BY <1>1, <1>2, <1>4 DEF RecordWhole
<1>10. \A p \in Paths : e[p] = Absent => tree[c][p] = Absent
  BY <1>4, <1>7
<1> QED
  BY <1>1, <1>2, <1>3, <1>6, <1>8, <1>9, <1>10 DEF Gone

LEMMA WriteGone ==
    ASSUME SyncInv, NEW c \in Clients, Gone(c), NEW p \in Paths, MergeWrite(c, p)
    PROVE  Gone(c)'
<1>0. TypeOK /\ tree[c] \in Files /\ work[c] \in WorkType
  BY DesktopType DEF SyncInv
<1>1. /\ tree' = [tree EXCEPT ![c][p] = work[c].target[p]] /\ UNCHANGED <<edit, pc, base, pending, merge>>
      /\ pc[c] = "writing"
      /\ work' = [work EXCEPT ![c] = [work[c] EXCEPT !.todo = @ \ {p}]] /\ p \in work[c].todo
  BY DEF MergeWrite, Work, ghosts
<1>2. /\ tree'[c] = [tree[c] EXCEPT ![p] = work[c].target[p]]
      /\ work'[c].todo = work[c].todo \ {p} /\ work'[c].conflicts = work[c].conflicts
  BY <1>0, <1>1 DEF TypeOK, WorkType
<1>3. Committed(c)' = Committed(c)
  BY <1>1 DEF Committed
<1>4. edit[c][p] = Absent => p \in work[c].conflicts /\ Committed(c)[p] = Absent
  BY <1>1 DEF Gone
<1>5. RecordWhole(c)'
  BY <1>1 DEF Gone, RecordWhole
<1>6. \A q : Deferred(c, q) => Deferred(c, q)'
  BY <1>1, <1>2, <1>3 DEF Deferred
<1>7. edit[c][p] = Absent => Deferred(c, p)'
  BY <1>1, <1>2, <1>3, <1>4 DEF Deferred
<1>8. \A q \in Paths : q # p => tree'[c][q] = tree[c][q]
  BY <1>0, <1>2 DEF Files
<1> QED
  BY <1>1, <1>2, <1>3, <1>5, <1>6, <1>7, <1>8 DEF Gone

(* A conflict records what was committed under each path it asks about. *)
LEMMA RecordGone ==
    ASSUME SyncInv, NEW c \in Clients, Gone(c),
           MergeConflict(c) \/ ResolveRecord(c) \/ FinishClear(c) \/ AbortClear(c)
    PROVE  Gone(c)'
<1>0. /\ TypeOK /\ work[c] \in WorkType /\ merge[c] \in MergeType \cup {NoMerge} /\ NoMerge \notin MergeType
      /\ Committed(c) \in Files
  BY DesktopType, MarkersAssumption DEF SyncInv
<1>1. UNCHANGED <<tree, edit>>
  BY DEF MergeConflict, ResolveRecord, FinishClear, AbortClear, ghosts
<1>2. CASE MergeConflict(c)
  <2> DEFINE mine == Committed(c)
             asked == work[c].conflicts
             paths == asked \cup {p \in Paths : mine[p] # work[c].target[p]}
             m == [conflicts |-> asked, mine |-> mine, theirs |-> work[c].theirs, preMerge |-> mine,
                   paths |-> paths]
  <2>1. merge'[c] = m /\ pc'[c] = "autoResolve" /\ pc[c] = "writing"
    BY <1>0, <1>2 DEF MergeConflict, Goto, TypeOK
  <2>2. m \in MergeType
    <3>1. asked \in SUBSET Paths /\ work[c].theirs \in Files
      BY <1>0 DEF WorkType
    <3>2. paths \in SUBSET Paths
      BY <3>1
    <3> HIDE DEF paths, asked, mine
    <3> QED
      BY <1>0, <3>1, <3>2 DEF MergeType, mine
  <2>3. m.conflicts = asked /\ m.mine = mine /\ m.preMerge = mine /\ m.paths = paths /\ m # NoMerge
    BY <1>0, <2>2
  <2>4. asked \subseteq paths
    OBVIOUS
  <2>5. merge[c] = NoMerge
    BY <2>1 DEF SyncInv, DesktopInv, MergeSteps
  <2> HIDE DEF m, asked, paths
  <2>6. RecordWhole(c)'
    BY <2>1, <2>3, <2>4 DEF RecordWhole
  <2>7. \A p : Deferred(c, p) => Deferred(c, p)'
    BY <2>1, <2>3, <2>5 DEF Deferred, asked
  <2> QED
    BY <1>1, <2>1, <2>6, <2>7 DEF Gone
<1>3. CASE ResolveRecord(c)
  <2> DEFINE left == merge[c].conflicts \ work[c].todo
             m == [merge[c] EXCEPT !.conflicts = left]
  <2>1. merge[c] \in MergeType /\ merge[c] # NoMerge /\ pc[c] \in {"resolving", "autoResolving"}
    BY <1>0, <1>3 DEF ResolveRecord, SyncInv, DesktopInv, MergeSteps
  <2>2. merge'[c] = m /\ work'[c].todo = {}
        /\ pc'[c] = IF left = {} THEN "finish" ELSE IF pc[c] = "resolving" THEN "idle" ELSE "autoResolve"
    BY <1>0, <1>3 DEF ResolveRecord, Goto, Work, TypeOK, WorkType
  <2>3. pc'[c] \in {"finish", "idle", "autoResolve"} /\ (pc'[c] = "finish" => left = {})
    BY <2>2
  <2> HIDE DEF left
  <2>4. m.conflicts = left /\ m.mine = merge[c].mine /\ m.preMerge = merge[c].preMerge /\ m.paths = merge[c].paths
    BY <2>1 DEF MergeType
  <2>5. m \in MergeType
    <3>1. left \in SUBSET Paths
      BY <2>1 DEF MergeType, left
    <3> QED
      BY <2>1, <3>1 DEF MergeType
  <2> HIDE DEF m
  <2>6. RecordWhole(c)'
    BY <2>1, <2>2, <2>3, <2>4 DEF Gone, RecordWhole, left
  <2>7. ASSUME NEW p \in Paths, edit[c][p] = Absent PROVE tree[c][p] = Absent \/ Deferred(c, p)'
    <3>1. CASE p \in work[c].todo
      BY <2>1, <2>7, <3>1 DEF Gone
    <3>2. CASE p \notin work[c].todo
      <4>1. tree[c][p] = Absent \/ (p \in merge[c].conflicts /\ merge[c].mine[p] = Absent)
        BY <2>1, <2>7 DEF Gone, Deferred
      <4>2. p \in merge[c].conflicts => p \in left
        BY <3>2 DEF left
      <4> QED
        BY <1>0, <2>2, <2>4, <2>5, <4>1, <4>2 DEF Deferred
    <3> QED
      BY <3>1, <3>2
  <2> QED
    BY <1>1, <2>3, <2>6, <2>7 DEF Gone
<1>4. CASE FinishClear(c) \/ AbortClear(c)
  <2>1. merge'[c] = NoMerge /\ pc[c] \in {"finish", "aborting"} /\ pc'[c] \in {"finishAdvance", "idle"}
    BY <1>0, <1>4 DEF FinishClear, AbortClear, EndOperation, Goto, TypeOK
  <2>2. RecordWhole(c)'
    BY <2>1 DEF RecordWhole
  <2>3. ASSUME NEW p \in Paths, edit[c][p] = Absent PROVE tree[c][p] = Absent
    BY <2>1, <2>3 DEF Gone, Deferred, RecordWhole
  <2> QED
    BY <1>1, <2>1, <2>2, <2>3 DEF Gone
<1> QED
  BY <1>2, <1>3, <1>4

LEMMA DecisionGone ==
    ASSUME SyncInv, NEW c \in Clients, Gone(c), Abort(c) \/ \E p \in Paths, side \in Sides : Resolve(c, p, side)
    PROVE  Gone(c)'
<1>0. /\ TypeOK /\ tree[c] \in Files /\ edit[c] \in [Paths -> Values \cup {NoEdit}] /\ work[c] \in WorkType
      /\ NoEdit # Absent
  BY DesktopType, MarkersAssumption DEF SyncInv, Values
<1>1. CASE Abort(c)
  <2> DEFINE t == [p \in Paths |-> IF p \in merge[c].paths THEN merge[c].preMerge[p] ELSE tree[c][p]]
             open == {p \in merge[c].paths : merge[c].preMerge[p] # base[c][p]}
             e == [p \in Paths |-> IF p \in open THEN merge[c].preMerge[p]
                                   ELSE IF p \in merge[c].paths /\ edit[c][p] # merge[c].preMerge[p] THEN NoEdit
                                   ELSE edit[c][p]]
  <2>1. /\ tree' = [tree EXCEPT ![c] = t] /\ edit' = [edit EXCEPT ![c] = e]
        /\ pc' = [pc EXCEPT ![c] = "aborting"] /\ pc[c] = "idle" /\ merge[c] # NoMerge /\ UNCHANGED merge
    BY <1>1 DEF Abort, Goto
  <2>2. ASSUME NEW p \in Paths, e[p] = Absent PROVE t[p] = Absent
    <3>1. CASE p \in merge[c].paths
      BY <1>0, <2>2, <3>1
    <3>2. CASE p \notin merge[c].paths
      <4>1. p \notin merge[c].conflicts
        BY <2>1, <3>2 DEF Gone, RecordWhole
      <4> QED
        BY <2>1, <2>2, <3>2, <4>1 DEF Gone, Deferred
    <3> QED
      BY <3>1, <3>2
  <2> HIDE DEF t, e
  <2>3. tree'[c] = t /\ edit'[c] = e /\ pc'[c] = "aborting"
    BY <1>0, <2>1 DEF TypeOK
  <2>4. RecordWhole(c)'
    BY <2>1, <2>3 DEF Gone, RecordWhole
  <2> QED
    BY <2>2, <2>3, <2>4 DEF Gone
<1>2. ASSUME NEW p \in Paths, NEW side \in Sides, Resolve(c, p, side) PROVE Gone(c)'
  <2> DEFINE k == Kept(c, p, side)
             x == IF side = "mine" THEN k ELSE NoEdit
  <2>1. tree' = [tree EXCEPT ![c][p] = k] /\ edit' = [edit EXCEPT ![c][p] = x] /\ UNCHANGED merge
        /\ pc[c] \in {"idle", "autoResolve"}
    BY <1>2 DEF Resolve
  <2>2. work'[c].todo = {p} /\ pc'[c] \in {"resolving", "autoResolving"}
    BY <1>0, <1>2 DEF Resolve, Goto, Work, TypeOK, WorkType
  <2>3. x = k \/ x # Absent
    BY <1>0
  <2> HIDE DEF k, x
  <2>4. tree'[c] = [tree[c] EXCEPT ![p] = k] /\ edit'[c] = [edit[c] EXCEPT ![p] = x]
    BY <1>0, <2>1 DEF TypeOK
  <2>5. /\ tree'[c][p] = k /\ edit'[c][p] = x
        /\ \A q \in Paths : q # p => tree'[c][q] = tree[c][q] /\ edit'[c][q] = edit[c][q]
    BY <1>0, <2>4 DEF Files
  <2>6. RecordWhole(c)'
    BY <2>1, <2>2 DEF Gone, RecordWhole
  <2>7. \A q : Deferred(c, q) => Deferred(c, q)'
    BY <2>1 DEF Deferred
  <2> QED
    BY <2>2, <2>3, <2>5, <2>6, <2>7 DEF Gone
<1> QED
  BY <1>1, <1>2

LEMMA DeletionStep ==
    ASSUME SavesHeld, SyncInv, SyncInv', DeletionInv, [Next]_vars
    PROVE  DeletionInv'
<1> SUFFICES ASSUME faults' = 0 PROVE \A d \in Clients : Gone(d)'
  BY DEF DeletionInv, Undisturbed
<1>0. TypeOK /\ faults \in Nat /\ (faults = 0 => \A d \in Clients : Gone(d))
  BY DEF SyncInv, TypeOK, DeletionInv, Undisturbed
<1>1. CASE UNCHANGED vars
  <2>1. faults = 0 /\ \A d \in Clients : SameFiles(d)
    BY <1>1 DEF vars, disk, ghosts, counters, SameFiles, SameDesktop
  <2> QED
    BY <1>0, <2>1, GoneStays
<1>2. ASSUME NEW c \in Clients,
             \/ \E p \in Paths, v \in Values : Save(c, p, v)
             \/ Commit(c) \/ Fetch(c) \/ Abort(c)
             \/ PullStep(c) \/ ConflictStep(c) \/ PushStep(c)
      PROVE  \A d \in Clients : Gone(d)'
  <2>1. faults = 0 /\ Gone(c) /\ pc[c] \in Steps /\ work[c] \in WorkType
    <3>1. faults = 0
      BY <1>0, <1>2 DEF Save, Commit, Fetch, Abort, PullStep, ConflictStep, PushStep, Pull, PullRefused, MergeNothing,
         MergeRefused, MergeCompute, MergeWrite, MergeConflict, ConflictLeft, MergeAdvance, RecordMerge, Resolve,
         ResolveNothing, ResolveRecord, FinishClear, FinishAdvance, AbortClear, Push, PushNothing, PushAccepted,
         PushRejected, PushAdvance, counters
    <3> QED
      BY <1>0, <3>1, DesktopType
  <2>2. \A d \in Clients \ {c} : Gone(d)'
    BY <1>0, <1>2, <2>1, Elsewhere, GoneStays
  <2>3. CASE \E p \in Paths, v \in Values : Save(c, p, v)
    BY <2>1, <2>2, <2>3, SaveGone
  <2>4. CASE Commit(c) \/ Fetch(c)
    <3>1. UNCHANGED <<tree, merge, edit, pc>> /\ pc[c] = "idle"
      BY <2>4 DEF Commit, Fetch, ghosts
    <3> QED
      BY <2>1, <2>2, <3>1, GoneTurns
  <2>5. CASE Pull(c) \/ ResolveNothing(c)
    <3>1. UNCHANGED <<tree, merge, edit>> /\ pc[c] # "writing"
      BY <2>5 DEF Pull, ResolveNothing, disk, ghosts
    <3>2. pc'[c] \in {"finish", "download"} /\ (pc'[c] = "finish" => merge[c].conflicts = {})
      BY <1>0, <2>5 DEF Pull, ResolveNothing, InConflict, Goto, TypeOK
    <3> QED
      BY <2>1, <2>2, <3>1, <3>2, GoneTurns
  <2>6. CASE \/ PullRefused(c) \/ MergeNothing(c) \/ MergeRefused(c) \/ ConflictLeft(c) \/ RecordMerge(c)
             \/ FinishAdvance(c) \/ Push(c) \/ PushNothing(c) \/ PushRejected(c) \/ PushAdvance(c)
    <3>1. UNCHANGED <<tree, merge, edit>> /\ pc[c] # "writing"
      BY <2>6 DEF PullRefused, MergeNothing, MergeRefused, ConflictLeft, RecordMerge, FinishAdvance, Push, PushNothing,
         PushRejected, PushAdvance, disk, ghosts
    <3>2. pc'[c] \in {"idle", "repush", "repull", "recordMerge", "sending"}
      BY <1>0, <2>6 DEF PullRefused, MergeNothing, MergeRefused, ConflictLeft, RecordMerge, FinishAdvance, Push,
         PushNothing, PushRejected, PushAdvance, AfterMerge, EndOperation, Goto, TypeOK
    <3> QED
      BY <2>1, <2>2, <3>1, <3>2, GoneTurns
  <2>7. CASE MergeAdvance(c)
    <3>1. UNCHANGED <<tree, merge, edit>> /\ work[c].conflicts = {} /\ pc'[c] \in {"idle", "repush", "recordMerge"}
      BY <1>0, <2>7 DEF MergeAdvance, AfterMerge, EndOperation, Goto, TypeOK, ghosts
    <3> QED
      BY <2>1, <2>2, <3>1, GoneTurns
  <2>8. CASE PushAccepted(c)
    <3>1. Request(c) \in RequestType
      BY <1>0, <2>8, RequestFits DEF PushAccepted, SyncInv, DesktopInv, PushSteps
    <3>2. Published(Request(c)) /\ UNCHANGED <<tree, merge>> /\ pc[c] # "writing"
      BY <2>8 DEF PushAccepted, AppendCommits, disk
    <3>3. PICK r \in RequestType : r = Request(c)
      BY <3>1
    <3>4. \A p \in Paths : edit'[c][p] \in {edit[c][p], NoEdit}
      BY <1>0, <3>2, <3>3, PublishedEdits
    <3>5. pc'[c] = "answered"
      BY <1>0, <2>8 DEF PushAccepted, Goto, TypeOK
    <3> QED
      BY <2>1, <2>2, <3>2, <3>4, <3>5, GoneTurns
  <2>9. CASE MergeCompute(c)
    BY <2>1, <2>2, <2>9, MergeGone
  <2>10. CASE \E p \in Paths : MergeWrite(c, p)
    BY <2>1, <2>2, <2>10, WriteGone
  <2>11. CASE MergeConflict(c) \/ ResolveRecord(c) \/ FinishClear(c) \/ AbortClear(c)
    BY <2>1, <2>2, <2>11, RecordGone
  <2>12. CASE Abort(c) \/ \E p \in Paths, side \in Sides : Resolve(c, p, side)
    BY <2>1, <2>2, <2>12, DecisionGone
  <2> QED
    BY <1>2, <2>3, <2>4, <2>5, <2>6, <2>7, <2>8, <2>9, <2>10, <2>11, <2>12 DEF PullStep, ConflictStep, PushStep
<1>3. ASSUME NEW c \in Clients, Fault(c) PROVE FALSE
  BY <1>0, <1>3 DEF Fault, PullFails, PushUnanswered, Crash
<1>4. ASSUME NEW r \in late, LateArrival(r) PROVE \A d \in Clients : Gone(d)'
  <2>1. r \in RequestType /\ UNCHANGED <<tree, pc, work, merge, base, pending, faults>>
    BY <1>0, <1>4 DEF TypeOK, RequestType, LateArrival, disk, counters
  <2>2. \A d \in Clients, p \in Paths : edit'[d][p] \in {edit[d][p], NoEdit}
    BY <1>0, <1>4, <2>1, PublishedEdits DEF LateArrival, AppendCommits, ghosts
  <2>3. NoEdit # Absent
    BY MarkersAssumption DEF Values
  <2>4. ASSUME NEW d \in Clients PROVE Gone(d)'
    <3>1. Committed(d)' = Committed(d) /\ work[d].todo \in SUBSET Paths /\ Gone(d)
      BY <1>0, <2>1, DesktopType DEF Committed, WorkType
    <3>2. RecordWhole(d)' /\ \A p : Deferred(d, p) => Deferred(d, p)'
      BY <2>1, <3>1 DEF Gone, RecordWhole, Deferred
    <3> QED
      BY <2>1, <2>2, <2>3, <3>1, <3>2 DEF Gone
  <2> QED
    BY <2>4
<1> QED
  BY <1>1, <1>2, <1>3, <1>4 DEF Next

(* Undisturbed, a deletion that main has not seen stays in the tree or is  *)
(* what the user is asked about, until the user saves, resolves or aborts, *)
(* under the same condition on saves.                                      *)
THEOREM DeletionIsKept == SavesHeld => (Spec => []DeletionKept)
<1> SUFFICES ASSUME SavesHeld PROVE Spec => []DeletionKept
  OBVIOUS
<1>1. Init => DeletionInv
  <2>1. NoEdit # Absent
    BY MarkersAssumption DEF Values
  <2> QED
    BY <2>1 DEF Init, DeletionInv, Gone, RecordWhole
<1>2. SyncInv /\ SyncInv' /\ DeletionInv /\ [Next]_vars => DeletionInv'
  BY DeletionStep
<1>3. DeletionInv => DeletionKept
  BY DEF DeletionInv, Gone, Deferred, DeletionKept, Keeps, InConflict
<1> QED
  BY <1>1, <1>2, <1>3, SyncInvHolds, PTL DEF Spec
---------------------------------------------------------------------------
(* A push carries only what its author saved, while nothing crashes *)

(* What is in the tree is the latest save, and main has not had it.        *)
Stands(c, p) == tree[c][p] = edit[c][p] /\ tree[c][p] \in fresh[c][p]

(* Every request carries all that is pending. *)
SendsAll(c) == pc[c] \in {"sending", "answered"} => work[c].batch = Len(pending[c])

(* Outside a merge, what is in the tree and not committed is such a save,  *)
(* and so is what is committed and not in the base.                        *)
EditsFresh(c) == \A p \in Paths : tree[c][p] # Committed(c)[p] => Stands(c, p)
CommitsFresh(c) == \A p \in Paths : Committed(c)[p] # base[c][p] => Committed(c)[p] \in fresh[c][p]
AtRest(c) == merge[c] = NoMerge /\ pc[c] \notin {"writing", "recordMerge", "finishAdvance"}
RestFresh(c) == AtRest(c) => EditsFresh(c) /\ (pc[c] # "answered" => CommitsFresh(c))

(* The merged files take mine only where mine is a save of that kind. *)
TargetFresh(c) == \A p \in Paths : work[c].target[p] # work[c].theirs[p] => work[c].target[p] \in fresh[c][p]
WritingFresh(c) ==
    pc[c] = "writing" =>
        /\ CommitsFresh(c) /\ TargetFresh(c)
        /\ \A p \in Paths :
              /\ work[c].target[p] \in {Committed(c)[p], work[c].theirs[p]}
              /\ Committed(c)[p] = base[c][p] => work[c].target[p] = work[c].theirs[p]
              /\ tree[c][p] = IF p \in work[c].todo THEN Committed(c)[p] ELSE work[c].target[p]
RecordingFresh(c) ==
    pc[c] \in {"recordMerge", "finishAdvance"} =>
        /\ TargetFresh(c)
        /\ \A p \in Paths : tree[c][p] # work[c].target[p] => Stands(c, p)
        /\ pc[c] = "recordMerge" => base[c] = work[c].theirs

(* While a merge is open, a path that is decided holds theirs or such a    *)
(* save, and the paths outside the merge are as at rest.                   *)
Open(c, p) == p \in merge[c].conflicts /\ ~(pc[c] \in {"resolving", "autoResolving"} /\ p \in work[c].todo)
RecordFits(c) ==
    /\ merge[c].mine = Committed(c) /\ merge[c].preMerge = Committed(c)
    /\ merge[c].conflicts \subseteq merge[c].paths
    /\ pc[c] = "finish" => merge[c].conflicts = {}
    /\ pc[c] \notin {"finish", "resolving", "autoResolving"} => merge[c].conflicts # {}
OutsideFresh(c) ==
    \A p \in Paths \ merge[c].paths :
        /\ Committed(c)[p] # merge[c].theirs[p] => Committed(c)[p] \in fresh[c][p]
        /\ Committed(c)[p] # base[c][p] => Committed(c)[p] \in fresh[c][p]
        /\ tree[c][p] # Committed(c)[p] => Stands(c, p)
DecidedFresh(c) ==
    \A p \in merge[c].paths : Open(c, p) \/ tree[c][p] = merge[c].theirs[p] \/ tree[c][p] \in fresh[c][p]
OpenFresh(c) ==
    merge[c] # NoMerge =>
        /\ RecordFits(c) /\ OutsideFresh(c)
        /\ IF pc[c] = "aborting" THEN EditsFresh(c) /\ CommitsFresh(c) ELSE DecidedFresh(c)

FreshOf(c) == SendsAll(c) /\ RestFresh(c) /\ WritingFresh(c) /\ RecordingFresh(c) /\ OpenFresh(c)
FreshInv == Undisturbed => \A c \in Clients : FreshOf(c)
LEMMA FreshStays ==
    ASSUME NEW d \in Clients, FreshOf(d), SameFiles(d)
    PROVE  FreshOf(d)'
<1>1. Committed(d)' = Committed(d)
  BY DEF Committed, SameFiles, SameDesktop
<1>2. \A p : Stands(d, p) => Stands(d, p)'
  BY DEF Stands, SameFiles, SameDesktop
<1>3. SendsAll(d)'
  BY DEF FreshOf, SendsAll, SameFiles, SameDesktop
<1>4. RestFresh(d)'
  BY <1>1, <1>2 DEF FreshOf, RestFresh, AtRest, EditsFresh, CommitsFresh, SameFiles, SameDesktop
<1>5. WritingFresh(d)'
  BY <1>1 DEF FreshOf, WritingFresh, CommitsFresh, TargetFresh, SameFiles, SameDesktop
<1>6. RecordingFresh(d)'
  BY <1>2 DEF FreshOf, RecordingFresh, TargetFresh, SameFiles, SameDesktop
<1>7. OpenFresh(d)'
  BY <1>1, <1>2 DEF FreshOf, OpenFresh, RecordFits, OutsideFresh, DecidedFresh, Open, EditsFresh, CommitsFresh,
     SameFiles, SameDesktop
<1> QED
  BY <1>3, <1>4, <1>5, <1>6, <1>7 DEF FreshOf

(* A step that changes neither files nor commits and is not one of a       *)
(* merge's.                                                                *)
LEMMA FreshTurns ==
    ASSUME NEW c \in Clients, FreshOf(c),
           tree'[c] = tree[c], base'[c] = base[c], pending'[c] = pending[c], merge'[c] = merge[c],
           edit'[c] = edit[c], fresh'[c] = fresh[c],
           pc[c] \notin {"writing", "recordMerge", "finishAdvance", "finish", "resolving", "autoResolving",
                         "aborting", "answered"},
           pc'[c] \notin {"writing", "recordMerge", "finishAdvance", "finish", "resolving", "autoResolving",
                          "aborting", "answered"},
           pc'[c] = "sending" => work'[c].batch = Len(pending[c])
    PROVE  FreshOf(c)'
<1>1. Committed(c)' = Committed(c)
  BY DEF Committed
<1>2. \A p : Stands(c, p) => Stands(c, p)'
  BY DEF Stands
<1>3. SendsAll(c)'
  BY DEF SendsAll
<1>4. RestFresh(c)'
  BY <1>1, <1>2 DEF FreshOf, RestFresh, AtRest, EditsFresh, CommitsFresh
<1>5. WritingFresh(c)' /\ RecordingFresh(c)'
  BY DEF WritingFresh, RecordingFresh
<1>6. OpenFresh(c)'
  BY <1>1, <1>2 DEF FreshOf, OpenFresh, RecordFits, OutsideFresh, DecidedFresh, Open
<1> QED
  BY <1>3, <1>4, <1>5, <1>6 DEF FreshOf

(* A commit of what separates the committed files from others makes those  *)
(* the committed files.                                                    *)
LEMMA CommitsTo ==
    ASSUME TypeOK, NEW c \in Clients, NEW files \in Files, AppendPending(c, Diff(Committed(c), files)),
           base'[c] = base[c]
    PROVE  Committed(c)' = files
<1> DEFINE changes == Diff(Committed(c), files)
           x == [id |-> drawn[c] + 1, changes |-> changes]
<1>0. Committed(c) \in Files /\ pending[c] \in Seq(CommitType) /\ drawn[c] \in Nat
  BY DesktopType
<1>1. /\ changes \in Changes /\ Apply(Committed(c), changes) = files
      /\ DOMAIN changes = {p \in Paths : Committed(c)[p] # files[p]}
  BY <1>0, ApplyDiff
<1> HIDE DEF changes
<1>2. \/ pending'[c] = pending[c] /\ DOMAIN changes = {}
      \/ pending'[c] = Append(pending[c], x)
  BY <1>1, Pends DEF changes
<1>3. CASE pending'[c] = pending[c] /\ DOMAIN changes = {}
  <2>1. Committed(c) = files
    BY <1>0, <1>1, <1>3 DEF Files
  <2> QED
    BY <1>3, <2>1 DEF Committed
<1>4. CASE pending'[c] = Append(pending[c], x)
  <2>1. x \in CommitType /\ x.changes = changes
    BY <1>0, <1>1 DEF CommitType
  <2> HIDE DEF x
  <2>2. Len(Append(pending[c], x)) = Len(pending[c]) + 1
    BY <1>0
  <2>3. Committed(c)' = Replay(base[c], Append(pending[c], x), Len(pending[c]) + 1)
    BY <1>4, <2>2 DEF Committed
  <2>4. Replay(base[c], Append(pending[c], x), Len(pending[c]) + 1) = Apply(Committed(c), changes)
    BY <1>0, <2>1, ReplayAppend DEF Committed
  <2> QED
    BY <1>1, <2>3, <2>4
<1> QED
  BY <1>2, <1>3, <1>4

LEMMA SaveFresh ==
    ASSUME SavesHeld, SyncInv, NEW c \in Clients, FreshOf(c), NEW q \in Paths, NEW v \in Values, Save(c, q, v)
    PROVE  FreshOf(c)'
<1>0. /\ TypeOK /\ tree[c] \in Files /\ edit[c] \in [Paths -> Values \cup {NoEdit}]
      /\ fresh[c] \in [Paths -> SUBSET Values]
      /\ merge[c] # NoMerge => merge[c].paths \subseteq Paths
  BY DesktopType DEF SyncInv, MergeType
<1>1. /\ tree' = [tree EXCEPT ![c][q] = v] /\ edit' = [edit EXCEPT ![c][q] = v]
      /\ fresh' = [fresh EXCEPT ![c][q] = @ \cup {v}] /\ pc[c] # "writing"
      /\ UNCHANGED <<base, pending, merge, pc, work>>
  BY DEF Save
<1>2. /\ tree'[c] = [tree[c] EXCEPT ![q] = v] /\ edit'[c] = [edit[c] EXCEPT ![q] = v]
      /\ fresh'[c] = [fresh[c] EXCEPT ![q] = @ \cup {v}]
  BY <1>0, <1>1 DEF TypeOK
<1>3. \A p \in Paths : /\ fresh[c][p] \subseteq fresh'[c][p]
                       /\ \/ tree'[c][p] = v /\ edit'[c][p] = v /\ v \in fresh'[c][p]
                          \/ tree'[c][p] = tree[c][p] /\ edit'[c][p] = edit[c][p]
  BY <1>0, <1>2 DEF Files
<1>4. \A p \in Paths : Stands(c, p)' \/ (tree'[c][p] = tree[c][p] /\ (Stands(c, p) => Stands(c, p)'))
  BY <1>3 DEF Stands
<1>5. Committed(c)' = Committed(c)
  BY <1>1 DEF Committed
<1>6. SendsAll(c)'
  BY <1>1 DEF FreshOf, SendsAll
<1>7. EditsFresh(c) => EditsFresh(c)'
  BY <1>4, <1>5 DEF EditsFresh
<1>8. CommitsFresh(c) => CommitsFresh(c)'
  BY <1>1, <1>3, <1>5 DEF CommitsFresh
<1>9. RestFresh(c)'
  BY <1>1, <1>7, <1>8 DEF FreshOf, RestFresh, AtRest
<1>10. WritingFresh(c)'
  BY <1>1 DEF WritingFresh
<1>11. RecordingFresh(c)'
  BY <1>1, <1>3, <1>4 DEF FreshOf, RecordingFresh, TargetFresh
<1>12. OpenFresh(c)'
  <2> SUFFICES ASSUME merge[c] # NoMerge
               PROVE  /\ RecordFits(c)' /\ OutsideFresh(c)'
                      /\ IF pc[c] = "aborting" THEN EditsFresh(c)' /\ CommitsFresh(c)' ELSE DecidedFresh(c)'
    BY <1>1 DEF OpenFresh
  <2>1. RecordFits(c)'
    BY <1>1, <1>5 DEF FreshOf, OpenFresh, RecordFits
  <2>2. OutsideFresh(c)'
    BY <1>1, <1>3, <1>4, <1>5 DEF FreshOf, OpenFresh, OutsideFresh
  <2>3. pc[c] # "aborting" => DecidedFresh(c)'
    BY <1>0, <1>1, <1>3 DEF FreshOf, OpenFresh, DecidedFresh, Open
  <2> QED
    BY <1>7, <1>8, <2>1, <2>2, <2>3 DEF FreshOf, OpenFresh
<1> QED
  BY <1>6, <1>9, <1>10, <1>11, <1>12 DEF FreshOf

(* What is committed now is the tree: what is new in it was saved.         *)
LEMMA CommitFresh ==
    ASSUME SyncInv, NEW c \in Clients, FreshOf(c), Commit(c) \/ Pull(c)
    PROVE  FreshOf(c)'
<1>0. TypeOK /\ tree[c] \in Files
  BY DesktopType DEF SyncInv
<1>1. /\ AppendPending(c, Diff(Committed(c), tree[c])) /\ ~InConflict(c) /\ pc[c] \in {"idle", "repull"}
      /\ UNCHANGED <<tree, base, merge, edit, fresh>>
  BY DEF Commit, Pull, ghosts
<1>2. merge[c] = NoMerge
  BY <1>1 DEF FreshOf, OpenFresh, RecordFits, InConflict
<1>3. pc'[c] \in {"idle", "download"}
  BY <1>0, <1>1, <1>2 DEF Commit, Pull, Goto, TypeOK
<1>4. Committed(c)' = tree[c]
  BY <1>0, <1>1, CommitsTo
<1>5. EditsFresh(c) /\ CommitsFresh(c)
  BY <1>1, <1>2 DEF FreshOf, RestFresh, AtRest
<1>6. EditsFresh(c)'
  BY <1>1, <1>4 DEF EditsFresh
<1>7. CommitsFresh(c)'
  BY <1>1, <1>4, <1>5 DEF CommitsFresh, EditsFresh, Stands
<1> QED
  BY <1>1, <1>2, <1>3, <1>6, <1>7 DEF FreshOf, SendsAll, RestFresh, WritingFresh, RecordingFresh, OpenFresh
(* Where a merge begins, it takes mine only where it is not the base's.    *)
LEMMA MergeFresh ==
    ASSUME SyncInv, NEW c \in Clients, FreshOf(c), MergeCompute(c)
    PROVE  FreshOf(c)'
<1> DEFINE theirs == Apply(base[c], ServerChanges(baseHead[c], known[c]))
           mine == Committed(c)
           result == Merger!MergeFiles(base[c], theirs, mine, "conflict")
           target == result.files
           todo == {p \in Paths : mine[p] # result.files[p]}
           settled == {p \in Paths : mine[p] = base[c][p] /\ tree[c][p] = mine[p]}
           f == [p \in Paths |-> IF p \in settled THEN {} ELSE fresh[c][p]]
<1>0. /\ TypeOK /\ tree[c] \in Files /\ work[c] \in WorkType /\ merge[c] = NoMerge /\ pc[c] = "download"
      /\ mine = tree[c]
  BY DesktopType DEF SyncInv, DesktopInv, MergeSteps, MergeCompute, Uncommitted
<1>1. fresh' = [fresh EXCEPT ![c] = f] /\ UNCHANGED <<tree, base, pending, merge>> /\ pc' = [pc EXCEPT ![c] = "writing"]
  BY DEF MergeCompute, Settle, disk, Goto
<1>2. fresh'[c] = f /\ pc'[c] = "writing"
  BY <1>0, <1>1 DEF TypeOK
<1>3. work'[c].todo = todo /\ work'[c].target = target /\ work'[c].theirs = theirs
  <2>1. PICK g : work' = [work EXCEPT ![c] = [work[c] EXCEPT !.head = known[c], !.theirs = theirs, !.target = target,
                                                             !.todo = todo, !.conflicts = g]]
    BY DEF MergeCompute, Work
  <2> HIDE DEF todo, theirs, target
  <2> QED
    BY <1>0, <2>1 DEF TypeOK, WorkType
<1>4. \A p \in Paths : target[p] = Merger!Take(p, base[c][p], theirs[p], mine[p], "conflict")
  BY DEF Merger!MergeFiles
<1>5. Committed(c)' = mine
  BY <1>1 DEF Committed
<1> HIDE DEF mine, theirs, result
<1>6. \A p \in Paths : /\ target[p] \in {mine[p], theirs[p]}
                       /\ mine[p] = base[c][p] => target[p] = theirs[p]
  BY <1>4 DEF Merger!Take, Merger!Same
<1>7. \A p \in Paths : mine[p] # base[c][p] => mine[p] \in f[p]
  BY <1>0 DEF FreshOf, RestFresh, AtRest, CommitsFresh, mine
<1> HIDE DEF f
<1>8. \A p \in Paths : tree'[c][p] = IF p \in todo THEN mine[p] ELSE target[p]
  BY <1>0, <1>1
<1> HIDE DEF target, todo
<1>9. CommitsFresh(c)' /\ TargetFresh(c)'
  BY <1>1, <1>2, <1>3, <1>5, <1>6, <1>7 DEF CommitsFresh, TargetFresh
<1>10. WritingFresh(c)'
  BY <1>1, <1>3, <1>5, <1>6, <1>8, <1>9 DEF WritingFresh
<1> QED
  BY <1>0, <1>1, <1>2, <1>10 DEF FreshOf, SendsAll, RestFresh, AtRest, RecordingFresh, OpenFresh

LEMMA WriteFresh ==
    ASSUME SyncInv, NEW c \in Clients, FreshOf(c), NEW q \in Paths, MergeWrite(c, q)
    PROVE  FreshOf(c)'
<1>0. TypeOK /\ tree[c] \in Files /\ work[c] \in WorkType /\ merge[c] = NoMerge
  BY DesktopType DEF SyncInv, DesktopInv, MergeSteps, MergeWrite
<1>1. /\ tree' = [tree EXCEPT ![c][q] = work[c].target[q]] /\ UNCHANGED <<fresh, pc, base, pending, merge>>
      /\ pc[c] = "writing" /\ q \in work[c].todo
      /\ work' = [work EXCEPT ![c] = [work[c] EXCEPT !.todo = @ \ {q}]]
  BY DEF MergeWrite, Work, ghosts
<1>2. /\ tree'[c] = [tree[c] EXCEPT ![q] = work[c].target[q]]
      /\ work'[c].todo = work[c].todo \ {q} /\ work'[c].target = work[c].target /\ work'[c].theirs = work[c].theirs
  BY <1>0, <1>1 DEF TypeOK, WorkType
<1>3. Committed(c)' = Committed(c)
  BY <1>1 DEF Committed
<1>4. CommitsFresh(c)' /\ TargetFresh(c)'
  BY <1>1, <1>2, <1>3 DEF FreshOf, WritingFresh, CommitsFresh, TargetFresh
<1>5. \A p \in Paths : tree'[c][p] = IF p \in work'[c].todo THEN Committed(c)[p] ELSE work[c].target[p]
  BY <1>0, <1>1, <1>2 DEF FreshOf, WritingFresh, Files
<1>6. WritingFresh(c)'
  BY <1>1, <1>2, <1>3, <1>4, <1>5 DEF FreshOf, WritingFresh
<1> QED
  BY <1>0, <1>1, <1>6 DEF FreshOf, SendsAll, RestFresh, AtRest, RecordingFresh, OpenFresh

(* Conflicts are recorded: outside their paths the tree is what was        *)
(* committed, and what was not in conflict holds the merged file.          *)
LEMMA ConflictFresh ==
    ASSUME SyncInv, NEW c \in Clients, FreshOf(c), MergeConflict(c)
    PROVE  FreshOf(c)'
<1> DEFINE mine == Committed(c)
           asked == work[c].conflicts
           paths == asked \cup {p \in Paths : mine[p] # work[c].target[p]}
           m == [conflicts |-> asked, mine |-> mine, theirs |-> work[c].theirs, preMerge |-> mine, paths |-> paths]
<1>0. /\ TypeOK /\ work[c] \in WorkType /\ mine \in Files /\ NoMerge \notin MergeType
      /\ pc[c] = "writing" /\ work[c].todo = {} /\ asked # {}
  BY DesktopType, MarkersAssumption DEF SyncInv, MergeConflict
<1>1. merge'[c] = m /\ pc'[c] = "autoResolve" /\ UNCHANGED <<tree, base, pending, fresh>>
  BY <1>0 DEF MergeConflict, Goto, TypeOK, ghosts
<1>2. Committed(c)' = mine
  BY <1>1 DEF Committed
<1>3. /\ CommitsFresh(c) /\ TargetFresh(c) /\ \A p \in Paths : tree[c][p] = work[c].target[p]
      /\ asked \subseteq Paths
  BY <1>0 DEF FreshOf, WritingFresh, WorkType
<1>4. /\ m.conflicts = asked /\ m.mine = mine /\ m.preMerge = mine /\ m.theirs = work[c].theirs /\ m.paths = paths
      /\ asked \subseteq paths /\ paths \subseteq Paths
      /\ \A p \in Paths \ paths : mine[p] = work[c].target[p]
  BY <1>3
<1> HIDE DEF m, paths
<1>5. RecordFits(c)'
  BY <1>0, <1>1, <1>2, <1>4 DEF RecordFits
<1>6. OutsideFresh(c)'
  BY <1>1, <1>2, <1>3, <1>4 DEF OutsideFresh, CommitsFresh, TargetFresh
<1>7. DecidedFresh(c)'
  BY <1>1, <1>3, <1>4 DEF DecidedFresh, TargetFresh
<1>8. m # NoMerge
  <2>1. paths \in SUBSET Paths /\ asked \in SUBSET Paths /\ work[c].theirs \in Files
    BY <1>0, <1>4 DEF WorkType
  <2>2. m \in MergeType
    <3> HIDE DEF mine, asked
    <3> QED
      BY <1>0, <2>1 DEF m, MergeType
  <2> QED
    BY <1>0, <2>2
<1> QED
  BY <1>1, <1>5, <1>6, <1>7, <1>8 DEF FreshOf, SendsAll, RestFresh, AtRest, WritingFresh, RecordingFresh, OpenFresh

(* The base moves to theirs: what the merge took from mine is still new.   *)
LEMMA AdvanceFresh ==
    ASSUME SyncInv, NEW c \in Clients, FreshOf(c), MergeAdvance(c)
    PROVE  FreshOf(c)'
<1>0. /\ TypeOK /\ work[c] \in WorkType /\ merge[c] = NoMerge
      /\ pc[c] = "writing" /\ work[c].todo = {} /\ pending[c] \in Seq(CommitType)
  BY DesktopType DEF SyncInv, DesktopInv, MergeSteps, MergeAdvance
<1>1. UNCHANGED <<tree, pending, merge, fresh, edit>> /\ base'[c] = work[c].theirs
  BY <1>0 DEF MergeAdvance, AdvanceBase, ghosts, TypeOK
<1>2. CommitsFresh(c) /\ TargetFresh(c) /\ \A p \in Paths : tree[c][p] = work[c].target[p]
  BY <1>0 DEF FreshOf, WritingFresh
<1>3. CASE pending[c] # <<>>
  <2>1. pc'[c] = "recordMerge" /\ UNCHANGED work
    BY <1>0, <1>3 DEF MergeAdvance, Goto, TypeOK
  <2>2. RecordingFresh(c)'
    BY <1>1, <1>2, <2>1 DEF RecordingFresh, TargetFresh
  <2> QED
    BY <1>0, <1>1, <2>1, <2>2 DEF FreshOf, SendsAll, RestFresh, AtRest, WritingFresh, OpenFresh
<1>4. CASE pending[c] = <<>>
  <2>1. pc'[c] \in {"idle", "repush"}
    BY <1>0, <1>4 DEF MergeAdvance, AfterMerge, EndOperation, Goto, TypeOK
  <2>2. \A files : \A p \in Paths : Replay(files, pending[c], Len(pending[c]))[p] = files[p]
    BY <1>4 DEF Replay, Touching
  <2>3. \A p \in Paths : Committed(c)[p] = base[c][p] /\ Committed(c)'[p] = base'[c][p]
    BY <1>1, <2>2 DEF Committed
  <2>4. \A p \in Paths : tree'[c][p] = base'[c][p]
    BY <1>0, <1>1, <1>2, <2>3 DEF FreshOf, WritingFresh
  <2>5. EditsFresh(c)' /\ CommitsFresh(c)'
    BY <2>3, <2>4 DEF EditsFresh, CommitsFresh
  <2> QED
    BY <1>0, <1>1, <2>1, <2>5 DEF FreshOf, SendsAll, RestFresh, AtRest, WritingFresh, RecordingFresh, OpenFresh
<1> QED
  BY <1>3, <1>4

(* The Merge commit takes what is committed to the merged files.           *)
LEMMA RecordFresh ==
    ASSUME SyncInv, NEW c \in Clients, FreshOf(c), RecordMerge(c)
    PROVE  FreshOf(c)'
<1>0. TypeOK /\ work[c] \in WorkType /\ work[c].target \in Files /\ pc[c] = "recordMerge" /\ merge[c] = NoMerge
  BY DesktopType DEF SyncInv, DesktopInv, MergeSteps, RecordMerge, WorkType
<1>1. /\ UNCHANGED <<tree, base, merge, fresh, edit>> /\ AppendPending(c, Diff(Committed(c), work[c].target))
      /\ pc'[c] \in {"idle", "repush"}
  BY <1>0 DEF RecordMerge, AfterMerge, EndOperation, Goto, TypeOK, ghosts
<1>2. Committed(c)' = work[c].target
  BY <1>0, <1>1, CommitsTo
<1>3. EditsFresh(c)' /\ CommitsFresh(c)'
  BY <1>0, <1>1, <1>2 DEF FreshOf, RecordingFresh, TargetFresh, EditsFresh, CommitsFresh, Stands
<1> QED
  BY <1>0, <1>1, <1>3 DEF FreshOf, SendsAll, RestFresh, AtRest, WritingFresh, RecordingFresh, OpenFresh
(* A decided path holds theirs, or mine as an edit of the user's. *)
LEMMA ResolveFresh ==
    ASSUME SyncInv, NEW c \in Clients, FreshOf(c), NEW q \in Paths, NEW side \in Sides, Resolve(c, q, side)
    PROVE  FreshOf(c)'
<1> DEFINE k == Kept(c, q, side)
           e == IF side = "mine" THEN k ELSE NoEdit
           f == IF side = "mine" THEN {k} ELSE {}
<1>0. /\ TypeOK /\ tree[c] \in Files /\ work[c] \in WorkType /\ merge[c] # NoMerge
      /\ edit[c] \in [Paths -> Values \cup {NoEdit}] /\ fresh[c] \in [Paths -> SUBSET Values]
      /\ pc[c] \in {"idle", "autoResolve"} /\ q \in merge[c].conflicts /\ merge[c].paths \subseteq Paths
  BY DesktopType DEF SyncInv, Resolve, InConflict, MergeType
<1>1. /\ tree' = [tree EXCEPT ![c][q] = k] /\ edit' = [edit EXCEPT ![c][q] = e] /\ fresh' = [fresh EXCEPT ![c][q] = f]
      /\ UNCHANGED <<base, pending, merge>>
  BY DEF Resolve
<1>2. k = merge[c].theirs[q] \/ k \in f
  BY DEF Kept, Sides
<1>3. work'[c].todo = {q} /\ pc'[c] \in {"resolving", "autoResolving"}
  BY <1>0 DEF Resolve, Goto, Work, TypeOK, WorkType
<1> HIDE DEF k, e, f
<1>4. /\ tree'[c] = [tree[c] EXCEPT ![q] = k] /\ edit'[c] = [edit[c] EXCEPT ![q] = e]
      /\ fresh'[c] = [fresh[c] EXCEPT ![q] = f]
  BY <1>0, <1>1 DEF TypeOK
<1>5. /\ tree'[c][q] = k /\ fresh'[c][q] = f
      /\ \A p \in Paths : p # q => tree'[c][p] = tree[c][p] /\ edit'[c][p] = edit[c][p] /\ fresh'[c][p] = fresh[c][p]
  BY <1>0, <1>4 DEF Files
<1>6. Committed(c)' = Committed(c)
  BY <1>1 DEF Committed
<1>7. RecordFits(c) /\ OutsideFresh(c) /\ DecidedFresh(c) /\ q \in merge[c].paths
  BY <1>0 DEF FreshOf, OpenFresh, RecordFits
<1>8. RecordFits(c)'
  BY <1>1, <1>3, <1>6, <1>7 DEF RecordFits
<1>9. OutsideFresh(c)'
  BY <1>1, <1>5, <1>6, <1>7 DEF OutsideFresh, Stands
<1>10. DecidedFresh(c)'
  BY <1>0, <1>1, <1>2, <1>3, <1>5, <1>7 DEF DecidedFresh, Open
<1> QED
  BY <1>0, <1>1, <1>3, <1>8, <1>9, <1>10 DEF FreshOf, SendsAll, RestFresh, AtRest, WritingFresh, RecordingFresh, OpenFresh

LEMMA ResolvedFresh ==
    ASSUME SyncInv, NEW c \in Clients, FreshOf(c), ResolveRecord(c)
    PROVE  FreshOf(c)'
<1> DEFINE left == merge[c].conflicts \ work[c].todo
           m == [merge[c] EXCEPT !.conflicts = left]
<1>0. /\ TypeOK /\ work[c] \in WorkType /\ merge[c] \in MergeType /\ merge[c] # NoMerge /\ NoMerge \notin MergeType
      /\ pc[c] \in {"resolving", "autoResolving"}
  BY DesktopType, MarkersAssumption DEF SyncInv, DesktopInv, MergeSteps, ResolveRecord
<1>1. /\ merge'[c] = m /\ work'[c].todo = {} /\ UNCHANGED <<tree, base, pending, edit, fresh>>
      /\ pc'[c] = IF left = {} THEN "finish" ELSE IF pc[c] = "resolving" THEN "idle" ELSE "autoResolve"
  BY <1>0 DEF ResolveRecord, Goto, Work, TypeOK, WorkType, ghosts
<1>2. pc'[c] \in {"finish", "idle", "autoResolve"} /\ (pc'[c] = "finish" <=> left = {})
  BY <1>1
<1>3. /\ m.conflicts = left /\ m.mine = merge[c].mine /\ m.preMerge = merge[c].preMerge /\ m.paths = merge[c].paths
      /\ m.theirs = merge[c].theirs
  BY <1>0 DEF MergeType
<1>4. m \in MergeType
  <2>1. left \in SUBSET Paths
    BY <1>0 DEF MergeType
  <2> HIDE DEF left
  <2> QED
    BY <1>0, <2>1 DEF MergeType
<1> HIDE DEF m
<1>5. Committed(c)' = Committed(c) /\ \A p : Stands(c, p) => Stands(c, p)'
  BY <1>1 DEF Committed, Stands
<1>6. RecordFits(c) /\ OutsideFresh(c) /\ DecidedFresh(c)
  BY <1>0 DEF FreshOf, OpenFresh
<1>7. RecordFits(c)'
  BY <1>1, <1>2, <1>3, <1>5, <1>6 DEF RecordFits
<1>8. OutsideFresh(c)'
  BY <1>1, <1>3, <1>5, <1>6 DEF OutsideFresh
<1>9. \A p : Open(c, p) => Open(c, p)'
  BY <1>0, <1>1, <1>2, <1>3 DEF Open
<1>10. DecidedFresh(c)'
  BY <1>1, <1>3, <1>6, <1>9 DEF DecidedFresh
<1> QED
  BY <1>0, <1>1, <1>2, <1>4, <1>7, <1>8, <1>10
     DEF FreshOf, SendsAll, RestFresh, AtRest, WritingFresh, RecordingFresh, OpenFresh

(* The resolution goes on as a merge without conflicts does. *)
LEMMA FinishFresh ==
    ASSUME SyncInv, NEW c \in Clients, FreshOf(c), FinishClear(c) \/ FinishAdvance(c)
    PROVE  FreshOf(c)'
<1>0. TypeOK /\ work[c] \in WorkType /\ merge[c] \in MergeType \cup {NoMerge} /\ tree[c] \in Files
  BY DesktopType DEF SyncInv
<1>1. CASE FinishClear(c)
  <2> DEFINE target == [p \in Paths |-> IF p \in merge[c].paths THEN tree[c][p] ELSE Committed(c)[p]]
  <2>1. /\ pc[c] = "finish" /\ pc'[c] = "finishAdvance" /\ merge'[c] = NoMerge /\ merge[c] # NoMerge
        /\ UNCHANGED <<tree, base, pending, edit, fresh>>
    BY <1>0, <1>1 DEF FinishClear, Goto, TypeOK, ghosts, SyncInv, DesktopInv, MergeSteps
  <2>2. work' = [work EXCEPT ![c] = [work[c] EXCEPT !.head = known[c], !.theirs = merge[c].theirs, !.target = target]]
    BY <1>1 DEF FinishClear, Work
  <2>3. \A p \in Paths : target[p] = IF p \in merge[c].paths THEN tree[c][p] ELSE Committed(c)[p]
    OBVIOUS
  <2> HIDE DEF target
  <2>4. work'[c].theirs = merge[c].theirs /\ work'[c].target = target
    BY <1>0, <2>2 DEF TypeOK, WorkType
  <2>5. /\ OutsideFresh(c) /\ merge[c].paths \subseteq Paths
        /\ \A p \in merge[c].paths : tree[c][p] = merge[c].theirs[p] \/ tree[c][p] \in fresh[c][p]
    BY <1>0, <2>1 DEF FreshOf, OpenFresh, RecordFits, DecidedFresh, Open, MergeType
  <2>6. TargetFresh(c)'
    BY <2>1, <2>3, <2>4, <2>5 DEF TargetFresh, OutsideFresh
  <2>7. \A p \in Paths : tree[c][p] # target[p] => Stands(c, p)
    BY <2>3, <2>5 DEF OutsideFresh
  <2>8. RecordingFresh(c)'
    BY <2>1, <2>4, <2>6, <2>7 DEF RecordingFresh, Stands
  <2> QED
    BY <2>1, <2>8 DEF FreshOf, SendsAll, RestFresh, AtRest, WritingFresh, OpenFresh
<1>2. CASE FinishAdvance(c)
  <2>1. /\ pc[c] = "finishAdvance" /\ pc'[c] = "recordMerge" /\ merge[c] = NoMerge /\ base'[c] = work[c].theirs
        /\ UNCHANGED <<tree, pending, merge, work, edit, fresh>>
    BY <1>0, <1>2 DEF FinishAdvance, AdvanceBase, Goto, TypeOK, ghosts, SyncInv, DesktopInv, MergeSteps
  <2>2. RecordingFresh(c)'
    BY <2>1 DEF FreshOf, RecordingFresh, TargetFresh, Stands
  <2> QED
    BY <2>1, <2>2 DEF FreshOf, SendsAll, RestFresh, AtRest, WritingFresh, OpenFresh
<1> QED
  BY <1>1, <1>2

(* An abort restores what was committed, which is to be published again    *)
(* where it is not the base's.                                             *)
LEMMA AbortFresh ==
    ASSUME SyncInv, NEW c \in Clients, FreshOf(c), Abort(c) \/ AbortClear(c)
    PROVE  FreshOf(c)'
<1>0. /\ TypeOK /\ tree[c] \in Files /\ merge[c] \in MergeType \cup {NoMerge}
      /\ edit[c] \in [Paths -> Values \cup {NoEdit}] /\ fresh[c] \in [Paths -> SUBSET Values]
  BY DesktopType DEF SyncInv
<1>1. CASE Abort(c)
  <2> DEFINE before == merge[c].preMerge
             open == {p \in merge[c].paths : before[p] # base[c][p]}
             t == [p \in Paths |-> IF p \in merge[c].paths THEN before[p] ELSE tree[c][p]]
             e == [p \in Paths |-> IF p \in open THEN before[p]
                                   ELSE IF p \in merge[c].paths /\ edit[c][p] # before[p] THEN NoEdit
                                   ELSE edit[c][p]]
             f == [p \in Paths |-> IF p \in open THEN fresh[c][p] \cup {before[p]} ELSE fresh[c][p]]
  <2>1. /\ tree' = [tree EXCEPT ![c] = t] /\ edit' = [edit EXCEPT ![c] = e] /\ fresh' = [fresh EXCEPT ![c] = f]
        /\ pc' = [pc EXCEPT ![c] = "aborting"] /\ pc[c] = "idle" /\ merge[c] # NoMerge
        /\ UNCHANGED <<merge, base, pending>>
    BY <1>1 DEF Abort, Goto
  <2>2. RecordFits(c) /\ OutsideFresh(c) /\ merge[c].paths \subseteq Paths /\ before = Committed(c)
    BY <1>0, <2>1 DEF FreshOf, OpenFresh, RecordFits, MergeType
  <2> HIDE DEF before
  <2>3. /\ \A p \in merge[c].paths : /\ t[p] = Committed(c)[p]
                                     /\ Committed(c)[p] # base[c][p] => Committed(c)[p] \in f[p]
        /\ \A p \in Paths \ merge[c].paths : t[p] = tree[c][p] /\ e[p] = edit[c][p] /\ f[p] = fresh[c][p]
    BY <2>2
  <2> HIDE DEF t, e, f
  <2>4. tree'[c] = t /\ edit'[c] = e /\ fresh'[c] = f /\ pc'[c] = "aborting"
    BY <1>0, <2>1 DEF TypeOK
  <2>5. Committed(c)' = Committed(c)
    BY <2>1 DEF Committed
  <2>6. RecordFits(c)'
    BY <2>1, <2>2, <2>4, <2>5 DEF RecordFits
  <2>7. OutsideFresh(c)'
    BY <2>1, <2>2, <2>3, <2>4, <2>5 DEF OutsideFresh, Stands
  <2>8. EditsFresh(c)' /\ CommitsFresh(c)'
    BY <2>1, <2>2, <2>3, <2>4, <2>5 DEF OutsideFresh, EditsFresh, CommitsFresh, Stands
  <2> QED
    BY <2>1, <2>4, <2>6, <2>7, <2>8 DEF FreshOf, SendsAll, RestFresh, AtRest, WritingFresh, RecordingFresh, OpenFresh
<1>2. CASE AbortClear(c)
  <2>1. /\ pc[c] = "aborting" /\ pc'[c] = "idle" /\ merge'[c] = NoMerge /\ merge[c] # NoMerge
        /\ UNCHANGED <<tree, base, pending, edit, fresh>>
    BY <1>0, <1>2 DEF AbortClear, EndOperation, Goto, TypeOK, ghosts, SyncInv, DesktopInv, MergeSteps
  <2>2. EditsFresh(c)' /\ CommitsFresh(c)'
    BY <2>1 DEF FreshOf, OpenFresh, EditsFresh, CommitsFresh, Stands, Committed
  <2> QED
    BY <2>1, <2>2 DEF FreshOf, SendsAll, RestFresh, AtRest, WritingFresh, RecordingFresh, OpenFresh
<1> QED
  BY <1>1, <1>2
(* Everything pending is on main now; what was saved over it since is not. *)
LEMMA AcceptedFresh ==
    ASSUME SyncInv, NEW c \in Clients, FreshOf(c), PushAccepted(c), merge[c] = NoMerge
    PROVE  FreshOf(c)'
<1> DEFINE r == Request(c)
           carried == {r.commits[i].id : i \in DOMAIN r.commits}
           seen == [p \in Paths |-> {r.commits[i].changes[p] : i \in Touching(r.commits, Len(r.commits), p)}]
           later == [p \in Paths |-> {i \in Touching(pending[r.author], Len(pending[r.author]), p) :
                                         pending[r.author][i].id \notin carried}]
           open == [p \in Paths |-> later[p] # {} \/ tree[r.author][p] # Committed(r.author)[p]]
           ahead == [p \in Paths |-> {pending[r.author][i].changes[p] : i \in later[p]}]
           left == [p \in Paths |-> IF ~open[p] /\ edit[r.author][p] \in seen[p] THEN NoEdit
                                    ELSE edit[r.author][p]]
           unseen == [p \in Paths |-> {v \in fresh[r.author][p] : v \in seen[p] => v = left[p] \/ v \in ahead[p]}]
<1>0. TypeOK /\ pc[c] = "sending" /\ work[c] \in WorkType /\ pending[c] \in Seq(CommitType)
  BY DesktopType DEF SyncInv, PushAccepted
<1>1. /\ edit' = [edit EXCEPT ![r.author] = left] /\ fresh' = [fresh EXCEPT ![r.author] = unseen]
      /\ r.author = c
  BY DEF PushAccepted, AppendCommits, Published, Request
<1>2. ASSUME NEW p \in Paths, tree[c][p] # Committed(c)[p]
      PROVE  left[p] = edit[c][p] /\ \A v \in fresh[c][p] : v = edit[c][p] => v \in unseen[p]
  <2>1. open[p] = TRUE
    <3>1. tree[r.author][p] # Committed(r.author)[p]
      BY <1>1, <1>2
    <3> HIDE DEF later, r
    <3> QED
      BY <3>1
  <2> HIDE DEF open, seen, ahead, r
  <2>2. left[p] = edit[c][p]
    BY <1>1, <2>1
  <2> HIDE DEF left
  <2> QED
    BY <1>1, <2>2
<1> HIDE DEF r, left, unseen
<1>3. edit'[c] = left /\ fresh'[c] = unseen
  BY <1>0, <1>1 DEF TypeOK
<1>4. /\ pc'[c] = "answered" /\ work'[c].batch = work[c].batch /\ UNCHANGED <<tree, base, pending, merge>>
  <2>1. PICK h : work' = [work EXCEPT ![c] = [work[c] EXCEPT !.head = h]]
    BY DEF PushAccepted, Work
  <2> QED
    BY <1>0, <2>1 DEF PushAccepted, Goto, TypeOK, WorkType, disk
<1>5. Committed(c)' = Committed(c)
  BY <1>4 DEF Committed
<1>6. EditsFresh(c)
  BY <1>0 DEF FreshOf, RestFresh, AtRest
<1>7. EditsFresh(c)'
  BY <1>2, <1>3, <1>4, <1>5, <1>6 DEF EditsFresh, Stands
<1>8. SendsAll(c)'
  BY <1>0, <1>4 DEF FreshOf, SendsAll
<1> QED
  BY <1>4, <1>7, <1>8 DEF FreshOf, RestFresh, WritingFresh, RecordingFresh, OpenFresh

(* The base moves to all that was pending. *)
LEMMA PushedFresh ==
    ASSUME SyncInv, NEW c \in Clients, FreshOf(c), PushAdvance(c)
    PROVE  FreshOf(c)'
<1>0. /\ TypeOK /\ pc[c] = "answered" /\ merge[c] = NoMerge /\ pending[c] \in Seq(CommitType)
      /\ work[c].batch = Len(pending[c])
  BY DesktopType DEF SyncInv, DesktopInv, MergeSteps, PushAdvance, FreshOf, SendsAll
<1>1. /\ base'[c] = Committed(c) /\ pc'[c] = "idle" /\ UNCHANGED <<tree, merge, edit, fresh>>
      /\ pending'[c] = SubSeq(pending[c], Len(pending[c]) + 1, Len(pending[c]))
  BY <1>0 DEF PushAdvance, AdvanceBase, EndOperation, Goto, TypeOK, Committed, ghosts
<1>2. pending'[c] = <<>>
  BY <1>0, <1>1
<1>3. \A files : \A p \in Paths : Replay(files, <<>>, 0)[p] = files[p]
  BY DEF Replay, Touching
<1>4. \A p \in Paths : Committed(c)'[p] = Committed(c)[p] /\ base'[c][p] = Committed(c)[p]
  BY <1>1, <1>2, <1>3 DEF Committed
<1>5. EditsFresh(c)
  BY <1>0 DEF FreshOf, RestFresh, AtRest
<1>6. EditsFresh(c)' /\ CommitsFresh(c)'
  BY <1>1, <1>4, <1>5 DEF EditsFresh, CommitsFresh, Stands
<1> QED
  BY <1>0, <1>1, <1>6 DEF FreshOf, SendsAll, RestFresh, WritingFresh, RecordingFresh, OpenFresh

LEMMA FreshStep ==
    ASSUME SavesHeld, ~SplitBatches, SyncInv, SyncInv', OnceInv, FreshInv, [Next]_vars
    PROVE  FreshInv'
<1> SUFFICES ASSUME faults' = 0 PROVE \A d \in Clients : FreshOf(d)'
  BY DEF FreshInv, Undisturbed
<1>0. /\ TypeOK /\ faults \in Nat
      /\ faults = 0 => late = {} /\ \A d \in Clients : FreshOf(d)
  BY DEF SyncInv, TypeOK, OnceInv, FreshInv, Undisturbed
<1>1. CASE UNCHANGED vars
  <2>1. faults = 0 /\ \A d \in Clients : SameFiles(d)
    BY <1>1 DEF vars, disk, ghosts, counters, SameFiles, SameDesktop
  <2> QED
    BY <1>0, <2>1, FreshStays
<1>2. ASSUME NEW c \in Clients,
             \/ \E p \in Paths, v \in Values : Save(c, p, v)
             \/ Commit(c) \/ Fetch(c) \/ Abort(c)
             \/ PullStep(c) \/ ConflictStep(c) \/ PushStep(c)
      PROVE  \A d \in Clients : FreshOf(d)'
  <2>1. faults = 0 /\ FreshOf(c)
    <3>1. faults = 0
      BY <1>0, <1>2 DEF Save, Commit, Fetch, Abort, PullStep, ConflictStep, PushStep, Pull, PullRefused, MergeNothing,
         MergeRefused, MergeCompute, MergeWrite, MergeConflict, ConflictLeft, MergeAdvance, RecordMerge, Resolve,
         ResolveNothing, ResolveRecord, FinishClear, FinishAdvance, AbortClear, Push, PushNothing, PushAccepted,
         PushRejected, PushAdvance, counters
    <3> QED
      BY <1>0, <3>1
  <2>2. \A d \in Clients \ {c} : FreshOf(d)'
    BY <1>0, <1>2, <2>1, Elsewhere, FreshStays
  <2>3. CASE \E p \in Paths, v \in Values : Save(c, p, v)
    BY <2>1, <2>2, <2>3, SaveFresh
  <2>4. CASE Commit(c) \/ Pull(c)
    BY <2>1, <2>2, <2>4, CommitFresh
  <2>5. CASE \/ Fetch(c) \/ PullRefused(c) \/ MergeNothing(c) \/ MergeRefused(c) \/ ConflictLeft(c)
             \/ PushNothing(c) \/ PushRejected(c)
    <3>1. /\ UNCHANGED <<tree, base, pending, merge, edit, fresh>>
          /\ pc[c] \in {"idle", "repull", "download", "autoResolve", "repush", "sending"}
      BY <2>5 DEF Fetch, PullRefused, MergeNothing, MergeRefused, ConflictLeft, PushNothing, PushRejected, disk, ghosts
    <3>2. pc'[c] \in {"idle", "repush", "repull"}
      BY <1>0, <2>5 DEF Fetch, PullRefused, MergeNothing, MergeRefused, ConflictLeft, PushNothing, PushRejected,
         AfterMerge, EndOperation, Goto, TypeOK
    <3> QED
      BY <2>1, <2>2, <3>1, <3>2, FreshTurns
  <2>6. CASE Push(c)
    <3>1. UNCHANGED <<tree, base, pending, merge, edit, fresh>> /\ pc[c] \in {"idle", "repush"} /\ pc'[c] = "sending"
      BY <1>0, <2>6 DEF Push, Goto, TypeOK, disk, ghosts
    <3>2. work'[c].batch = Len(pending[c])
      BY <1>0, <2>6 DEF Push, Batches, Work, NoWork, TypeOK
    <3> QED
      BY <2>1, <2>2, <3>1, <3>2, FreshTurns
  <2>7. CASE MergeCompute(c)
    BY <2>1, <2>2, <2>7, MergeFresh
  <2>8. CASE \E p \in Paths : MergeWrite(c, p)
    BY <2>1, <2>2, <2>8, WriteFresh
  <2>9. CASE MergeConflict(c)
    BY <2>1, <2>2, <2>9, ConflictFresh
  <2>10. CASE MergeAdvance(c)
    BY <2>1, <2>2, <2>10, AdvanceFresh
  <2>11. CASE RecordMerge(c)
    BY <2>1, <2>2, <2>11, RecordFresh
  <2>12. CASE \E p \in Paths, side \in Sides : Resolve(c, p, side)
    BY <2>1, <2>2, <2>12, ResolveFresh
  <2>13. CASE ResolveNothing(c)
    BY <2>1, <2>13 DEF ResolveNothing, FreshOf, OpenFresh, RecordFits
  <2>14. CASE ResolveRecord(c)
    BY <2>1, <2>2, <2>14, ResolvedFresh
  <2>15. CASE FinishClear(c) \/ FinishAdvance(c)
    BY <2>1, <2>2, <2>15, FinishFresh
  <2>16. CASE Abort(c) \/ AbortClear(c)
    BY <2>1, <2>2, <2>16, AbortFresh
  <2>17. CASE PushAccepted(c)
    <3>1. pc'[c] = "answered" /\ merge' = merge
      BY <1>0, <2>17 DEF PushAccepted, Goto, TypeOK, disk
    <3>2. merge[c] = NoMerge
      BY <3>1 DEF SyncInv, DesktopInv, MergeSteps
    <3> QED
      BY <2>1, <2>2, <2>17, <3>2, AcceptedFresh
  <2>18. CASE PushAdvance(c)
    BY <2>1, <2>2, <2>18, PushedFresh
  <2> QED
    BY <1>2, <2>3, <2>4, <2>5, <2>6, <2>7, <2>8, <2>9, <2>10, <2>11, <2>12, <2>13, <2>14, <2>15, <2>16, <2>17, <2>18
       DEF PullStep, ConflictStep, PushStep
<1>3. ASSUME NEW c \in Clients, Fault(c) PROVE FALSE
  BY <1>0, <1>3 DEF Fault, PullFails, PushUnanswered, Crash
<1>4. ASSUME NEW r \in late, LateArrival(r) PROVE FALSE
  BY <1>0, <1>4 DEF LateArrival, counters
<1> QED
  BY <1>1, <1>2, <1>3, <1>4 DEF Next

(* What a push changes on main is committed and not in the base, which is  *)
(* main's tree.                                                            *)
LEMMA PushesFresh ==
    ASSUME SyncInv, NEW c \in Clients, FreshOf(c), merge[c] = NoMerge, PushAccepted(c), NEW p \in Paths,
           history'[Len(history')].tree[p] # TreeAt(MainHead)[p]
    PROVE  history'[Len(history')].author = c /\ history'[Len(history')].tree[p] \in fresh[c][p]
<1> DEFINE n == Len(pending[c])
<1>0. /\ TypeOK /\ pc[c] = "sending" /\ pending[c] \in Seq(CommitType) /\ work[c].batch = n /\ n \in 1 .. n
      /\ MainHead \in Nat /\ base[c] = TreeAt(MainHead)
  BY DesktopType DEF SyncInv, DesktopInv, HeadsAgree, PushSteps, PushAccepted, AppendCommits, Request, FreshOf, SendsAll
<1>1. PICK r \in RequestType : r = Request(c)
  BY <1>0, RequestFits
<1>2. AppendCommits(r) /\ r.author = c /\ r.commits = SubSeq(pending[c], 1, n)
  BY <1>0, <1>1 DEF PushAccepted, Request
<1>3. Len(r.commits) = n
  BY <1>0, <1>2
<1>4. /\ MainHead' = MainHead + n /\ history'[MainHead + n].author = c
      /\ history'[MainHead + n].tree = Replay(TreeAt(MainHead), r.commits, n)
  BY <1>0, <1>2, <1>3, Appends
<1>5. Replay(TreeAt(MainHead), r.commits, n) = Committed(c)
  BY <1>0, <1>2, ReplayPrefix DEF Committed
<1>6. CommitsFresh(c)
  BY <1>0 DEF FreshOf, RestFresh, AtRest
<1> QED
  BY <1>0, <1>4, <1>5, <1>6 DEF CommitsFresh, MainHead

(* Undisturbed, a push changes a path of main only to something its author *)
(* saved and main has not had from that author yet, when what is pending   *)
(* goes in one request and no save falls into merge's own writes.          *)
THEOREM OnlyFreshIsPushed == SavesHeld /\ ~SplitBatches => (Spec => OnlyFreshEdits)
<1> SUFFICES ASSUME SavesHeld, ~SplitBatches PROVE Spec => OnlyFreshEdits
  OBVIOUS
<1> DEFINE Carries ==
        Undisturbed => \A c \in Clients, p \in Paths :
          /\ history' # history /\ history'[Len(history')].author = c
          /\ history'[Len(history')].tree[p] # TreeAt(MainHead)[p]
          => history'[Len(history')].tree[p] \in fresh[c][p]
<1>1. Init => FreshInv
  <2> SUFFICES ASSUME Init, NEW c \in Clients PROVE FreshOf(c)
    BY DEF FreshInv
  <2>1. pc[c] = "idle" /\ merge[c] = NoMerge /\ pending[c] = <<>> /\ tree[c] = base[c]
    BY DEF Init
  <2>2. \A p \in Paths : Committed(c)[p] = base[c][p]
    BY <2>1 DEF Committed, Replay, Touching
  <2> QED
    BY <2>1, <2>2 DEF FreshOf, SendsAll, RestFresh, EditsFresh, CommitsFresh, WritingFresh, RecordingFresh, OpenFresh
<1>2. SyncInv /\ SyncInv' /\ OnceInv /\ FreshInv /\ [Next]_vars => FreshInv'
  BY FreshStep
<1>3. SyncInv /\ SyncInv' /\ OnceInv /\ FreshInv /\ [Next]_vars => [Carries]_vars
  <2> SUFFICES ASSUME SyncInv, SyncInv', OnceInv, FreshInv, [Next]_vars, Undisturbed, NEW c \in Clients, NEW p \in Paths,
                      history' # history, history'[Len(history')].author = c,
                      history'[Len(history')].tree[p] # TreeAt(MainHead)[p]
               PROVE  history'[Len(history')].tree[p] \in fresh[c][p]
    OBVIOUS
  <2>1. late = {} /\ \A d \in Clients : FreshOf(d)
    BY DEF OnceInv, FreshInv
  <2>2. ASSUME NEW d \in Clients, PushAccepted(d) PROVE history'[Len(history')].tree[p] \in fresh[c][p]
    <3>1. TypeOK /\ SyncInv'
      BY DEF SyncInv
    <3>2. pc'[d] = "answered" /\ merge' = merge
      BY <2>2, <3>1 DEF PushAccepted, Goto, TypeOK, disk
    <3>3. merge[d] = NoMerge
      BY <3>1, <3>2 DEF SyncInv, DesktopInv, MergeSteps
    <3> QED
      BY <2>1, <2>2, <3>3, PushesFresh
  <2>3. ASSUME NEW d \in Clients,
               \/ \E q \in Paths, v \in Values : Save(d, q, v)
               \/ Commit(d) \/ Fetch(d) \/ Abort(d)
               \/ PullStep(d) \/ ConflictStep(d) \/ PushStep(d) \/ Fault(d)
        PROVE  PushAccepted(d)
    <3>1. ~((\E q \in Paths, v \in Values : Save(d, q, v)) \/ Commit(d) \/ Fetch(d) \/ Abort(d))
      BY DEF Save, Commit, Fetch, Abort
    <3>2. ~PullStep(d)
      BY DEF PullStep, Pull, PullRefused, MergeNothing, MergeRefused, MergeCompute, MergeWrite, MergeConflict,
         ConflictLeft, MergeAdvance, RecordMerge
    <3>3. ~ConflictStep(d)
      BY DEF ConflictStep, Resolve, ResolveNothing, ResolveRecord, FinishClear, FinishAdvance, AbortClear
    <3>4. ~Fault(d)
      BY DEF Fault, PullFails, PushUnanswered, Crash
    <3>5. ~(Push(d) \/ PushNothing(d) \/ PushRejected(d) \/ PushAdvance(d))
      BY DEF Push, PushNothing, PushRejected, PushAdvance
    <3> QED
      BY <2>3, <3>1, <3>2, <3>3, <3>4, <3>5 DEF PushStep
  <2>4. ~UNCHANGED vars
    BY DEF vars
  <2> QED
    BY <2>1, <2>2, <2>3, <2>4 DEF Next
<1> QED
  BY <1>1, <1>2, <1>3, SyncInvHolds, OnceInvHolds, PTL DEF Spec, OnlyFreshEdits

---------------------------------------------------------------------------
(* The merge by itself: what it promises for any paths, any contents and   *)
(* any reading of what makes two contents the same, and when it is made    *)
(* again (MergeRuns).                                                      *)

(* Of one file: a change of either side is in what is taken, or the file   *)
(* is in conflict or dropped (mergeFiles).                                 *)
LEMMA TakeKeepsOrFlags ==
    ASSUME NEW p, NEW b, NEW d, NEW u, NEW mode
    PROVE  KeepsOrFlags(p, b, d, u, Take(p, b, d, u, mode),
                        Conflicting(p, b, d, u, mode) \/ Dropped(p, b, d, u, mode))
<1> DEFINE f == Take(p, b, d, u, mode)
<1>1. CASE Same(p, u, b)
  <2>1. f = d
    BY <1>1 DEF Take
  <2> QED
    BY <1>1, <2>1 DEF KeepsOrFlags, Same
<1>2. CASE ~Same(p, u, b) /\ BothChanged(p, b, d, u)
  BY <1>2 DEF KeepsOrFlags, Conflicting
<1>3. CASE ~Same(p, u, b) /\ ~BothChanged(p, b, d, u)
  <2>1. f = u
    BY <1>3 DEF Take, Dropped
  <2>2. Same(p, d, b) \/ Same(p, d, u)
    BY <1>3 DEF BothChanged
  <2> QED
    BY <1>3, <2>1, <2>2 DEF KeepsOrFlags, Same
<1> QED
  BY <1>1, <1>2, <1>3

(* Of one file: without drops, a conflict is one whichever side is mine. *)
LEMMA ConflictsAgree ==
    ASSUME NEW p, NEW b, NEW d, NEW u
    PROVE  Conflicting(p, b, d, u, "conflict") <=> Conflicting(p, b, u, d, "conflict")
  BY DEF Conflicting, Dropped, BothChanged, Same

(* Of one file: what was taken is taken again. *)
LEMMA TakeAgain ==
    ASSUME NEW p, NEW b, NEW d, NEW u, NEW mode
    PROVE  Take(p, b, d, Take(p, b, d, u, mode), mode) = Take(p, b, d, u, mode)
<1>1. Take(p, b, d, u, mode) \in {d, u}
  BY DEF Take
<1>2. CASE Take(p, b, d, u, mode) = u
  BY <1>2
<1>3. CASE Take(p, b, d, u, mode) = d
  <2>1. Take(p, b, d, d, mode) = d
    BY DEF Take
  <2> QED
    BY <1>3, <2>1
<1> QED
  BY <1>1, <1>2, <1>3

(* The result of the first run is mergeFiles' of the three trees. *)
FirstRun ==
    LET m == MergeFiles(baselineTree, diskTree, unsavedTree, whenDeleted)
    IN  /\ merged.runs \in {0, 1, 2}
        /\ merged.runs = 1 =>
             /\ merged.files = m.files
             /\ merged.conflicts = m.conflicts
             /\ merged.dropped = m.dropped

(* Init and every merge keep it. *)
LEMMA FirstRunKept == MergeSpec => []FirstRun
<1>1. MergeInit => FirstRun
  BY DEF MergeInit, FirstRun, Nothing
<1>2. FirstRun /\ [MergeNext]_mergeVars => FirstRun'
  <2> SUFFICES ASSUME FirstRun, [MergeNext]_mergeVars PROVE FirstRun'
    OBVIOUS
  <2>1. CASE MergeNext
    <3>1. UNCHANGED <<baselineTree, diskTree, unsavedTree, whenDeleted>>
      BY <2>1 DEF MergeNext, inputs
    <3>2. merged'.runs = merged.runs + 1 /\ merged.runs \in {0, 1}
      BY <2>1 DEF MergeNext, Merge, FirstRun
    <3>3. CASE merged.runs = 0
      <4>1. Merge(unsavedTree)
        BY <2>1, <3>3 DEF MergeNext
      <4> QED
        BY <3>1, <3>2, <3>3, <4>1 DEF Merge, FirstRun, MergeFiles
    <3>4. CASE merged.runs = 1
      BY <3>2, <3>4 DEF FirstRun
    <3> QED
      BY <3>2, <3>3, <3>4
  <2>2. CASE UNCHANGED mergeVars
    BY <2>2 DEF mergeVars, inputs, FirstRun, MergeFiles
  <2> QED
    BY <2>1, <2>2
<1> QED
  BY <1>1, <1>2, PTL DEF MergeSpec

(* Sync never loses a change silently, whatever the trees (mergeFiles). *)
THEOREM ChangesKeptOrFlagged == MergeSpec => []NothingLostSilently
<1>1. ASSUME FirstRun PROVE NothingLostSilently
  <2> SUFFICES ASSUME merged.runs = 1, NEW p \in Paths
               PROVE  KeepsOrFlags(p, baselineTree[p], diskTree[p], unsavedTree[p], merged.files[p], Flagged(p))
    BY DEF NothingLostSilently
  <2> DEFINE b == baselineTree[p]
             d == diskTree[p]
             u == unsavedTree[p]
  <2>1. /\ merged.files[p] = Take(p, b, d, u, whenDeleted)
        /\ Flagged(p) <=> Conflicting(p, b, d, u, whenDeleted) \/ Dropped(p, b, d, u, whenDeleted)
    BY <1>1 DEF FirstRun, MergeFiles, Flagged
  <2> QED
    BY <2>1, TakeKeepsOrFlags DEF KeepsOrFlags
<1> QED
  BY <1>1, FirstRunKept, PTL

(* Both sides of a merge are asked about the same files (mergeFiles). *)
THEOREM SidesAlwaysAgree == MergeSpec => []SidesAgree
<1>1. ASSUME FirstRun PROVE SidesAgree
  BY <1>1, ConflictsAgree DEF FirstRun, SidesAgree, MergeFiles
<1> QED
  BY <1>1, FirstRunKept, PTL

(* A merge that was written and not recorded changes nothing when it is    *)
(* made again (mergeFiles).                                                *)
THEOREM RemergeIsStable == MergeSpec => RemergeStable
<1>1. ASSUME FirstRun, [MergeNext]_mergeVars PROVE [merged.runs = 1 => merged'.files = merged.files]_mergeVars
  <2> SUFFICES ASSUME MergeNext, merged.runs = 1 PROVE merged'.files = merged.files
    BY <1>1
  <2>1. merged'.files = MergeFiles(baselineTree, diskTree, merged.files, whenDeleted).files
    BY DEF MergeNext, Merge
  <2>2. merged.files = [p \in Paths |-> Take(p, baselineTree[p], diskTree[p], unsavedTree[p], whenDeleted)]
    BY <1>1 DEF FirstRun, MergeFiles
  <2>3. merged'.files = [p \in Paths |-> Take(p, baselineTree[p], diskTree[p], merged.files[p], whenDeleted)]
    BY <2>1 DEF MergeFiles
  <2>4. \A p \in Paths : Take(p, baselineTree[p], diskTree[p], merged.files[p], whenDeleted) = merged.files[p]
    <3> SUFFICES ASSUME NEW p \in Paths
                 PROVE  Take(p, baselineTree[p], diskTree[p], merged.files[p], whenDeleted) = merged.files[p]
      OBVIOUS
    <3>1. merged.files[p] = Take(p, baselineTree[p], diskTree[p], unsavedTree[p], whenDeleted)
      BY <2>2
    <3> QED
      BY <3>1, TakeAgain
  <2> QED
    BY <2>2, <2>3, <2>4
<1> QED
  BY <1>1, FirstRunKept, PTL DEF MergeSpec, RemergeStable
=============================================================================
