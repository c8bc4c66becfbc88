---------------------------- MODULE ServerState ----------------------------
(***************************************************************************)
(* The desktop's sync state of a workspace shared through the server       *)
(* (host/src/sync/server-state.ts), file by file: state.yaml, base/,       *)
(* base.next/, advance.yaml and pending/NNNN.yaml, the order in which      *)
(* `advanceBase` and `applyAdvance` write and remove them, a crash between *)
(* any two of those steps, a folder swap that fails, and the roll-forward  *)
(* that the first use of a ServerState runs.                               *)
(*                                                                         *)
(* An instance is one ServerState object.  Opening the workspace again     *)
(* makes a new instance on the same folder; WorkspaceService.close() waits *)
(* for the operation of the old one, but only SYNC_CLOSE_WAIT_MS.          *)
(* CloseWaitSuffices says that wait is never cut short.                    *)
(***************************************************************************)
EXTENDS Naturals

CONSTANTS
    Instances,          \* ServerState objects on the one folder
    Heads,              \* commit ids of the server's history
    Null,               \* the head of a repository without a commit
    Trees,              \* trees: the content of every file
    TreeAt,             \* [AnyHead -> Trees]: the tree of each commit
    Commits,            \* ids appendPending may draw (generateId)
    MaxNumber,          \* bound on the NNNN of pending/NNNN.yaml
    CloseWaitSuffices,  \* the running operation ends within SYNC_CLOSE_WAIT_MS
    NoTree,             \* the folder does not exist
    PartialTree,        \* the folder holds some of the files of a tree
    NoHead,             \* no head: nothing fetched yet, or no state.yaml
    NoJournal           \* no advance.yaml

AnyHead == Heads \cup {Null}

ASSUME TreesAssumption ==
    /\ TreeAt \in [AnyHead -> Trees]
    /\ NoTree \notin Trees
    /\ PartialTree \notin Trees
    /\ NoTree # PartialTree
ASSUME HeadsAssumption == NoHead \notin AnyHead
ASSUME MaxNumberAssumption == MaxNumber \in Nat
ASSUME InstancesAssumption == Instances # {}
ASSUME CloseWaitAssumption == CloseWaitSuffices \in BOOLEAN
ASSUME JournalAssumption ==
    NoJournal \notin [head : Heads, pushed : SUBSET (1 .. MaxNumber)]

VARIABLES
    \* on disk
    baseHead,   \* base.head of state.yaml; NoHead while there is no state.yaml
    knownHead,  \* knownHead of state.yaml
    base,       \* base/
    baseNext,   \* base.next/
    journal,    \* advance.yaml: [head, pushed]; pushed holds file names
    pending,    \* pending/: the files as [number, id]
    \* in memory
    current,    \* the instance the open workspace uses
    pc,         \* where each instance's operation stands
    arg,        \* what its operation works on: [head, ids, names]
    recovered,  \* its `recovery` promise is set and resolved
    \* history, for the properties only
    sent,       \* ids of the commits some push was answered for
    used        \* ids drawn so far

disk == <<baseHead, knownHead, base, baseNext, journal, pending>>
memory == <<current, pc, arg, recovered>>
vars == <<disk, memory, sent, used>>

Folder == Trees \cup {NoTree, PartialTree}
Numbers == 1 .. MaxNumber
Journals == [head : Heads, pushed : SUBSET Numbers]
Arguments == [head : AnyHead \cup {NoHead}, ids : SUBSET Commits, names : SUBSET Numbers]
NoArgument == [head |-> NoHead, ids |-> {}, names |-> {}]

(* applyAdvance's steps; the others are advanceBase's and initialize's. *)
ApplySteps == {"readJournal", "removeBase", "swap", "dropPending", "writeDoc", "removeJournal"}
Steps == ApplySteps \cup
    {"idle", "initDoc", "request", "clearNext", "writeNext", "writeJournal"}

Init ==
    /\ baseHead = NoHead
    /\ knownHead = NoHead
    /\ base = NoTree
    /\ baseNext = NoTree
    /\ journal = NoJournal
    /\ pending = {}
    /\ current \in Instances
    /\ pc = [i \in Instances |-> "idle"]
    /\ arg = [i \in Instances |-> NoArgument]
    /\ recovered = [i \in Instances |-> FALSE]
    /\ sent = {}
    /\ used = {}

Goto(i, step) == pc' = [pc EXCEPT ![i] = step]

(* What the operation works on from now on. *)
Work(i, h, ids, names) ==
    arg' = [arg EXCEPT ![i] = [head |-> h, ids |-> ids, names |-> names]]

(* The operation ends; `recovery` is then set, or reset for the next use. *)
Finish(i, ok) ==
    /\ Goto(i, "idle")
    /\ Work(i, NoHead, {}, {})
    /\ recovered' = [recovered EXCEPT ![i] = ok]

(* The instance may begin an operation: `recover` has run. *)
Ready(i) == i = current /\ pc[i] = "idle" /\ recovered[i]

---------------------------------------------------------------------------
(* initialize *)

(* The folder is made and base/ is written, file by file ... *)
InitializeBase(i, h) ==
    /\ i = current /\ pc[i] = "idle"
    /\ baseHead = NoHead
    /\ base' = TreeAt[h]
    /\ Work(i, h, {}, {})
    /\ Goto(i, "initDoc")
    /\ UNCHANGED <<baseHead, knownHead, baseNext, journal, pending, current, recovered, sent, used>>

(* ... and state.yaml last. *)
InitializeDoc(i) ==
    /\ pc[i] = "initDoc"
    /\ baseHead' = arg[i].head
    /\ Finish(i, FALSE)
    /\ UNCHANGED <<knownHead, base, baseNext, journal, pending, current, sent, used>>

---------------------------------------------------------------------------
(* recover, appendPending, update *)

(* The first use of an instance rolls an interrupted advance forward. *)
Recover(i) ==
    /\ i = current /\ pc[i] = "idle" /\ ~recovered[i]
    /\ baseHead # NoHead
    /\ Goto(i, "readJournal")
    /\ UNCHANGED <<disk, current, arg, recovered, sent, used>>

(* One more than the last number, or 1 in an empty folder. *)
IsNextNumber(n) ==
    /\ \A e \in pending : e.number < n
    /\ n = 1 \/ \E e \in pending : e.number + 1 = n

AppendPending(i, c) ==
    /\ Ready(i)
    /\ c \notin used
    /\ \E n \in Numbers :
          /\ IsNextNumber(n)
          /\ pending' = pending \cup {[number |-> n, id |-> c]}
    /\ used' = used \cup {c}
    /\ UNCHANGED <<baseHead, knownHead, base, baseNext, journal, memory, sent>>

(* A fetch records the head the server answered with. *)
Update(i, h) ==
    /\ Ready(i)
    /\ knownHead' = h
    /\ UNCHANGED <<baseHead, base, baseNext, journal, pending, memory, sent, used>>

---------------------------------------------------------------------------
(* The backend's push (ids = the pending commits it sends) and merge       *)
(* (ids = {}): the request, then advanceBase.                              *)

Request(i, ids) ==
    /\ Ready(i)
    /\ Work(i, NoHead, ids, {})
    /\ Goto(i, "request")
    /\ UNCHANGED <<disk, current, recovered, sent, used>>

Push(i) == pending # {} /\ Request(i, {e.id : e \in pending})
Merge(i) == Request(i, {})

(* The request failed, or a write before advance.yaml did: nothing that    *)
(* counts has changed.                                                     *)
RequestFails(i) ==
    /\ pc[i] \in {"request", "clearNext", "writeNext", "writeJournal"}
    /\ Finish(i, recovered[i])
    /\ UNCHANGED <<disk, current, sent, used>>
(* Mutant: the base advances to the head the request named, not the answer's. *)
AnswerKeepsHead(i, h) ==
    /\ pc[i] = "request"
    /\ Work(i, arg[i].head, arg[i].ids, {e.number : e \in {x \in pending : x.id \in arg[i].ids}})
    /\ sent' = sent \cup arg[i].ids
    /\ Goto(i, "clearNext")
    /\ UNCHANGED <<disk, current, recovered, used>>

(* Mutant: everything in pending/ is taken for pushed. *)
AnswerTakesAll(i, h) ==
    /\ pc[i] = "request"
    /\ Work(i, h, arg[i].ids, {e.number : e \in pending})
    /\ sent' = sent \cup arg[i].ids
    /\ Goto(i, "clearNext")
    /\ UNCHANGED <<disk, current, recovered, used>>

(* The answer names head h.  advanceBase starts: it turns the pushed ids   *)
(* into file names.                                                        *)
Answer(i, h) ==
    /\ pc[i] = "request"
    /\ Work(i, h, arg[i].ids, {e.number : e \in {x \in pending : x.id \in arg[i].ids}})
    /\ sent' = sent \cup arg[i].ids
    /\ Goto(i, "clearNext")
    /\ UNCHANGED <<disk, current, recovered, used>>

(* rm base.next; mkdir; the first files *)
ClearNext(i) ==
    /\ pc[i] = "clearNext"
    /\ baseNext' = PartialTree
    /\ Goto(i, "writeNext")
    /\ UNCHANGED <<baseHead, knownHead, base, journal, pending, current, arg, recovered, sent, used>>
(* Mutant: advance.yaml is written before the last file of base.next/ is. *)
WriteNextPartly(i) ==
    /\ pc[i] = "writeNext"
    /\ Goto(i, "writeJournal")
    /\ UNCHANGED <<disk, current, arg, recovered, sent, used>>

(* The last file of base.next/.  A base.next/ that is gone or whole by now *)
(* is another instance's doing: what this one still writes is not a tree.  *)
WriteNext(i) ==
    /\ pc[i] = "writeNext"
    /\ baseNext' = IF baseNext = PartialTree THEN TreeAt[arg[i].head] ELSE PartialTree
    /\ Goto(i, "writeJournal")
    /\ UNCHANGED <<baseHead, knownHead, base, journal, pending, current, arg, recovered, sent, used>>

(* advance.yaml: from here on the advance completes. *)
WriteJournal(i) ==
    /\ pc[i] = "writeJournal"
    /\ journal' = [head |-> arg[i].head, pushed |-> arg[i].names]
    /\ Goto(i, "readJournal")
    /\ UNCHANGED <<baseHead, knownHead, base, baseNext, pending, current, arg, recovered, sent, used>>

---------------------------------------------------------------------------
(* applyAdvance *)

(* No journal: the base.next/ an interrupted advance left is discarded.    *)
DiscardNext(i) ==
    /\ pc[i] = "readJournal" /\ journal = NoJournal
    /\ baseNext' = NoTree
    /\ Finish(i, TRUE)
    /\ UNCHANGED <<baseHead, knownHead, base, journal, pending, current, sent, used>>

(* A journal: its base.next/, when it is still there, replaces base/.      *)
ReadJournal(i) ==
    /\ pc[i] = "readJournal" /\ journal # NoJournal
    /\ Work(i, journal.head, {}, journal.pushed)
    /\ IF baseNext # NoTree
       THEN Goto(i, "removeBase") /\ base' = IF base = NoTree THEN NoTree ELSE PartialTree
       ELSE Goto(i, "dropPending") /\ UNCHANGED base
    /\ UNCHANGED <<baseHead, knownHead, baseNext, journal, pending, current, recovered, sent, used>>

RemoveBase(i) ==
    /\ pc[i] = "removeBase"
    /\ base' = NoTree
    /\ Goto(i, "swap")
    /\ UNCHANGED <<baseHead, knownHead, baseNext, journal, pending, current, arg, recovered, sent, used>>

(* rename base.next base *)
Swap(i) ==
    /\ pc[i] = "swap"
    /\ baseNext # NoTree /\ base = NoTree
    /\ base' = baseNext
    /\ baseNext' = NoTree
    /\ Goto(i, "dropPending")
    /\ UNCHANGED <<baseHead, knownHead, journal, pending, current, arg, recovered, sent, used>>
(* Mutant: a recovery that failed is remembered as done. *)
ApplyFailsDone(i) ==
    /\ pc[i] \in ApplySteps
    /\ Finish(i, TRUE)
    /\ UNCHANGED <<disk, current, sent, used>>

(* The rename fails (EPERM on Windows), or another of these steps does:    *)
(* the operation throws, and the next use recovers again.                  *)
ApplyFails(i) ==
    /\ pc[i] \in ApplySteps
    /\ Finish(i, FALSE)
    /\ UNCHANGED <<disk, current, sent, used>>

(* rm pending/NNNN.yaml, one name after the other *)
DropPending(i) ==
    /\ pc[i] = "dropPending"
    /\ \/ /\ \E n \in arg[i].names :
                /\ pending' = {e \in pending : e.number # n}
                /\ Work(i, arg[i].head, {}, arg[i].names \ {n})
          /\ UNCHANGED pc
       \/ /\ arg[i].names = {}
          /\ Goto(i, "writeDoc")
          /\ UNCHANGED <<pending, arg>>
    /\ UNCHANGED <<baseHead, knownHead, base, baseNext, journal, current, recovered, sent, used>>

WriteDoc(i) ==
    /\ pc[i] = "writeDoc"
    /\ baseHead' = arg[i].head
    /\ knownHead' = arg[i].head
    /\ Goto(i, "removeJournal")
    /\ UNCHANGED <<base, baseNext, journal, pending, current, arg, recovered, sent, used>>

RemoveJournal(i) ==
    /\ pc[i] = "removeJournal"
    /\ journal' = NoJournal
    /\ Finish(i, TRUE)
    /\ UNCHANGED <<baseHead, knownHead, base, baseNext, pending, current, sent, used>>

---------------------------------------------------------------------------
(* The app stops: memory is gone, and the next start makes a new instance. *)
Crash ==
    /\ pc' = [i \in Instances |-> "idle"]
    /\ arg' = [i \in Instances |-> NoArgument]
    /\ recovered' = [i \in Instances |-> FALSE]
    /\ UNCHANGED <<disk, current, sent, used>>

(* The shared workspace is closed and opened again under a new instance.   *)
Reopen(i) ==
    /\ baseHead # NoHead
    /\ i # current /\ pc[i] = "idle"
    /\ CloseWaitSuffices => pc[current] = "idle"
    /\ current' = i
    /\ recovered' = [recovered EXCEPT ![i] = FALSE]
    /\ UNCHANGED <<disk, pc, arg, sent, used>>

AdvanceStep(i) ==
    ClearNext(i) \/ WriteNext(i) \/ WriteJournal(i)

ApplyStep(i) ==
    \/ DiscardNext(i) \/ ReadJournal(i) \/ RemoveBase(i) \/ Swap(i) \/ ApplyFails(i)
    \/ DropPending(i) \/ WriteDoc(i) \/ RemoveJournal(i)

Operation(i) ==
    \/ \E h \in AnyHead : InitializeBase(i, h) \/ Update(i, h)
    \/ \E h \in Heads : Answer(i, h)
    \/ InitializeDoc(i) \/ Recover(i) \/ Push(i) \/ Merge(i) \/ RequestFails(i)
    \/ \E c \in Commits : AppendPending(i, c)

Next ==
    \/ Crash
    \/ \E i \in Instances : Reopen(i) \/ Operation(i) \/ AdvanceStep(i) \/ ApplyStep(i)

Spec == Init /\ [][Next]_vars

---------------------------------------------------------------------------
(* Properties *)

TypeOK ==
    /\ baseHead \in AnyHead \cup {NoHead}
    /\ knownHead \in AnyHead \cup {NoHead}
    /\ base \in Folder
    /\ baseNext \in Folder
    /\ journal \in Journals \cup {NoJournal}
    /\ pending \in SUBSET [number : Numbers, id : Commits]
    /\ current \in Instances
    /\ pc \in [Instances -> Steps]
    /\ arg \in [Instances -> Arguments]
    /\ \A i \in Instances :
          /\ pc[i] = "initDoc" => arg[i].head \in AnyHead
          /\ pc[i] \in {"clearNext", "writeNext", "writeJournal"} => arg[i].head \in Heads
    /\ recovered \in [Instances -> BOOLEAN]
    /\ sent \in SUBSET Commits
    /\ used \in SUBSET Commits

(* "`base/` and `base.head` always describe the same commit" (the header   *)
(* of server-state.ts): whatever was interrupted before, an operation that *)
(* reads base/ after `recover` finds the tree of base.head, whole.         *)
BaseMatchesHead ==
    \A i \in Instances : Ready(i) => base = TreeAt[baseHead]

(* "Only those" (advanceBase): a pending commit leaves pending/ only when  *)
(* a push that carried it was answered, whichever instance appended it and *)
(* however often an interrupted advance is applied again.                  *)
UnsentStaysPending ==
    [][\A e \in pending : e \notin pending' => e.id \in sent]_vars

(* The snapshot the folder stands for: once advance.yaml is written the    *)
(* advance completes, so the journal wins over what is still on disk.      *)
Committed == journal # NoJournal
Snapshot == INSTANCE BaseSnapshot WITH
    Heads <- AnyHead,
    head <- IF Committed THEN journal.head ELSE baseHead,
    known <- IF Committed THEN journal.head ELSE knownHead,
    files <- IF baseHead = NoHead THEN NoTree
             ELSE IF Committed /\ baseNext # NoTree THEN baseNext
             ELSE base,
    pending <- {e.id : e \in {x \in pending : Committed => x.number \notin journal.pushed}}

(* advanceBase, interrupted anywhere and rolled forward, is one atomic     *)
(* change of base/, base.head, knownHead and pending/.                     *)
SnapshotSpec == Snapshot!Spec
---------------------------------------------------------------------------
(* The inductive invariant behind the properties, in named parts.          *)

(* close() waited: only the instance in use is in the middle of anything.  *)
OneAtWork == \A i \in Instances : i # current => pc[i] = "idle"

(* Before state.yaml exists there is nothing but, perhaps, a base/.        *)
Uninitialised ==
    /\ baseHead = NoHead =>
          /\ journal = NoJournal /\ baseNext = NoTree
          /\ pending = {} /\ knownHead = NoHead
          /\ pc[current] \in {"idle", "initDoc"}
          /\ \A i \in Instances : ~recovered[i]
    /\ pc[current] = "initDoc" =>
          /\ baseHead = NoHead
          /\ base = TreeAt[arg[current].head]

(* A number names one pending commit, whose id was drawn.                  *)
PendingNamed ==
    /\ \A e, f \in pending : e.number = f.number => e = f
    /\ \A e \in pending : e.id \in used

(* Which step sees a journal.                                              *)
JournalSeen ==
    /\ recovered[current] /\ pc[current] \notin ApplySteps => journal = NoJournal
    /\ pc[current] \in {"request", "clearNext", "writeNext", "writeJournal"} => recovered[current]
    /\ pc[current] \in ApplySteps \ {"readJournal"} =>
          journal # NoJournal /\ arg[current].head = journal.head

(* Where the whole trees are.                                              *)
TreesWhole ==
    /\ baseHead # NoHead /\ journal = NoJournal => base = TreeAt[baseHead]
    /\ journal # NoJournal =>
          \/ baseNext = TreeAt[journal.head]
          \/ baseNext = NoTree /\ base = TreeAt[journal.head]
    /\ pc[current] \in {"removeBase", "swap"} => baseNext # NoTree
    /\ pc[current] = "swap" => base = NoTree
    /\ pc[current] \in {"dropPending", "writeDoc", "removeJournal"} => baseNext = NoTree
    /\ pc[current] = "writeNext" => baseNext = PartialTree
    /\ pc[current] = "writeJournal" => baseNext = TreeAt[arg[current].head]
    /\ pc[current] = "removeJournal" => baseHead = journal.head /\ knownHead = journal.head

(* Only files of commits that were sent are named for removal.             *)
PushedWereSent ==
    /\ journal # NoJournal =>
          \A e \in pending : e.number \in journal.pushed => e.id \in sent
    /\ pc[current] \in {"clearNext", "writeNext", "writeJournal"} =>
          /\ arg[current].ids \subseteq sent
          /\ \A e \in pending : e.number \in arg[current].names <=> e.id \in arg[current].ids
    /\ pc[current] \in {"removeBase", "swap", "dropPending"} =>
          /\ arg[current].names \subseteq journal.pushed
          /\ \A e \in pending : e.number \in journal.pushed => e.number \in arg[current].names
    /\ pc[current] \in {"writeDoc", "removeJournal"} =>
          \A e \in pending : e.number \notin journal.pushed

IInv ==
    /\ TypeOK
    /\ OneAtWork
    /\ Uninitialised
    /\ PendingNamed
    /\ JournalSeen
    /\ TreesWhole
    /\ PushedWereSent
=============================================================================
