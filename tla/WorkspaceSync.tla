--------------------------- MODULE WorkspaceSync ---------------------------
(***************************************************************************)
(* Desktops that share one workspace through the server:                   *)
(*   - the server's main branch, which a push may only extend from its     *)
(*     head (server/src/sync/commit-store.ts, routes/commits.ts);          *)
(*   - each desktop's working tree, base snapshot, pending commits and     *)
(*     open merge (host/src/sync/server-backend.ts, server-state.ts);      *)
(*   - the operations SyncService runs one at a time                       *)
(*     (host/src/sync/sync-service.ts): commit, fetch, pull, push with     *)
(*     one pull and retry, resolve, finish and abort.                      *)
(*                                                                         *)
(* A save writes into the tree at any time, an app may stop between any    *)
(* two durable steps, a push may fail, and an answer may never arrive      *)
(* although the server applied the request, then or later.  advanceBase is *)
(* one step here: ServerState proves that it is.                           *)
(***************************************************************************)
EXTENDS Naturals, Sequences, FiniteSets, SyncTrees

CONSTANTS
    Clients,        \* desktops
    VaultPaths,     \* the paths of team secret values, whose conflicts settle themselves
    Contents,       \* file contents
    NoHead,         \* knownHead before the first fetch
    NoMerge,        \* no merge.yaml
    NoEdit,         \* no edit of a path
    FirstTrees,     \* the trees the shared workspace may start with
    MaxSaves,       \* bound: saves of all desktops
    MaxFaults,      \* bound: crashes and unanswered pushes
    MaxHistory,     \* bound: commits on main
    SplitBatches,   \* a push may need more than one request (PUSH_BATCH_BYTES)
    SavesHeld       \* no save falls between merge()'s last look at the tree
                    \* and its writes

ASSUME VaultAssumption == VaultPaths \subseteq Paths

Values == Contents \cup {Absent}
Files == [Paths -> Values]

ASSUME FirstTreesAssumption == FirstTrees \subseteq Files

Changes == UNION {[D -> Values] : D \in SUBSET Paths}
CommitType == [id : Nat, changes : Changes]
MergeType ==
    [conflicts : SUBSET Paths, mine : Files, theirs : Files, preMerge : Files, paths : SUBSET Paths]

ASSUME MarkersAssumption ==
    Absent \notin Contents /\ NoHead \notin Nat /\ NoMerge \notin MergeType /\ NoEdit \notin Values

VARIABLES
    history,    \* main: [tree, author, id] per commit; the head is the last
    late,       \* pushes whose client no longer waits: [author, parent, commits]
    tree,       \* the working tree of each desktop
    base,       \* base/
    baseHead,   \* base.head: an index of history
    known,      \* knownHead
    pending,    \* pending/: <<[id, changes], ...>>, oldest first
    merge,      \* merge.yaml, or NoMerge
    pc,         \* where the running operation stands
    work,       \* what it holds in memory
    drawn,      \* commit ids drawn so far by each desktop
    edit,       \* history variable: the latest save of each path main has not seen
    fresh,      \* history variable: every save of each path main has not seen
    saves,      \* number of saves so far
    faults      \* number of faults so far

disk == <<tree, base, baseHead, known, pending, merge>>
counters == <<saves, faults>>
ghosts == <<edit, fresh>>
vars == <<history, late, disk, pc, work, drawn, ghosts, counters>>

Merger == INSTANCE ThreeWayMerge WITH Compared <- LAMBDA p, v : v

MainHead == Len(history)
TreeAt(h) == history[h].tree

---------------------------------------------------------------------------
(* Trees and changes *)

(* CommitStore.changes: what differs between two commits of main *)
ServerChanges(from, to) == Diff(TreeAt(from), TreeAt(to))

Touching(commits, n, p) == {i \in 1 .. n : p \in DOMAIN commits[i].changes}

(* applyChanges over the first n commits, oldest first: the last one that  *)
(* touches a path decides it.                                              *)
Replay(files, commits, n) ==
    [p \in Paths |->
        IF Touching(commits, n, p) = {} THEN files[p]
        ELSE LET last == CHOOSE i \in Touching(commits, n, p) :
                            \A j \in Touching(commits, n, p) : j <= i
             IN  commits[last].changes[p]]

(* committedFiles *)
Committed(c) == Replay(base[c], pending[c], Len(pending[c]))
Uncommitted(c) == Committed(c) # tree[c]

InConflict(c) == merge[c] # NoMerge /\ merge[c].conflicts # {}

NoWork == [head |-> 0, theirs |-> NoFiles, target |-> NoFiles, todo |-> {}, conflicts |-> {},
           batch |-> 0, attempt |-> 0]

Init ==
    /\ \E t \in FirstTrees :
          /\ history = <<[tree |-> t, author |-> NoEdit, id |-> 0]>>
          /\ tree = [c \in Clients |-> t]
          /\ base = [c \in Clients |-> t]
    /\ late = {}
    /\ baseHead = [c \in Clients |-> 1]
    /\ known = [c \in Clients |-> NoHead]
    /\ pending = [c \in Clients |-> <<>>]
    /\ merge = [c \in Clients |-> NoMerge]
    /\ pc = [c \in Clients |-> "idle"]
    /\ work = [c \in Clients |-> NoWork]
    /\ drawn = [c \in Clients |-> 0]
    /\ edit = [c \in Clients |-> [p \in Paths |-> NoEdit]]
    /\ fresh = [c \in Clients |-> [p \in Paths |-> {}]]
    /\ saves = 0
    /\ faults = 0

Goto(c, step) == pc' = [pc EXCEPT ![c] = step]
Work(c, w) == work' = [work EXCEPT ![c] = w]
EndOperation(c) == Goto(c, "idle") /\ Work(c, NoWork)

(* A commit of `changes` joins pending/ under a fresh id. *)
AppendPending(c, changes) ==
    IF DOMAIN changes = {} THEN UNCHANGED <<pending, drawn>>
    ELSE /\ pending' = [pending EXCEPT ![c] = Append(@, [id |-> drawn[c] + 1, changes |-> changes])]
         /\ drawn' = [drawn EXCEPT ![c] = @ + 1]

(* advanceBase *)
AdvanceBase(c, h, files) ==
    /\ base' = [base EXCEPT ![c] = files]
    /\ baseHead' = [baseHead EXCEPT ![c] = h]
    /\ known' = [known EXCEPT ![c] = h]

(* The edits of these paths are no edits any more. *)
Settle(c, paths) ==
    /\ edit' = [edit EXCEPT ![c] = [p \in Paths |-> IF p \in paths THEN NoEdit ELSE @[p]]]
    /\ fresh' = [fresh EXCEPT ![c] = [p \in Paths |-> IF p \in paths THEN {} ELSE @[p]]]

(* Main has seen what the request carried; what its author committed or    *)
(* saved since is still to come.                                           *)
Published(r) ==
    LET carried == {r.commits[i].id : i \in DOMAIN r.commits}
        seen == [p \in Paths |-> {r.commits[i].changes[p] : i \in Touching(r.commits, Len(r.commits), p)}]
        later == [p \in Paths |-> {i \in Touching(pending[r.author], Len(pending[r.author]), p) :
                                      pending[r.author][i].id \notin carried}]
        open == [p \in Paths |-> later[p] # {} \/ tree[r.author][p] # Committed(r.author)[p]]
        ahead == [p \in Paths |-> {pending[r.author][i].changes[p] : i \in later[p]}]
        left == [p \in Paths |-> IF ~open[p] /\ edit[r.author][p] \in seen[p] THEN NoEdit
                                 ELSE edit[r.author][p]]
    IN  /\ edit' = [edit EXCEPT ![r.author] = left]
        /\ fresh' = [fresh EXCEPT ![r.author] =
              [p \in Paths |-> {v \in @[p] : v \in seen[p] => v = left[p] \/ v \in ahead[p]}]]

---------------------------------------------------------------------------
(* The user saves, and may do so while an operation runs. *)
Save(c, p, v) ==
    /\ saves < MaxSaves
    /\ tree[c][p] # v
    /\ SavesHeld => pc[c] # "writing"
    /\ tree' = [tree EXCEPT ![c][p] = v]
    /\ edit' = [edit EXCEPT ![c][p] = v]
    /\ fresh' = [fresh EXCEPT ![c][p] = @ \cup {v}]
    /\ saves' = saves + 1
    /\ UNCHANGED <<history, late, base, baseHead, known, pending, merge, pc, work, drawn, faults>>

(* SyncService.commit and the commit a save schedules; refused while a     *)
(* conflict is open.                                                       *)
Commit(c) ==
    /\ pc[c] = "idle" /\ ~InConflict(c)
    /\ Uncommitted(c)
    /\ AppendPending(c, Diff(Committed(c), tree[c]))
    /\ UNCHANGED <<history, late, tree, base, baseHead, known, merge, pc, work, ghosts, counters>>
(* Mutant: a fetch moves knownHead under an open merge. *)
FetchedHeadMoves(c) == MainHead

(* Mutant: the head of the first fetch is kept for good. *)
FetchedHeadOnce(c) == IF known[c] # NoHead THEN known[c] ELSE MainHead

(* ServerBackend.fetch: knownHead stays while a merge is open. *)
FetchedHead(c) == IF merge[c] # NoMerge THEN known[c] ELSE MainHead

Fetch(c) ==
    /\ pc[c] = "idle"
    /\ known' = [known EXCEPT ![c] = FetchedHead(c)]
    /\ UNCHANGED <<history, late, tree, base, baseHead, pending, merge, pc, work, drawn, ghosts, counters>>

---------------------------------------------------------------------------
(* pullNow *)

(* The merge is over: a push that was refused is tried again. *)
AfterMerge(c) ==
    IF work[c].attempt = 1
    THEN Goto(c, "repush") /\ Work(c, [NoWork EXCEPT !.attempt = 2])
    ELSE EndOperation(c)

(* Fetches, commits what is not committed, and starts merge(): a resolved  *)
(* merge that was never finished is finished first.                        *)
Pull(c) ==
    /\ pc[c] = "idle" \/ pc[c] = "repull"
    /\ ~InConflict(c)
    /\ known' = [known EXCEPT ![c] = FetchedHead(c)]
    /\ AppendPending(c, Diff(Committed(c), tree[c]))
    /\ Goto(c, IF merge[c] # NoMerge THEN "finish" ELSE "download")
    /\ UNCHANGED <<history, late, tree, base, baseHead, merge, work, ghosts, counters>>

(* An open conflict, or changes that are not to be committed by themselves *)
(* (commitOnSave is off, or they hold possible secrets): only fetched.     *)
PullRefused(c) ==
    /\ pc[c] = "repull"
    /\ InConflict(c) \/ Uncommitted(c)
    /\ known' = [known EXCEPT ![c] = FetchedHead(c)]
    /\ EndOperation(c)
    /\ UNCHANGED <<history, late, tree, base, baseHead, pending, merge, drawn, ghosts, counters>>

(* Nothing to merge. *)
MergeNothing(c) ==
    /\ pc[c] = "download"
    /\ known[c] = baseHead[c] \/ known[c] = NoHead
    /\ AfterMerge(c)
    /\ UNCHANGED <<history, late, disk, drawn, ghosts, counters>>

(* A save came while the changes were downloaded: nothing changes. *)
MergeRefused(c) ==
    /\ pc[c] = "download" /\ Uncommitted(c)
    /\ EndOperation(c)
    /\ UNCHANGED <<history, late, disk, drawn, ghosts, counters>>

(* The fetch or the download fails. *)
PullFails(c) ==
    /\ pc[c] \in {"repull", "download"}
    /\ faults < MaxFaults
    /\ faults' = faults + 1
    /\ EndOperation(c)
    /\ UNCHANGED <<history, late, disk, drawn, ghosts, saves>>
(* Mutant: the second look at the tree, after the download, is left out. *)
MergeComputeUnchecked(c) ==
    /\ pc[c] = "download"
    /\ known[c] # NoHead /\ known[c] # baseHead[c]
    /\ LET theirs == Apply(base[c], ServerChanges(baseHead[c], known[c]))
           mine == Committed(c)
           result == Merger!MergeFiles(base[c], theirs, mine, "conflict")
       IN  /\ Work(c, [work[c] EXCEPT !.head = known[c], !.theirs = theirs, !.target = result.files,
                                      !.todo = {p \in Paths : mine[p] # result.files[p]},
                                      !.conflicts = result.conflicts])
           /\ Settle(c, {p \in Paths : mine[p] = base[c][p] /\ tree[c][p] = mine[p]})
    /\ Goto(c, "writing")
    /\ UNCHANGED <<history, late, disk, drawn, counters>>

(* The changes between the two heads are here; applied to base/ they make  *)
(* theirs, which is merged with the committed files.  An edit back to the  *)
(* base's own content is no change of mine any more.                       *)
MergeCompute(c) ==
    /\ pc[c] = "download"
    /\ known[c] # NoHead /\ known[c] # baseHead[c]
    /\ ~Uncommitted(c)
    /\ LET theirs == Apply(base[c], ServerChanges(baseHead[c], known[c]))
           mine == Committed(c)
           result == Merger!MergeFiles(base[c], theirs, mine, "conflict")
       IN  /\ Work(c, [work[c] EXCEPT !.head = known[c], !.theirs = theirs, !.target = result.files,
                                      !.todo = {p \in Paths : mine[p] # result.files[p]},
                                      !.conflicts = result.conflicts])
           /\ Settle(c, {p \in Paths : mine[p] = base[c][p] /\ tree[c][p] = mine[p]})
    /\ Goto(c, "writing")
    /\ UNCHANGED <<history, late, disk, drawn, counters>>

(* writeTreeFiles, one file at a time *)
MergeWrite(c, p) ==
    /\ pc[c] = "writing" /\ p \in work[c].todo
    /\ tree' = [tree EXCEPT ![c][p] = work[c].target[p]]
    /\ Work(c, [work[c] EXCEPT !.todo = @ \ {p}])
    /\ UNCHANGED <<history, late, base, baseHead, known, pending, merge, pc, drawn, ghosts, counters>>

(* Conflicts: the merge is recorded. *)
MergeConflict(c) ==
    /\ pc[c] = "writing" /\ work[c].todo = {} /\ work[c].conflicts # {}
    /\ merge' = [merge EXCEPT ![c] =
          LET mine == Committed(c)
          IN  [conflicts |-> work[c].conflicts, mine |-> mine, theirs |-> work[c].theirs, preMerge |-> mine,
               paths |-> work[c].conflicts \cup {p \in Paths : mine[p] # work[c].target[p]}]]
    /\ Goto(c, "autoResolve")
    /\ Work(c, [NoWork EXCEPT !.attempt = work[c].attempt])
    /\ UNCHANGED <<history, late, tree, base, baseHead, known, pending, drawn, ghosts, counters>>

(* What autoResolve leaves open waits for the user. *)
ConflictLeft(c) ==
    /\ pc[c] = "autoResolve"
    /\ EndOperation(c)
    /\ UNCHANGED <<history, late, disk, drawn, ghosts, counters>>

(* No conflict: the base moves to the merged head ... *)
MergeAdvance(c) ==
    /\ pc[c] = "writing" /\ work[c].todo = {} /\ work[c].conflicts = {}
    /\ AdvanceBase(c, work[c].head, work[c].theirs)
    /\ IF pending[c] # <<>> THEN Goto(c, "recordMerge") /\ UNCHANGED work ELSE AfterMerge(c)
    /\ UNCHANGED <<history, late, tree, pending, merge, drawn, ghosts, counters>>
(* Mutant: no Merge commit follows the pending ones. *)
RecordMergeMissing(c) ==
    /\ pc[c] = "recordMerge"
    /\ AfterMerge(c)
    /\ UNCHANGED <<history, late, disk, drawn, ghosts, counters>>

(* ... and, over pending commits, a Merge commit takes them to the result. *)
RecordMerge(c) ==
    /\ pc[c] = "recordMerge"
    /\ AppendPending(c, Diff(Committed(c), work[c].target))
    /\ AfterMerge(c)
    /\ UNCHANGED <<history, late, tree, base, baseHead, known, merge, ghosts, counters>>

---------------------------------------------------------------------------
(* Conflicts *)

Sides == {"mine", "theirs"}
Kept(c, p, side) == IF side = "mine" THEN merge[c].mine[p] ELSE merge[c].theirs[p]

(* resolve, for the user or, inside a pull, for autoResolve: the kept side *)
(* goes into the tree ...  It is decided: what was saved under this path   *)
(* before is settled, mine is an edit to publish.                          *)
Resolve(c, p, side) ==
    /\ pc[c] = "idle" \/ (pc[c] = "autoResolve" /\ p \in VaultPaths)
    /\ InConflict(c) /\ p \in merge[c].conflicts
    /\ tree' = [tree EXCEPT ![c][p] = Kept(c, p, side)]
    /\ edit' = [edit EXCEPT ![c][p] = IF side = "mine" THEN Kept(c, p, side) ELSE NoEdit]
    /\ fresh' = [fresh EXCEPT ![c][p] = IF side = "mine" THEN {Kept(c, p, side)} ELSE {}]
    /\ Goto(c, IF pc[c] = "idle" THEN "resolving" ELSE "autoResolving")
    /\ Work(c, [work[c] EXCEPT !.todo = {p}])
    /\ UNCHANGED <<history, late, base, baseHead, known, pending, merge, drawn, counters>>

(* ... then the path leaves the record; the last one finishes the merge.   *)
ResolveRecord(c) ==
    /\ pc[c] \in {"resolving", "autoResolving"}
    /\ merge' = [merge EXCEPT ![c].conflicts = @ \ work[c].todo]
    /\ Work(c, [work[c] EXCEPT !.todo = {}])
    /\ Goto(c, IF merge[c].conflicts \ work[c].todo = {} THEN "finish"
               ELSE IF pc[c] = "resolving" THEN "idle" ELSE "autoResolve")
    /\ UNCHANGED <<history, late, tree, base, baseHead, known, pending, drawn, ghosts, counters>>

(* resolve finds nothing in conflict any more in a record that an          *)
(* interruption left behind: the merge is finished.                        *)
ResolveNothing(c) ==
    /\ pc[c] = "idle" /\ merge[c] # NoMerge /\ merge[c].conflicts = {}
    /\ Goto(c, "finish")
    /\ UNCHANGED <<history, late, disk, work, drawn, ghosts, counters>>

(* finishMerge: what the merge's paths hold now is the resolution, and the *)
(* record goes first ...                                                   *)
FinishClear(c) ==
    /\ pc[c] = "finish"
    /\ Work(c, [work[c] EXCEPT !.head = known[c], !.theirs = merge[c].theirs,
                               !.target = [p \in Paths |-> IF p \in merge[c].paths THEN tree[c][p]
                                                           ELSE Committed(c)[p]]])
    /\ merge' = [merge EXCEPT ![c] = NoMerge]
    /\ Goto(c, "finishAdvance")
    /\ UNCHANGED <<history, late, tree, base, baseHead, known, pending, drawn, ghosts, counters>>

(* ... then the base, then the Merge commit. *)
FinishAdvance(c) ==
    /\ pc[c] = "finishAdvance"
    /\ AdvanceBase(c, work[c].head, work[c].theirs)
    /\ Goto(c, "recordMerge")
    /\ UNCHANGED <<history, late, tree, pending, merge, work, drawn, ghosts, counters>>

(* abortMerge: the pre-merge files come back, then the record goes.  What  *)
(* was decided is open again: mine is an edit to publish where it is not   *)
(* the base's, and what was saved over it meanwhile is given up.           *)
Abort(c) ==
    /\ pc[c] = "idle" /\ merge[c] # NoMerge
    /\ LET before == merge[c].preMerge
           open == {p \in merge[c].paths : before[p] # base[c][p]}
       IN  /\ tree' = [tree EXCEPT ![c] = [p \in Paths |-> IF p \in merge[c].paths THEN before[p] ELSE @[p]]]
           /\ edit' = [edit EXCEPT ![c] =
                 [p \in Paths |-> IF p \in open THEN before[p]
                                  ELSE IF p \in merge[c].paths /\ @[p] # before[p] THEN NoEdit
                                  ELSE @[p]]]
           /\ fresh' = [fresh EXCEPT ![c] =
                 [p \in Paths |-> IF p \in open THEN @[p] \cup {before[p]} ELSE @[p]]]
    /\ Goto(c, "aborting")
    /\ UNCHANGED <<history, late, base, baseHead, known, pending, merge, work, drawn, counters>>

AbortClear(c) ==
    /\ pc[c] = "aborting"
    /\ merge' = [merge EXCEPT ![c] = NoMerge]
    /\ EndOperation(c)
    /\ UNCHANGED <<history, late, tree, base, baseHead, known, pending, drawn, ghosts, counters>>

---------------------------------------------------------------------------
(* pushNow *)

(* takeBatch: the commits of the next request, at least one. *)
Batches(c) == IF SplitBatches THEN 1 .. Len(pending[c]) ELSE {Len(pending[c])}

(* Bound: main has room for what is pending. *)
Room(c) == baseHead[c] + Len(pending[c]) <= MaxHistory

(* From idle a push has one retry (attempt 1) or, when it is the catch-up  *)
(* of pushWaitingCommits, none (attempt 2).                                *)
Push(c) ==
    /\ pc[c] = "idle" \/ pc[c] = "repush"
    /\ pending[c] # <<>> /\ Room(c)
    /\ \E n \in Batches(c), attempt \in {1, 2} :
          /\ pc[c] = "repush" => attempt = 2
          /\ Work(c, [NoWork EXCEPT !.batch = n, !.attempt = attempt])
    /\ Goto(c, "sending")
    /\ UNCHANGED <<history, late, disk, drawn, ghosts, counters>>

(* The retry finds nothing left to push (or the bound reached). *)
PushNothing(c) ==
    /\ pc[c] = "repush"
    /\ pending[c] = <<>> \/ ~Room(c)
    /\ EndOperation(c)
    /\ UNCHANGED <<history, late, disk, drawn, ghosts, counters>>

Request(c) == [author |-> c, parent |-> baseHead[c], commits |-> SubSeq(pending[c], 1, work[c].batch)]

(* CommitStore.appendCommits: one commit on main for each pending commit.  *)
AppendCommits(r) ==
    /\ r.parent = MainHead
    /\ history' = history \o [i \in 1 .. Len(r.commits) |->
                                 [tree |-> Replay(TreeAt(MainHead), r.commits, i),
                                  author |-> r.author, id |-> r.commits[i].id]]
    /\ Published(r)

(* 201: the answer arrives. *)
PushAccepted(c) ==
    /\ pc[c] = "sending"
    /\ AppendCommits(Request(c))
    /\ Work(c, [work[c] EXCEPT !.head = MainHead + work[c].batch])
    /\ Goto(c, "answered")
    /\ UNCHANGED <<late, disk, drawn, counters>>
(* Mutant: the retry pushes again without pulling first. *)
PushRejectedNoPull(c) ==
    /\ pc[c] = "sending" /\ baseHead[c] # MainHead
    /\ Goto(c, "repush") /\ Work(c, NoWork)
    /\ UNCHANGED <<history, late, disk, drawn, ghosts, counters>>

(* 409: the head moved on.  The first refusal pulls and pushes again. *)
PushRejected(c) ==
    /\ pc[c] = "sending" /\ baseHead[c] # MainHead
    /\ IF work[c].attempt = 1
       THEN Goto(c, "repull") /\ Work(c, [NoWork EXCEPT !.attempt = 1])
       ELSE EndOperation(c)
    /\ UNCHANGED <<history, late, disk, drawn, ghosts, counters>>

(* No answer, or an error: offline, a timeout, a 4xx or 5xx.  The request  *)
(* may still arrive, then or later, or never.                              *)
PushUnanswered(c) ==
    /\ pc[c] = "sending"
    /\ faults < MaxFaults
    /\ faults' = faults + 1
    /\ late' = late \cup {Request(c)}
    /\ EndOperation(c)
    /\ UNCHANGED <<history, disk, drawn, ghosts, saves>>

LateArrival(r) ==
    /\ r \in late
    /\ late' = late \ {r}
    /\ \/ AppendCommits(r)
       \/ UNCHANGED <<history, ghosts>>
    /\ UNCHANGED <<disk, pc, work, drawn, counters>>
(* Mutant: everything in pending/ goes, not only what the request carried. *)
PushAdvanceDropsAll(c) ==
    /\ pc[c] = "answered"
    /\ AdvanceBase(c, work[c].head, Replay(base[c], pending[c], work[c].batch))
    /\ pending' = [pending EXCEPT ![c] = <<>>]
    /\ EndOperation(c)
    /\ UNCHANGED <<history, late, tree, merge, drawn, ghosts, counters>>

(* Mutant: what was pushed stays pending. *)
PushAdvanceKeeps(c) ==
    /\ pc[c] = "answered"
    /\ AdvanceBase(c, work[c].head, Replay(base[c], pending[c], work[c].batch))
    /\ EndOperation(c)
    /\ UNCHANGED <<history, late, tree, pending, merge, drawn, ghosts, counters>>

(* The base moves on by exactly the commits the request carried, which     *)
(* leave pending/; what is left goes in the next request.                  *)
PushAdvance(c) ==
    /\ pc[c] = "answered"
    /\ AdvanceBase(c, work[c].head, Replay(base[c], pending[c], work[c].batch))
    /\ pending' = [pending EXCEPT ![c] = SubSeq(@, work[c].batch + 1, Len(@))]
    /\ IF work[c].batch = Len(pending[c]) THEN EndOperation(c)
       ELSE /\ Goto(c, "sending")
            /\ \E n \in 1 .. Len(pending[c]) - work[c].batch :
                  Work(c, [NoWork EXCEPT !.batch = n, !.attempt = work[c].attempt])
    /\ UNCHANGED <<history, late, tree, merge, drawn, ghosts, counters>>

---------------------------------------------------------------------------
(* The app stops in the middle of an operation; a request it sent may      *)
(* still arrive.                                                           *)
Crash(c) ==
    /\ pc[c] # "idle"
    /\ faults < MaxFaults
    /\ faults' = faults + 1
    /\ late' = IF pc[c] = "sending" THEN late \cup {Request(c)} ELSE late
    /\ EndOperation(c)
    /\ UNCHANGED <<history, disk, drawn, ghosts, saves>>

PullStep(c) ==
    \/ Pull(c) \/ PullRefused(c) \/ MergeNothing(c) \/ MergeRefused(c) \/ MergeCompute(c)
    \/ (\E p \in Paths : MergeWrite(c, p))
    \/ MergeConflict(c) \/ ConflictLeft(c) \/ MergeAdvance(c) \/ RecordMerge(c)

ConflictStep(c) ==
    \/ \E p \in Paths, side \in Sides : Resolve(c, p, side)
    \/ ResolveNothing(c) \/ ResolveRecord(c) \/ FinishClear(c) \/ FinishAdvance(c) \/ AbortClear(c)

PushStep(c) ==
    \/ Push(c) \/ PushNothing(c) \/ PushAccepted(c) \/ PushRejected(c) \/ PushAdvance(c)

Fault(c) == PullFails(c) \/ PushUnanswered(c) \/ Crash(c)

Next ==
    \/ \E c \in Clients :
          \/ \E p \in Paths, v \in Values : Save(c, p, v)
          \/ Commit(c) \/ Fetch(c) \/ Abort(c)
          \/ PullStep(c) \/ ConflictStep(c) \/ PushStep(c) \/ Fault(c)
    \/ \E r \in late : LateArrival(r)

Spec == Init /\ [][Next]_vars

(* A running operation goes on: each of its steps is a file operation, or  *)
(* a request that answers or times out.                                    *)
Running(c) ==
    /\ pc[c] # "idle"
    /\ PullStep(c) \/ ConflictStep(c) \/ PushStep(c)

(* The users' part: each keeps pulling and pushing, and resolves what is   *)
(* in conflict rather than abort for ever.                                 *)
Begins(c, A) == pc[c] = "idle" /\ A
Diligent(c) ==
    /\ SF_vars(Begins(c, Pull(c)))
    /\ SF_vars(Begins(c, Push(c)))
    /\ SF_vars(Begins(c, \E p \in Paths, side \in Sides : Resolve(c, p, side)))

FairSpec == Spec /\ \A c \in Clients : WF_vars(Running(c))
DiligentSpec == FairSpec /\ \A c \in Clients : Diligent(c)

---------------------------------------------------------------------------
(* Properties *)

Steps == {"idle", "repull", "repush", "download", "writing", "recordMerge", "autoResolve",
          "autoResolving", "resolving", "finish", "finishAdvance", "aborting", "sending", "answered"}

WorkType ==
    [head : Nat \cup {NoHead}, theirs : Files, target : Files, todo : SUBSET Paths,
     conflicts : SUBSET Paths, batch : Nat, attempt : 0 .. 2]

TypeOK ==
    /\ history \in Seq([tree : Files, author : Clients \cup {NoEdit}, id : Nat])
    /\ MainHead >= 1
    /\ late \in SUBSET [author : Clients, parent : Nat, commits : Seq(CommitType)]
    /\ tree \in [Clients -> Files] /\ base \in [Clients -> Files]
    /\ baseHead \in [Clients -> 1 .. MainHead]
    /\ known \in [Clients -> 1 .. MainHead \cup {NoHead}]
    /\ pending \in [Clients -> Seq(CommitType)]
    /\ merge \in [Clients -> MergeType \cup {NoMerge}]
    /\ pc \in [Clients -> Steps]
    /\ work \in [Clients -> WorkType]
    /\ drawn \in [Clients -> Nat]
    /\ edit \in [Clients -> [Paths -> Values \cup {NoEdit}]]
    /\ fresh \in [Clients -> [Paths -> SUBSET Values]]
    /\ saves \in Nat /\ faults \in Nat

(* base/ is the tree main has at base.head, whatever pushed, merged,       *)
(* crashed or arrived late: every three-way merge starts from the commit   *)
(* it claims to start from.                                                *)
BaseIsServerTree ==
    \A c \in Clients : base[c] = TreeAt(baseHead[c])

(* A saved content that main has not seen is never lost without a word: it *)
(* is in the tree, or it is "mine" in a conflict the user is asked about.  *)
(* Only the user's own later save, resolution or abort gives it up.        *)
Keeps(c, p) ==
    \/ tree[c][p] = edit[c][p]
    \/ InConflict(c) /\ p \in merge[c].conflicts /\ merge[c].mine[p] = edit[c][p]
ContentKept ==
    \A c \in Clients, p \in Paths : edit[c][p] \in Contents => Keeps(c, p)

(* Nothing crashed and no answer was lost so far. *)
Undisturbed == faults = 0

(* Undisturbed, the same of a deletion, once the operation that merges it  *)
(* is over; a pending commit keeps it too, until a later one takes it      *)
(* back.                                                                   *)
DeletionKept ==
    Undisturbed => \A c \in Clients, p \in Paths :
        edit[c][p] = Absent /\ pc[c] = "idle" => Keeps(c, p) \/ Committed(c)[p] = Absent

(* Undisturbed, a push changes a path of main only to something its author *)
(* saved and main has not had from that author yet: it never carries       *)
(* another's path back to an older state.                                  *)
OnlyFreshEdits ==
    [][Undisturbed => \A c \in Clients, p \in Paths :
          /\ history' # history /\ history'[Len(history')].author = c
          /\ history'[Len(history')].tree[p] # TreeAt(MainHead)[p]
          => history'[Len(history')].tree[p] \in fresh[c][p]]_vars

OnMain(c, id) == {k \in DOMAIN history : history[k].author = c /\ history[k].id = id}
IsPending(c, id) == \E i \in DOMAIN pending[c] : pending[c][i].id = id

(* "every commit is kept": a commit stays in pending/ until main has it,   *)
(* whatever was sent in how many requests, refused, merged or interrupted. *)
EveryCommitKept ==
    \A c \in Clients : \A id \in 1 .. drawn[c] : IsPending(c, id) \/ OnMain(c, id) # {}

(* While nothing is lost, a commit goes onto main once, and is then not    *)
(* pending any more: the retry after a refusal sends only what main lacks. *)
PublishedOnce ==
    Undisturbed => \A c \in Clients : \A id \in 1 .. drawn[c] :
        /\ Cardinality(OnMain(c, id)) <= 1
        /\ IsPending(c, id) /\ pc[c] # "answered" => OnMain(c, id) = {}

(* Every operation SyncService starts comes to its end, the push that is   *)
(* refused, pulls and pushes again included: the queue behind it moves on. *)
OperationEnds ==
    \A c \in Clients : []<>(pc[c] = "idle")

InStep(c) ==
    /\ baseHead[c] = MainHead /\ pending[c] = <<>> /\ merge[c] = NoMerge
    /\ tree[c] = TreeAt(MainHead)

(* Once the saves stop, desktops that keep pulling, resolving and pushing  *)
(* end up with the same files as main, whatever was lost on the way.       *)
Converges == <>[](\A c \in Clients : InStep(c))
=============================================================================
