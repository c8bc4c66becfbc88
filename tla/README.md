# A formal model of Wirebench: sync, leases, runs, alerts, audit and presence

Wirebench is a desktop application for API requests, together with a server that
teams use to share workspaces, secrets, terminals and scheduled runs. This
directory holds TLA+ models of the parts where several actors have to agree: the
sync of a workspace between desktops and the server, the leases that keep two
server processes from running a host on one user's checkout, the scheduled runs
and the alerts about them, the audit log's chain and its forwarding, and the live
hubs with the bus between them. The modules are checked with TLC on small
instances, and every component comes with theorems that TLAPS has proved for every
instance.

Paths below are relative to `src/packages/` unless they start with `docs/`.

## 1. The system and its parts

| Part | State | Operations | Talks to |
|---|---|---|---|
| Three-way merge (`core/src/sync/three-way-merge.ts`) | none | `mergeFiles` | called by both backends and by the recovery of unsaved edits |
| Desktop sync state (`host/src/sync/server-state.ts`) | `server/` folder: `state.yaml`, `base/`, `base.next/`, `advance.yaml`, `pending/NNNN.yaml`, `merge.yaml` | `initialize`, `recover`, `appendPending`, `update`, `advanceBase`, `writeMerge`, `clearMerge` | used by the server backend only |
| Desktop sync operations (`host/src/sync/server-backend.ts`, `sync-service.ts`) | the workspace's tree, one running operation, timers, last status | commit, fetch, pull/merge, resolve, abort, push | server over HTTP, desktop UI, live events |
| Server commit store (`server/src/sync`, `server/src/repos`) | a bare git repository for each workspace, a queue for each workspace and process | push, key request, reads | git child processes, the repository lock |
| Repository lock (`server/src/operations/repo-lock.ts`) | one advisory lock in Postgres for each repository, held by a connection | `hold`, `checkRepoLock` | the commit store |
| Git and folder backends (`host/src/sync/git-backend.ts`, `folder-backend.ts`) | a git clone, or a plain folder | the same interface as the server backend | git, the file system |
| Host leases (`server/src/host/lease.ts`, `instances.ts`) | a lease row for each user, leases held in memory with the time of the last confirmation | take, renew, release, watchdog, close | Postgres, host instances |
| Scheduled runs (`server/src/schedules`) | schedules, queued and running runs; in each process lists of licensed, waiting and kicked tenants, a chain of starts, runs in flight | tick, pass, claim, launch, Run now, cancel, stop | Postgres, host runtime |
| Alert outbox (`server/src/schedules/alerts`) | a schedule's alert state and streak, outbox rows with a state, attempts and the next time | decide, queue, claim, deliver, retry, give up, sweep | SMTP and HTTPS targets |
| Audit log (`server/src/audit-log`) | events, a keyed hash chain over them, its anchor, a queue of events to forward with leases | record, seal, verify, prune, forward | Postgres, a tenant's sink |
| Live updates (`server/src/live`, `host/src/live`) | sockets, subscriptions with a role, the users of each workspace here and on other processes; on the client a connection state | subscribe, announce, recheck, resync | the notification bus |
| Notification bus (`server/src/operations/bus.ts`) | in each process a send queue, an inbox, a listening connection, a debt of telling that something was missed | send, hear, reconnect, resync | Postgres LISTEN/NOTIFY, the live hub |
| Terminal shares (`server/src/terminal-shares`) | shares, participants, who has control, relay buffers | join, leave, hand over, end | sockets |
| Workspace service (`host/src/workspace-service.ts`) | open workspaces, watchers, unsaved edits | open, close, save, keep unsaved | everything on the desktop |
| Identity, tenancy, licensing, settings | database rows | one transaction for each request | Postgres |
| Engine, protocols, SSH, importers, UI, CLI | per request or per session | I/O and data transformation | the outside world |

### How sync works

A desktop keeps three trees: what the user edits (the workspace folder), the last
server tree it has seen (`base/`, with its commit id in `base.head`), and the
commits it has made since (`pending/`). A save becomes a pending commit. A push
sends pending commits with `parent = base.head`; the server appends them only if
`main` still is that parent, and answers the new head, on which the desktop moves
`base/` on (`advanceBase`). A push that is refused pulls and pushes once more. A
pull asks for the files that changed since `base.head` and merges
base / theirs / committed file by file; conflicts are recorded in `merge.yaml`
and resolved by the user one path at a time.

On the server several processes share one data volume. Each queues the
operations of a workspace; the head of a queue then takes a Postgres advisory
lock. The lock belongs to a connection and is lost with it, silently, so
`checkRepoLock` probes the connection between git steps, and always before
`update-ref`. `update-ref` itself locks `main.lock`, compares and renames.

### What is hard here

- *Crashes between file writes.* An advance touches four kinds of files, a merge
  touches the tree, the record and the base.
- *Work that goes on while something is awaited.* Saves land during downloads,
  commits are appended during a push, a second instance opens the folder.
- *Lost and late answers.* A push may be applied without the desktop knowing.
- *Locks that vanish.* The database gives the lock to somebody else while git
  still runs; a killed process leaves git running or `main.lock` behind.
- *Two clocks.* A host lease expires on the database's clock and is given up on
  the process's own, with renewals, releases and takes answered late or never.
- *Waiting at a limit.* An open at the seat limit evicts an idle instance and
  waits for it.
- *Retries.* Refused pushes, roll-forward run twice, key requests, alerts and
  forwarded events sent again.
- *Claims on rows.* Runs, alerts and events to forward are taken by whichever
  process comes first; a claim may outlive its process or its process its claim.
- *State read before an await and used after it.* The places left for runs, the
  list of waiting tenants, a socket's role.
- *Full queues and lost notices.* The bus drops the oldest message of a full
  queue, gives payloads up, and hears nothing while its connection is down; what
  was dropped may have been the only notice of a change.

`PROJECT.json` lists the hazards with their lines, and the property that would
catch each of them. One (SyncService's timers) has none yet.

### What makes each part correct

- Merge: no change of either side disappears unflagged; the result does not
  depend on who merges.
- Sync state: `base/` is the tree of `base.head`; an advance is atomic; unsent
  commits stay.
- Sync operations: no saved content, deletion or commit is lost; nobody's change
  is undone by accident; operations end; diligent desktops converge.
- Commit store and lock: `main` is linear and what clients were told about it is
  true; a process without the lock does not move `main`; queues empty; a drain
  waits.
- Host leases: no two hosts of one user at a time; no more live leases than seats;
  every open is decided.
- Scheduled runs: a schedule has one open run; a tenant never runs more than its
  slots; a run's outcome is decided once; a stop leaves nothing running; a Run now
  is not forgotten and every queued run gets its turn.
- Alert outbox: one server at a time sends an alert, no more often than allowed;
  what a row says is true; every alert is delivered or given up; a failure that
  was never told is never taken as told.
- Audit log: verify reports a break exactly when somebody removed a row, whatever
  the servers do; no event is deleted while it is sent; an event leaves the queue
  only after the sink has it; no event is sent by two servers at once.
- Live updates and bus: when the bus has come to rest, every process knows the
  others' users, and every subscription has its user's role.

## 2. The modules

| Module | Models | Kind |
|---|---|---|
| `SyncTrees` | a tree, the difference of two and its application | pure operators, extended by `ThreeWayMerge` and `WorkspaceSync` |
| `ThreeWayMerge` | `mergeFiles` | pure operators, instantiated by `WorkspaceSync` |
| `MergeRuns` | `mergeFiles` of any three trees, and once more over its own result | extends `ThreeWayMerge` |
| `BaseSnapshot` | what the sync state promises: a snapshot replaced in one step | abstract specification |
| `ServerState` | the `server/` folder, write by write | implements `BaseSnapshot` |
| `ServerStateProofs` | theorems about `ServerState` | TLAPS |
| `WorkspaceSync` | desktops and server: commit, fetch, pull, merge, conflict, push | composes `ThreeWayMerge` with the atomic snapshot and with an atomic `appendCommits` |
| `WorkspaceSyncProofs` | theorems about `WorkspaceSync`, and about `MergeRuns` | TLAPS |
| `LinearMain` | what the server promises about `main` | abstract specification |
| `CommitStore` | server processes, queues, advisory lock, git | implements `LinearMain` |
| `CommitStoreProofs` | theorems about `CommitStore` | TLAPS |
| `HostLease` | lease rows, `HostLeases` and `HostInstances` of several server processes, with a clock | stands alone |
| `HostLeaseProofs` | theorems about `HostLease` | TLAPS |
| `ScheduledRuns` | schedulers of several servers, `schedule_runs`, Run now, executors' outcomes | stands alone |
| `ScheduledRunsProofs` | theorems about `ScheduledRuns` | TLAPS |
| `AlertOutbox` | alert decisions, outbox rows and the servers that send them | stands alone |
| `AlertOutboxProofs` | theorems about `AlertOutbox` | TLAPS |
| `AuditChain` | one tenant's sealing, retention, forwarding and verify | stands alone |
| `AuditChainProofs` | theorems about `AuditChain` | TLAPS |
| `LiveHub` | the live hubs and buses of several processes for one workspace | composes hub and bus |
| `LiveHubProofs` | theorems about `LiveHub` | TLAPS |
| `MC*` | constants for TLC | |

The layers fit together: `WorkspaceSync` may take `advanceBase` as one step
because `ServerState` is proved to implement `BaseSnapshot`, and may take
`appendCommits` as one step because `CommitStore` is proved to implement
`LinearMain`.

### ThreeWayMerge

A tree (`SyncTrees`) is a function from paths to values, `Absent` among them. `Compared(p, v)`
is what the comparison looks at: for a manifest the content without its
`writtenBy` line, otherwise the whole content (`same` in the source). `Take`,
`Conflicting` and `Dropped` are the branches of the loop of `mergeFiles`.
`MergeRuns` starts from any three trees, merges, and merges once more with the
result as the unsaved side, as happens when the app stops between writing the
merged files and recording the merge.

### ServerState

Each instance of the class is a process with a program counter; the files are
shared. One action is one file operation whose effect another instance or a
restart could see. Writing many files into `base.next/`, and removing `base/`,
are not atomic: the folder is `PartialTree` in between. `writeFileAtomic` makes
single files atomic. A journal (`advance.yaml`) names the head and the *file
names* of what was pushed, as in the source. `Crash` resets the memory of every
instance, `ApplyFails` is any step of `applyAdvance` throwing (the rename with
EPERM above all), which resets the `recovery` promise, and `RequestFails` is
everything that throws before the journal is there. `Reopen` starts a new
instance; `CloseWaitSuffices` says whether the bounded wait of
`WorkspaceService.close()` is long enough for the operation that runs.

`initialize` writes into an empty folder; its file-by-file writes of `base/` are
one step, because nothing reads the folder before `state.yaml` is there and a
second attempt starts over. What `knownHead` is set to comes from any head, since
the module does not look at the server.

### WorkspaceSync

State for each desktop: `tree`, `base`, `baseHead`, `known`, `pending`, `merge`
(the record), `pc` (where the running operation stands) and `work` (its local
variables). `history` is the server's main branch. `late` holds requests without
an answer that may still arrive. `edit` and `fresh` remember, for the properties
only, what the user saved last and what main has not had yet. A resolution decides
a path: mine is an edit to publish, theirs none. An abort opens it again: mine is
an edit to publish wherever it is not the base's.

`Save` may happen during every operation. `SavesHeld` says that no save lands
between the second check of `merge` and its writes. `pull`, `merge`, `resolve`,
`finishMerge` and `push` are split where the code awaits something that another
actor can interfere with, or where a crash leaves a different state: after the
download, for each file written, before the record, before the advance, before
the Merge commit. Vault paths (`VaultPaths`) are those that a pull resolves by
itself (`autoResolve`).

Abstractions worth knowing: a pull that first finishes an interrupted merge goes
on as `MergeNothing` does; `abortMerge` restores its files in one step; a push
answered with an error equals a request that never arrives; a request that is too
large and is halved is a nondeterministic choice of a smaller batch; a push while
a conflict is open is refused, because main is past the base then.

### CommitStore

A request is a process that arrives at its `Home` server process. `pc` walks
through `withLock` (queue, connection, advisory lock), the route's checks,
`appendCommits` (stale lock file, head against parent, staging, probe) and
`update-ref`. A lost lock changes only what the database believes
(`lockOwner`); the operation learns of it at its next probe. A key request reads
its parent inside the lock, a push brings one. A crash of a process drops its
queue and its lock; a git child that was past its lock file may run on. The
outcome `failed` is a 500 after `update-ref` was cut short by `GitCli`'s timeout,
`gone` is a request whose process died. `OnMain` is main's history, the least set
that holds the head and is closed under parents.

`AgeRefLock` rests on time: a lock file counts as stale after
`STALE_REF_LOCK_MS` (60 s). `GitCli.run` kills a git after 60 s, and
`update-ref` holds its lock file for milliseconds, so the file of a live
`update-ref` is never stale. This is an assumption of the model, not a result.

### HostLease

One tenant; a process and a user have at most one instance at a time, because an
open waits for the eviction of the one before. `pc` is where that instance
stands: `taking` (the statement is out), `took` (it ran, the answer is on its
way), `capped` (waiting for an eviction), `building`, `open`, `releasing`.
`evicting` says it has left `HostInstances.instances`; the eviction still waits
for the host, quits it and gives the lease back. `held` and `ended` are the maps
of `HostLeases`, `rows` is the table. Statements that nobody waits for any more
are messages: `renews`, and `deletes` that may run at any later time. A token
(`acquired`) stands for `acquired_at`.

`now` is the database's clock and every process's: they run at the same rate, as
the source assumes. A take's transaction may have begun any time since it was
sent (`began`), since it waits for a connection and for the tenant's lock; its
statements are one step, because that lock orders takes, and a renewal or a
delete in between changes one row. A take whose connection is lost may have
committed. `Tick` does not pass a watchdog that is due (a timer fires on time),
nor the two bounds that the code does not set: `Quit`, in which a host whose lease
is lost is built, quit and disposed, and `TakeWait`, in which a take is answered
or fails. `StopStale` and the renewals of the heartbeat may come at any time they
can; that a renewal is sent every 15 s is not needed for safety. `longestIdle` is
any idle instance.

Left out: which socket's token an instance uses, close codes, several tenants
(keys carry the tenant, and every statement is scoped to it), and
`clearLeasesAtStartUp` (single mode only).

### ScheduledRuns

`row`, `older` and `overdue` are the table `schedule_runs`: its rows, the order of
the queued ones (for each, those queued before it), and the running ones past
their deadline. `sched[p]` is the
`Scheduler` of process `p` with the fields of the source: `licensed`, `waiting`,
`kicked`, the pass under way, the chain of starts and the runs in flight. A pass
visits the tenants one transaction at a time (`FireUnit`: end stale runs, fire due
schedules, see whether a run waits). A claim takes the tenant's slot lock in one
step and commits in another; what the process does with the answer is a third,
because kicks, stops and passes come in between. A Run now locks its schedule,
inserts or finds an open run, commits and then kicks its own scheduler. Which
schedules are due is left open in each pass, as is how long a run takes. A failed
transaction, a stop, a crash, and a tenant that is suspended or loses its license
are counted by `MaxEvents`. `orphans`, `promised` and `missed` are history.

### AlertOutbox

One schedule with one target. A run's end decides (`DecideAlert`) and queues
inside a savepoint: `EnqueueFails` rolls the savepoint back and keeps the run. A
pass leases the rows that are due (`Leased`) and sends each; a delivery arrives or
fails, and the outcome is recorded, or its record is lost with a statement or the
server. Times are distances from now and run down with `Tick`, which does not go
past the end of a pass (`PassTime`, shorter than the lease, as the deadline of a
delivery and the batch make it). `tried` and `told` are history.

### AuditChain

An event is its place in the order `(at, id)`; a link's hash is what it was
computed from, so that two links are equal exactly when their inputs are. What the
code does row by row in that order (sealing a batch, verify's walk, retention's
longest prefix) is stated in closed form: a row's place is the number of rows
before it, and a walk that succeeds is one in which every row follows from the one
before. A
sealing unit takes the chain's lock and reads anchor and rows in one step and
commits in another, since recording, forwarding and other servers go on in
between; the same holds for retention, whose candidates are those no forwarder has
leased (`UnheldByForwarder`, which skips locked rows). `Intact` is verify's walk
from the anchor. `RemoveRow` is a row deleted from outside, which the chain exists to
show. Every server has the key.

### LiveHub

One workspace. `hub[h]` has what the hub keeps: its mode, the list it announced
last, the lists of the others (`remote`), the re-checks that wait and the one that
runs, and resyncs under way. `bus[h]` has the send queue, the inbox, the
connection, and whether a missed marker is owed (`missed`), on its way
(`marking`) or has to be produced here (`lost`). A message is a list of users, a
reset, a change of access or a marker. Queries are split from what is done with
their answers: `Subscribe` and `Admit`, `RecheckAsks` and `ApplyRoles`.

Two histories say where the code promises nothing (see Disagreements): `unsure`
holds sockets admitted on an outdated answer, and those there when a re-check, a
lookup or a process's unsent queue was lost; `raced` marks a drop between a marker
and its answer, and a reconnect with something left in the inbox. Left out:
messages to the desktops, names, lists that need several payloads, limits of
sockets and subscriptions, pings, and an instance row that lapses while its
process lives.

## 3. The runs

| Run | Question | Bounds |
|---|---|---|
| `server_state` | Is the folder always one snapshot, with crashes anywhere? Do unsent commits stay? | 2 instances, 2 heads and the empty one, 3 commits |
| `three_way_merge` | Does a merge lose anything, is it symmetric, can it be repeated? | a manifest and a file, 3 contents with 2 `writtenBy` lines, every triple of trees |
| `workspace_sync` | Is the base a server tree, and is all content and every commit kept, with a fault anywhere? Without one: are deletions kept and commits published once? | 2 desktops, 2 paths, 2 contents, 2 saves, 1 fault, several requests for a push |
| `workspace_sync_converges` | Do operations end, and do desktops whose users keep at it end up alike? Without a fault: is no path carried back? | 1 path, 2 saves, 1 fault, a main of 7 commits, a push in one request |
| `commit_store` | Is main linear, are answers true, is a lost lock harmless, does a drain wait, is every request decided? | 2 processes, 2 pushes and a key request, 2 faults |
| `host_lease` | Is there ever a second host of a user, or more live leases than seats? | 2 processes, 2 users, 1 seat, 2 opens, 1 renewal at a time, `Lease` 2, `Stale` 1, `Quit` 1, `TakeWait` 1, clock to 5 |
| `host_lease_settles` | Is every open decided, although opens wait for evictions? | 1 process, 3 users, 1 seat, 3 opens; the clock stands still and leases may be lost at any time (`Stale` 0) |
| `scheduled_runs` | Are slots kept, is an outcome decided once, does a stop leave nothing behind? | 2 servers, 1 tenant with 1 slot, 2 schedules, 2 runs, 2 events |
| `scheduled_runs_start` | Does a schedule have one open run, is a kick kept, does every queued run start? | 1 server with 1 place, 2 tenants, 3 runs, 1 Run now |
| `alert_outbox` | Is an alert sent by one server at a time, often enough and not too often, and does it come to an end? | 2 servers, 2 rows, 2 attempts, 1 fault, `Lease` 2, `PassTime` 1 |
| `audit_chain` | Is verify right, and is forwarding at least once, by one server at a time, of events that are still there? | 2 servers, 3 events of which 2 are forwarded, batches of 2, 3 leases, 1 fault, 1 row removed from outside |
| `live_hub` | When the bus is quiet, does every process know the others' users and every subscription have its user's role? | 2 processes, a user and a socket each, queues of 2, 2 subscribes or changes of role, 1 fault, 1 resync |

Two desktops are enough for every pair of concurrent changes; a second path
separates what a merge writes from what it leaves. Two contents and `Absent` give
every kind of three-way merge. Two faults allow a loss on top of a crash; three
requests over two processes give a queue behind a running operation and a
competitor outside. The lease's times keep the order of the real ones (`Stale` and
`Quit` are half a lease each), and a clock of two leases and more lets a lease be
taken, lost, expire and be taken by the other process, with the first one's delete
and renewal still on their way. Two opens at the cap can wait for each other only
if a third user has the seat. Two servers with one slot and two queued runs race
for the slot; one place and two tenants are what a backlog needs to starve
somebody, and a Run now can come at every point of a pass. Two attempts and a
lease of two passes let a row fail, be retried by the other server and be given up.
Batches of two over three events give a unit that does not get to the end and one
that has nothing left, and leave rows before and after a removed one. Queues of two
overflow as soon as three messages meet, which a reset, a list and a change of
access do. `live_hub` was also checked once with two subscribes and a change of
role on top, over some ten million states.

`host_lease`, `host_lease_settles`, `scheduled_runs`, `audit_chain` and `live_hub`
do not check for deadlock, because their counters run out: once the clock, the
opens, the runs, the events or the moves are used up and every process has drained
or died, nothing is left to do. `three_way_merge` ends after two merges.

Each module's `TypeOK` describes its state. It is proved for `ServerState`,
`WorkspaceSync`, `CommitStore`, `HostLease`, `AlertOutbox`, `AuditChain` and
`LiveHub` and holds in the other runs as well; only `server_state` lists it, since the other properties say more.

### Fairness

`WorkspaceSync!FairSpec` is weak fairness of a *running* operation: each of its
steps is a file operation, or a request that is answered or times out.
`DiligentSpec` adds what users do: they keep pulling and pushing (strong
fairness, since saves and other operations disable these again and again) and
resolve conflicts. The server guarantees none of this, and `Converges` is a
statement about desktops whose users do. `CommitStore!FairSpec` is weak fairness
of each operation: waits for the lock have a timeout, git calls have one, and the
rest is computation. `HostLease!FairSpec` is weak fairness of the steps of each
instance: a statement is answered or its connection fails, a host is built or
not, and its quit path ends. Sockets, renewals, evictions and time are not fair.
`ScheduledRuns!FairSpec` is weak fairness of the timer's tick, of the steps of a
pass, of a claim and of a request (database statements that are answered or fail),
of a run's end (it has a deadline) and of a stop, and strong fairness of a claim's
begin: it waits for the tenant's slot lock, which others take and give back, and
Postgres serves those who wait in turn. `AlertOutbox!FairSpec` is weak fairness of
time, of each server's own steps (its timer, its restart) and of each delivery,
which has a deadline. Runs that end, tenants that change and faults are not fair.

### Disagreements

Writing the modules brought up places where the code does something other than a
comment or a design document beside it says. No run depends on them: each is kept
out by a named constant or history variable, and shows up when that is taken away.

1. *Overlap* (`workspace-service.ts:1385`). `close()` waits 15 s for an operation
   that may take 120 s. If the workspace is opened again in between, the recovery
   of the new instance and the advance of the old one interleave, and `base/` ends
   up not being the tree of `base.head`. Set `CloseWaitSuffices` to FALSE in
   `MCServerState.cfg` to see it.
2. *Lost answer* (`server-backend.ts:383`). A push that was applied but not
   answered stays pending. If a teammate takes the change back before the next
   pull, base and theirs are equal, the merge is clean, and the commit goes onto
   main a second time. `PublishedOnce` and `OnlyFreshEdits` are stated for
   behaviours without a fault (`Undisturbed`) for this reason.
3. *Crash in a merge* (`server-backend.ts:338`). The merged files are written
   before `merge.yaml`. For a path that was deleted here and changed there, the
   tree then holds theirs; after a crash the next commit takes the deletion back.
   `DeletionKept` is stated for `Undisturbed` behaviours.
4. *Late claim* (`scheduler.ts:110`). A Run now is to "start it now, not at the
   next tick". A claim that began before the Run now was committed and found no run
   takes the tenant off the `waiting` list after the kick has put it there, and the
   run waits for the next tick. `KickKept` leaves such runs out (`missed`).
5. *Audit log.* The sealer logs a new head inside the tenant's unit, before its
   COMMIT, where `docs/specs/2026-10-03-wirebench-audit-chain-design.md` (3.2, step
   7) has it after the commit; a head that was logged and rolled back matches no
   chain. And a server without the key that reads "no anchor" and then deletes by
   age races the genesis of another server with the key (`audit-log/module.ts:95`),
   although "a missing key never cuts a gap". The model is about servers that all
   have the key, and about what is stored.
6. *Stale role* (`hub.ts:465`). Changes of access are to "take effect at once". A
   subscription admitted on an answer from before a change, on a process that had
   no subscription when the change was announced, keeps the old role; so does one
   made after the change while a re-check is about to apply an older answer. A
   re-check whose query fails, or a tenant lookup that fails, loses the change.
   `RolesAgree` leaves these sockets out (`unsure`).
7. *Bus* (`bus.ts:301`). A message dropped between the marker's NOTIFY and its
   answer is forgotten with the debt. A reconnect forgets the lists that were kept,
   because "the lists it kept may be stale, so they go too", but not the inbox: an
   old list still in it is applied afterwards and stays if its process has no room
   any more, since such a process does not answer a reset. `PresenceAgrees` and
   `RolesAgree` leave these behaviours out (`raced`).

### What the passing runs assume of the code's surroundings

Four constants stand for something the code makes likely and does not enforce;
outside them the properties fail, and the traces are easy to read off the source:

- `CloseWaitSuffices`: see the overlap above. In the same overlap the new instance
  may also append a commit under the file name that the old one's advance has just
  removed; `advance.yaml` holds names, and if the app stops before it is removed
  the next recovery removes the new commit (`server-state.ts:463`).
- `SavesHeld`: between `merge`'s second check for uncommitted changes
  (`server-backend.ts:330`) and its writes there are awaits, and a save in between
  would be overwritten.
- `TakeWait`: `take()` counts a lease from when it was sent, but does not look at
  the clock when the answer comes (`lease.ts:232`), and the pool sets no timeout
  for statements. An answer that comes after `LEASE_MS` still builds the host,
  though another process may have taken the expired row; the watchdog fires at
  once and the host is disposed as soon as it is built.
- `Quit`: nothing bounds how long the quit path of a host takes whose lease is
  lost.

## 4. The proofs

### ServerStateProofs

`IInv` says, for each step of `advanceBase` and `applyAdvance`, which of `base/`,
`base.next/` and `advance.yaml` are absent, partial or whole, and which head each
belongs to. `BaseMatchesHead` alone is not inductive: it says nothing about the
folder while an operation runs or after it was interrupted, and that is where the
next recovery starts. The parts that carry the proof:

- only the current instance is in an operation (from `CloseWaitSuffices`);
- without a journal, `base/` is the tree of `base.head` whenever there is a
  `state.yaml`;
- with a journal, either `base.next/` is the whole tree of the journal's head or
  it is gone and `base/` is that tree;
- the names in a journal belong to commits that were answered, and no later
  commit takes such a name before the journal is gone.

From it: `TypeCorrect` (which needs no assumption about the wait), `BaseAgrees`,
`UnsentKept`, and `Refinement`, in which an advance happens at the moment
`advance.yaml` is written and every later step of `applyAdvance` stutters.

### WorkspaceSyncProofs

For any number of desktops, paths, contents, commits, requests and faults, and any
sizes of a request unless said otherwise. `BaseIsServerTree` alone is not
inductive: it says nothing about the head a merge moves to or what an answered push
has put on main. `SyncInv` does, desktop by desktop:

- `HeadsAgree`: base/ is main's tree at `base.head`, the known head is not behind
  it, and an open merge is with the tree of the known head;
- `MergeSteps`: which steps have a record, and that a merge under way holds the tree
  of the head it moves to;
- `PushSteps`: a request carries commits that are pending, and once it is answered
  the tree main has is what its commits make of base/ here (`ReplayPrefix`);
- `KeepsCommits`: every commit drawn is pending or on main.

From it `BaseStaysServerTree` and `CommitsAreKept`, without any assumption: lost
answers, late arrivals, crashes and split requests included. Four properties rest on
it with a strengthening each:

- `ContentIsKept`, by `ContentInv`: an edit is in the tree itself, and what a merge
  still has to write falls on no edit, because it writes only where mine is the
  base's or is absent. Assumes `SavesHeld`;
- `CommitsGoOnce`, by `OnceInv`: ids are pending in the order they were drawn, an id
  is on main at most once, and what is pending is not on main except what an
  answered request carried;
- `DeletionIsKept`, by `DeletionInv`: a deletion is in the tree or `Deferred` to a
  conflict, in each step of a merge, a resolution and an abort. Assumes `SavesHeld`;
- `OnlyFreshIsPushed`, by `FreshInv`: whatever the tree has beyond the committed
  files, and the committed files beyond base/, is a save that main has not had. In a
  merge the same holds of the merged files against theirs, and while a conflict is
  open of the decided paths and of those outside the merge. Then a push, which makes
  on main exactly the committed files (`ReplayAppend`, `ApplyDiff`), carries nothing
  else. Assumes `SavesHeld` and that what is pending goes in one request.

A path is decided by the last commit that touches it. That a set of commit numbers
has a last one (`LastExists`) comes from the well-foundedness of the natural
numbers, so that no fact about `Replay` needs an induction.

The proof of the last theorem first failed at an abort: a path resolved to theirs
and then aborted goes back to mine, which is committed and will be pushed, but the
history variables said that nobody had saved it. A search from that state confirmed
it, in a behaviour longer than the runs' bounds reach. The user's abort takes up
mine again, and `Abort` says so now.

The module's last section is about the merge by itself, as `MergeRuns` has it: for
any paths, contents and `Compared`, `ChangesKeptOrFlagged`, `SidesAlwaysAgree` and
`RemergeIsStable`. Each is a fact about one file (`TakeKeepsOrFlags`,
`ConflictsAgree`, `TakeAgain`), by the cases of the loop's body, that is then lifted
to trees; the invariant says that the result is `mergeFiles` of the three inputs.

### CommitStoreProofs

The inductive invariant relates each request's step to `main.lock`, to its parent
and to its answer: only the request at `refLocked` (or one that was killed there)
owns the lock file; a published request is past `update-ref`; a request that is
preparing is not published and not answered; a request stands on one parent for
good. `RefLockHeld` is one of its parts. It yields `LossStopsTheMove` (the probe before `update-ref` is what stops a request
that lost the lock earlier) and `Linear` (refinement of `LinearMain`). Linearity
does not use the advisory lock at all: the proof goes through with `lockOwner`
changing under every operation, which is the source's "second line of defence".

Two more properties rest on it, each with a strengthening of its own.
`DrainedIsIdle` needs `Waiting` (whoever waits for its turn is in its process's
queue) and `OwnerRuns` (the lock belongs to an operation between its grant and its
release); without them an empty queue says nothing about who still runs.
`AnswersAreTrue` needs `Chained`: what main has ever named is exactly what lies
under its head. Histories may have any length, so the proof takes a set closed
under parents and shows that a new head keeps it one, where a walk from the head
would need an induction.

### HostLeaseProofs

`TypeCorrect` holds without any assumption about time. `OneHostHolds` says
`InTime => (Spec => []OneHost)` for every number of processes, users, seats,
renewals, deletes and crashes. `InTime` is `Stale + Quit <= Lease` and
`TakeWait + Quit <= Lease`; the source gives `STALE_MS` = `LEASE_MS` / 2 and sets
neither `Quit` nor `TakeWait`, so a host that takes more than 30 s to quit, or a
take answered too late for that, is outside the theorem.

`OneHost` says nothing about rows and is not inductive. The invariant `LeaseInv`
says why a host is alone: its user's row names its process and has not expired.

- `TokenInv`: what was sent for an earlier take of the same process and user has
  a smaller token than the take, lease or lost lease that is there now, so a late
  delete misses its row and a late renewal does not judge its lease.
- `TimeInv`: a held lease was confirmed so recently that its host could still
  quit before the lease ends, the host of a lost lease has a time by which it is
  gone, and a take that is out is not older than `TakeWait`.
- `RowInv`: the row of an answer on its way, of a held lease and of a lost one is
  its own and lasts as long as `TimeInv` needs; a renewal that found its row
  really has moved the expiry.

The first two are inductive by themselves and the third uses both. The steps are
first sorted by what they do to leases and hosts (`StepKinds`), so that each of
the three proofs goes through fourteen kinds of step and not through all actions.

`SeatsAreKept` needs no time: a row becomes live only in a take, which counts the
live rows in the same step, so it suffices that no other step makes one live.

### AlertOutboxProofs

`OneSender` is about deliveries under way, and is kept by the rows' leases. The
invariant `AlertInv` says so: a delivery's row is pending and leased for longer
than the delivery may last, so that no pass claims it meanwhile, and the delivery
knows the row's attempts (`SendsTrue`); a row says delivered or dead only after the
deliveries that make it so (`RowsTrue`); every delivery is counted in the row,
excused by a fault, or one that a pass still waits for (`AllCounted`). From it, for
any number of servers, alerts, attempts and faults: `OneSenderHolds`,
`RowsTellTheTruth`, `TriesAreBounded` and `FailuresAreTold`. The one assumption is
that a pass is shorter than the lease.

### AuditChainProofs

`ChainInv` describes the chain that verify would see: seqs are unique and between
the anchor and `head_seq`; untouched, every seq has a row linked to the one before;
after a removal some seq has no row, for good. The last is what makes
`VerifyTellsTheTruth` an equivalence: neither a seal nor a retention may close or
cover the gap. `UnitInv` says that what an open unit has read is still true when it
commits, because it has the lock, and `ForwardInv` that an event which is being
sent is queued under its send's lease for longer than the send may last. The proof
goes unit by unit: what a seal adds and what a retention takes away keep the chain
whole or gapped. From it also `SentEventsAreKept`, `EventsAreSentOnce` and
`EventsReachTheSink`.

### ScheduledRunsProofs

The proof separates what a scheduler does with its lists from what it does to
runs. `Shape(X)` is a scheduler whose lists of tenants are anything: they decide
who is asked next, never whether a slot is kept. For the chain of starts, rounds
and kicks it is only shown that no step makes a claim out of nothing and that a
server never lets go of a running run without saying so (`MachinesStep`). Steps are
then sorted by what they do to rows (`RowKinds`): rows fade, a pass fires, a claim
commits, a Run now commits. The invariant `RunsInv` holds, next to that,

- `RequestAlone`: a Run now between its lock and its commit owns its schedule's
  lock, and the schedule has no open run. A pass skips locked schedules, so
  `OneOpenRun` is kept by both;
- `SlotHeld`: a claim between its count and its commit owns the tenant's slot lock,
  and fewer runs than slots are running. `SlotsKept` alone says nothing between
  the two steps.

It yields `OneOpenRunHolds`, `SlotsAreKept`, `NothingIsLeftBehind` and
`OutcomesStand` for any number of servers, tenants, schedules, runs, slots and
faults.

`KicksAreKept` is about those lists. `KickKept` speaks of a server at rest, and says
nothing of the passes, starts and rounds in between. `KickInv` says what is owed at
each point to a tenant one of whose runs is promised (`Cared`), unless its kick is
still to come:

- a pass under way will have it on its list, or has heard the kick (`Listing`);
- or the start of a pass that is over is still to come, and with it the kicks that
  waited for it (`Behind`);
- or it waits for a place, or the round under way has a turn for it (`InTurn`: it is
  among the first `Len(order) - idle` of the order, and not failing), or another
  start is in the chain (`Pending`).

`Orderly` adds what makes the chain one chain: a pass's start is in it once, as long
as that pass is starting; a round belongs to its head; a round that goes on has a
turn left. The lemmas follow the code's calls: each of `PassEnded`, `Asking`,
`NextStart`, `StartQueued`, `RoundEnded` and `RoundGoesOn` serves whoever was owed
something (`...Serves`), and each handler is put together from them (`...Kept`).
What the selection and rotation of lists return (`FilteredProperties`,
`RotatedProperties`) is proved without induction: `Filtered` has an entry for each
place that is kept, because counting the kept places up to each is a bijection.

### LiveHubProofs

For any number of processes, users and sockets, any limits of the queues, and any
number of faults, resyncs and changes of role. The proofs assume only that a queue
has room for one message, and nothing about when it is emptied.

`PresenceAgrees` speaks of a quiet bus, and says nothing of the messages before.
`PresenceInv` says, for each two processes x and y that are up, what y will believe
of x (`Knows`). The two are looked at as values, x with its queue and users and y with
its inbox, so that the lemmas on one message (`SaysItself`, `SaysOther`, and what a
reset, a drop or a marker does) serve every action:

- `Agrees`: what y has of x, then y's inbox, then x's queue, end in x's users
  (`Believes`: the last message about x counts); or y has forgotten x and its reset
  is on its way to x, which will answer; or one of the two owes a marker, has missed
  something, or has a marker in its inbox (`Troubled`), so that a resync follows;
- `Current`: after the last marker in y's inbox nothing else is said of x than its
  users. Without it a resync could be followed by an older list;
- `HubsHonest`: what a process announced last is whom it has, its queue says so in
  the end, and nobody's queue speaks for another.

`RolesAgree` needs what is still to come for a subscription whose role is not its
user's any more. `RolesInv` names it (`Due`): a re-check that is queued or that a
resync will bring, a notice in the inbox, a connection or marker after which a
resync comes, or a process that still has to tell the others; or the re-check that
runs will apply the right role (`Brings`). And if the one that runs holds an outdated
answer (`Misleads`), another is due. Steps that only lose messages are
safe because each loss is owed to the others as a marker, or known to whoever must
resync. The theorem says nothing of `unsure` sockets and `raced` buses, where the code
promises nothing (Disagreements 6 and 7).

### What is only model-checked

Liveness (`OperationEnds`, `Converges`, `Settles`, `OpenSettles`, `QueuedSettles`,
`AlertSettles`) is out of the prover's reach. Every invariant and every action
property that the runs check is also proved, `OnlyFreshEdits` for a push in one
request only: one that is split may publish an older state of its own author's
before the newer one.

## 5. Not modelled, and why

- Roles, identities and the `viewer` restrictions of sync: a refusal, equal to a
  request that fails.
- `sync-history-mismatch`: a server restored from a backup; the desktop only
  reports it.
- SyncService's timers, live events and status overlay, and terminal shares:
  planned (below).
- Execution of a scheduled run, cron times, backoff times: what a run does and
  when a schedule is due is left open.
- The desktop's live client and the messages it gets: it fetches whatever it is
  told about, so a wrong or missing message costs a fetch.
- Sync over git or a plain folder: git merges there.
- Encryption of team secrets, parsing, formatting, protocols, rendering, CLI: data
  transformation or I/O without a protocol.
- Identity, tenancy, licensing, settings: one database transaction for each
  request.

## 6. Plan

1. `SyncService`: the operation queue, debounced saves, timers, live events,
   stopped polling and `resume`; liveness: what the server has is fetched.
2. `TerminalShares`: joining, control that is handed over, the relay's buffers, a
   share that ends while somebody joins.
The modules cover the protocols of the server and of sync. By lines they are a
small part of the repository: most of its code is user interface, request
protocols, importers and codecs, which have no state shared between actors.
