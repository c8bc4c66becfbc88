--------------------------- MODULE ScheduledRuns ---------------------------
(***************************************************************************)
(* Scheduled runs of several tenants on several servers sharing one        *)
(* database:                                                               *)
(*   - Scheduler (server/src/schedules/scheduler.ts): the pass over the    *)
(*     tenants that fires due schedules and ends stale runs, the           *)
(*     round-robin start of queued runs under the server's cap and the     *)
(*     tenants' run slots, Run now's kick, and stop;                       *)
(*   - its statements (schedules/repo.ts), the executor's outcome          *)
(*     (schedules/executor.ts) and the routes (schedules/run-routes.ts).   *)
(* What a run does, its results and its alerts are left out: it ends when  *)
(* it ends, at its deadline at the latest, sooner when it is aborted.      *)
(* Which schedules are due is left open.  A pass's unit is one step, a     *)
(* claim and a Run now take their lock in one step and commit in another;  *)
(* what a server does with an answer is a step of its own.                 *)
(***************************************************************************)
EXTENDS Naturals, FiniteSets, Sequences, SequencesExt

CONSTANTS
    Servers,        \* server processes
    TenantList,     \* the tenants, as the directory lists them
    Schedules,      \* enabled schedules
    TenantOf,       \* [Schedules -> tenants]
    Runs,           \* ids of schedule_runs rows
    Concurrency,    \* settings.concurrency: runs one server runs at once
    RunSlots,       \* settings.runSlots: runs one tenant has running at once
    NoRun, NoTenant, Nobody,
    MaxNows,        \* bound: Run now requests
    MaxEvents,      \* bound: failed transactions, crashes, stops and changes of a tenant's status
    MaxStarts       \* bound: starts waiting when a run is queued

Tenants == ToSet(TenantList)

ASSUME TenantListAssumption == TenantList \in Seq(Tenants)
ASSUME TenantsAssumption == TenantOf \in [Schedules -> Tenants] /\ NoTenant \notin Tenants
ASSUME CapsAssumption == Concurrency \in Nat \ {0} /\ RunSlots \in Nat \ {0}
ASSUME FiniteAssumption == IsFiniteSet(Schedules) /\ IsFiniteSet(Runs)

RowType == [schedule : Schedules, status : {"queued", "running", "finished", "closed"}]
ASSUME AbsentAssumption ==
    /\ Nobody \notin Servers \cup Schedules
    /\ NoRun \notin RowType /\ NoRun # "full" /\ Runs \cap {NoRun, "full"} = {}

VARIABLES
    \* the database
    status,     \* of each tenant: active, unlicensed (no scheduled-runs) or suspended
    row,        \* schedule_runs: [schedule, status] of each id, or NoRun
    older,      \* of each queued one, those queued before it
    overdue,    \* running ones a minute past their deadline
    schedLock,  \* which server's Run now has each schedule's row locked
    slotLock,   \* lockRunSlots: which server has each tenant's
    \* the servers
    mode,       \* up, stopping (Scheduler.stopped), down
    sched,      \* each server's Scheduler
    now,        \* the Run now request it is serving: [schedule, stage]
    nows,       \* Run now requests so far
    \* bounds, and history for the properties
    events,
    orphans,    \* running rows whose server was lost, or could not store how they ended
    promised,   \* queued runs each server was kicked for, and has given no answer to
    missed      \* those whose tenant was taken off the waiting list by a claim begun before

tables == <<row, older, overdue>>
locks == <<schedLock, slotLock>>
history == <<orphans, promised, missed>>
vars == <<status, tables, locks, mode, sched, now, nows, events, history>>

NoPass == [stage |-> "none", todo |-> <<>>, licensed |-> <<>>, waiting |-> {}]
NewPass == [NoPass EXCEPT !.stage = "unit", !.todo = TenantList]
NoRound == [stage |-> "none", order |-> <<>>, idle |-> 0, failing |-> {}, answer |-> NoRun]
NoRequest == [schedule |-> Nobody, stage |-> "none"]

(* A new Scheduler.  `kicks` counts the kicks that wait for the pass under *)
(* way, `starts` is the chain of starts, its head the one under way.       *)
NewScheduler ==
    [pass |-> NoPass, licensed |-> <<>>, waiting |-> {}, kicked |-> {}, kicks |-> 0,
     turn |-> NoTenant, starts |-> <<>>, round |-> NoRound, inFlight |-> {}]

(* start() passes at once. *)
Started == [NewScheduler EXCEPT !.pass = NewPass]

Init ==
    /\ status = [t \in Tenants |-> "active"]
    /\ row = [r \in Runs |-> NoRun]
    /\ older = [r \in Runs |-> {}]
    /\ overdue = {}
    /\ schedLock = [s \in Schedules |-> Nobody]
    /\ slotLock = [t \in Tenants |-> Nobody]
    /\ mode = [p \in Servers |-> "up"]
    /\ sched = [p \in Servers |-> Started]
    /\ now = [p \in Servers |-> NoRequest]
    /\ events = 0 /\ nows = 0
    /\ orphans = {}
    /\ promised = [p \in Servers |-> {}]
    /\ missed = [p \in Servers |-> {}]

Up(p) == mode[p] = "up"
Set(p, m) == sched' = [sched EXCEPT ![p] = m]
RunTenant(r) == TenantOf[row[r].schedule]
With(st) == {r \in Runs : row[r] # NoRun /\ row[r].status = st}
Ended(r) == row[r] # NoRun /\ row[r].status \notin {"queued", "running"}
OfTenant(t, R) == {r \in R : RunTenant(r) = t}

(* hasOpenRun *)
HasOpenRun(s, R) == \E r \in R : row[r].schedule = s
Open == With("queued") \cup With("running")

(* The rows of R are given a status, and leave the queue.  A row that is   *)
(* over ("finished" by its executor; "closed": cancelled, interrupted or   *)
(* skipped) is kept as long as a server holds the run.                     *)
Marked(R, st) == [r \in Runs |-> IF r \in R THEN [row[r] EXCEPT !.status = st] ELSE row[r]]
Holds(p) == sched[p].inFlight \cup {sched[p].round.answer}
Closed(R) ==
    [r \in Runs |-> IF r \in R /\ \A p \in Servers : r \notin Holds(p) THEN NoRun ELSE Marked(R, "closed")[r]]
LetGo(R) == [r \in Runs |-> IF r \in R /\ Ended(r) THEN NoRun ELSE row[r]]
FewStarts(p) == Len(sched[p].starts) + sched[p].kicks <= MaxStarts
Dequeued(R) == [r \in Runs |-> IF r \in R THEN {} ELSE older[r] \ R]
Answered(R) ==
    /\ promised' = [p \in Servers |-> promised[p] \ R]
    /\ missed' = [p \in Servers |-> missed[p] \ R]

---------------------------------------------------------------------------
(* The pass: one unit per tenant *)

(* tick, when no pass is under way *)
Tick(p) ==
    /\ Up(p) /\ sched[p].pass.stage = "none"
    /\ Set(p, [sched[p] EXCEPT !.pass = NewPass])
    /\ UNCHANGED <<status, tables, locks, mode, now, nows, events, history>>

(* interruptStaleRuns *)
Stale(t) == OfTenant(t, overdue)

(* fire: a due schedule with an open run is passed by (a `skipped` row,    *)
(* over as it is inserted), the others get a queued run.                   *)
Fired(t, D) == {s \in D : ~HasOpenRun(s, Open \ Stale(t))}

(* claimDueSchedules: for update skip locked *)
DueSets(t) == SUBSET {s \in Schedules : TenantOf[s] = t /\ schedLock[s] = Nobody}

(* hasQueuedRun, after the runs `ids` were inserted *)
HasQueuedRun(t, ids) == ids # <<>> \/ OfTenant(t, With("queued")) # {}

(* An active tenant's unit: stale runs are ended, due schedules fired, and *)
(* it is known whether a run of the tenant waits.                          *)
FireUnit(p, D) ==
    LET m == sched[p]
        t == Head(m.pass.todo)
        free == SetToSeq({r \in Runs : row[r] = NoRun})
        ids == SubSeq(free, 1, Cardinality(Fired(t, D)))
        at(r) == CHOOSE i \in DOMAIN ids : ids[i] = r
    IN  /\ m.pass.stage = "unit" /\ m.pass.todo # <<>> /\ status[t] = "active"
        /\ D \in DueSets(t) /\ Cardinality(Fired(t, D)) <= Len(free)
        /\ D = {} \/ FewStarts(p)
        /\ \E order \in SetToSeqs(Fired(t, D)) :
              row' = [r \in Runs |->
                        IF r \in ToSet(ids) THEN [schedule |-> order[at(r)], status |-> "queued"]
                        ELSE Closed(Stale(t))[r]]
        /\ older' = [r \in Runs |->
                       IF r \in ToSet(ids) THEN With("queued") \cup {ids[i] : i \in 1 .. at(r) - 1}
                       ELSE older[r]]
        /\ overdue' = overdue \ Stale(t)
        /\ orphans' = orphans \ Stale(t)
        /\ Set(p, [m EXCEPT !.pass.stage = "answered", !.pass.licensed = Append(@, t),
                            !.pass.waiting = IF HasQueuedRun(t, ids) THEN @ \cup {t} ELSE @])
        /\ UNCHANGED <<status, locks, mode, now, nows, events, promised, missed>>

(* passOver, the unit of a suspended tenant: nothing is fired, nothing is  *)
(* left to catch up on.                                                    *)
PassOver(p) ==
    LET m == sched[p]
        t == Head(m.pass.todo)
        skipped == OfTenant(t, With("queued"))
    IN  /\ m.pass.stage = "unit" /\ m.pass.todo # <<>> /\ status[t] = "suspended"
        /\ row' = Closed(skipped \cup Stale(t))
        /\ older' = Dequeued(skipped)
        /\ overdue' = overdue \ Stale(t)
        /\ orphans' = orphans \ Stale(t)
        /\ Set(p, [m EXCEPT !.pass.stage = "answered"])
        /\ Answered(skipped)
        /\ UNCHANGED <<status, locks, mode, now, nows, events>>

(* Without the feature nothing fires or starts in the tenant. *)
Unlicensed(p) ==
    LET m == sched[p]
    IN  /\ m.pass.stage = "unit" /\ m.pass.todo # <<>> /\ status[Head(m.pass.todo)] = "unlicensed"
        /\ Set(p, [m EXCEPT !.pass.stage = "answered"])
        /\ UNCHANGED <<status, tables, locks, mode, now, nows, events, history>>

(* A unit that fails is rolled back, and the pass goes on; the tenant may  *)
(* have been noted as licensed.                                            *)
UnitFails(p) ==
    LET m == sched[p]
        t == Head(m.pass.todo)
    IN  /\ m.pass.stage = "unit" /\ m.pass.todo # <<>> /\ events < MaxEvents
        /\ \E noted \in {<<>>, <<t>>} :
              /\ noted = <<t>> => status[t] = "active"
              /\ Set(p, [m EXCEPT !.pass.stage = "answered", !.pass.licensed = @ \o noted])
        /\ events' = events + 1
        /\ promised' = [promised EXCEPT ![p] = @ \ OfTenant(t, @)]
        /\ UNCHANGED <<status, tables, locks, mode, now, nows, orphans, missed>>

(* takeKicked *)
TakeKicked(m) == [m EXCEPT !.waiting = @ \cup m.kicked, !.kicked = {}]

---------------------------------------------------------------------------
(* startQueued: one start at a time, each a round over the tenants *)

Rotated(s, k) == SubSeq(s, k + 1, Len(s)) \o SubSeq(s, 1, k)

(* filter: those of a sequence that are in S, as they follow each other. *)
Filtered(s, S) ==
    LET kept == {i \in DOMAIN s : s[i] \in S}
        upTo(i) == {j \in kept : j <= i}
    IN  [n \in 1 .. Cardinality(kept) |-> s[CHOOSE i \in kept : Cardinality(upTo(i)) = n]]

(* The licensed tenants from the one whose turn it is, those with a run    *)
(* waiting.                                                                *)
Order(m) ==
    LET turns == {i \in DOMAIN m.licensed : m.licensed[i] = m.turn}
    IN  Filtered(IF turns = {} THEN m.licensed ELSE Rotated(m.licensed, Min(turns) - 1), m.waiting)

(* Mutant: a kick under a pass relies on that pass. *)
PassOverWithoutKicks(m, up) == [m EXCEPT !.pass = NoPass, !.kicks = 0]
(* The pass is over; the kicks that waited for it each start once more,    *)
(* unless the scheduler was stopped.                                       *)
PassEnded(m, up) ==
    LET ended == [m EXCEPT !.pass = NoPass, !.kicks = 0]
    IN  IF up /\ m.kicks > 0
        THEN [TakeKicked(ended) EXCEPT !.starts = @ \o [i \in 1..m.kicks |-> "more"]]
        ELSE ended

(* settingsFree *)
HasRoom(m) == Cardinality(m.inFlight) < Concurrency

(* The chain's next start begins.  One with nobody to ask, no room or the  *)
(* scheduler stopped is over at once, as are those behind it.              *)
Asks(m, up) == up /\ HasRoom(m) /\ m.starts # <<>> /\ Order(m) # <<>>
Asking(m) == [m EXCEPT !.round = [NoRound EXCEPT !.stage = "ask", !.order = Order(m)]]
NextStart(m, up) ==
    LET over == [m EXCEPT !.starts = <<>>]
        rest == IF Contains(m.starts, "pass") THEN PassEnded(over, up) ELSE over
    IN  IF Asks(m, up) THEN Asking(m)
        ELSE IF Asks(rest, up) THEN Asking(rest)
        ELSE [rest EXCEPT !.starts = <<>>]

(* startQueued *)
StartQueued(m, kind, up) ==
    LET queued == [m EXCEPT !.starts = Append(@, kind)]
    IN  IF m.starts = <<>> THEN NextStart(queued, up) ELSE queued

RoundEnded(m, up) ==
    LET ended == [m EXCEPT !.starts = Tail(@), !.round = NoRound]
    IN  NextStart(IF Head(m.starts) = "pass" THEN PassEnded(ended, up) ELSE ended, up)

(* The head of the loop: the next tenant that is not failing is asked; the *)
(* round ends when each had an empty turn, the server is full or stopped.  *)
RoundGoesOn(m, up) ==
    LET rd == m.round
        ahead == {k \in 0 .. Len(rd.order) : k < Len(rd.order) - rd.idle /\ rd.order[k + 1] \notin rd.failing}
        k == CHOOSE j \in ahead : \A i \in ahead : j <= i
    IN  IF up /\ HasRoom(m) /\ ahead # {}
        THEN [m EXCEPT !.round = [rd EXCEPT !.stage = "ask", !.order = Rotated(@, k), !.idle = @ + k, !.answer = NoRun]]
        ELSE RoundEnded(m, up)

(* Every tenant was asked: the lists are replaced, and a start follows. *)
Listed(m) ==
    LET listed == [m EXCEPT !.licensed = m.pass.licensed, !.waiting = m.pass.waiting]
    IN  [TakeKicked(listed) EXCEPT !.pass = [NoPass EXCEPT !.stage = "starting"]]

(* The unit's commit is answered. *)
UnitAnswered(p) ==
    LET m == [sched[p] EXCEPT !.pass.stage = "unit", !.pass.todo = Tail(@)]
    IN  /\ sched[p].pass.stage = "answered"
        /\ Set(p, IF m.pass.todo = <<>> THEN StartQueued(Listed(m), "pass", Up(p)) ELSE m)
        /\ UNCHANGED <<status, tables, locks, mode, now, nows, events, history>>

Asked(p) == Head(sched[p].round.order)
SetRound(p, stage, answer) ==
    Set(p, [sched[p] EXCEPT !.round.stage = stage, !.round.answer = answer])

(* Mutant: the slots are counted without the tenant's lock. *)
ClaimBeginsUnlocked(p) ==
    LET t == Asked(p)
    IN  /\ sched[p].round.stage = "ask"
        /\ \/ status[t] = "suspended" /\ SetRound(p, "answered", NoRun)
           \/ /\ status[t] # "suspended" /\ Cardinality(OfTenant(t, With("running"))) >= RunSlots
              /\ SetRound(p, "answered", "full")
           \/ /\ status[t] # "suspended" /\ Cardinality(OfTenant(t, With("running"))) < RunSlots
              /\ SetRound(p, "locked", NoRun)
        /\ UNCHANGED <<status, tables, locks, mode, now, nows, events, history>>
(* A claim: under the tenant's slot lock its status is read again and its  *)
(* running runs are counted.                                               *)
ClaimBegins(p) ==
    LET t == Asked(p)
    IN  /\ sched[p].round.stage = "ask" /\ slotLock[t] = Nobody
        /\ \/ /\ status[t] = "suspended"
              /\ SetRound(p, "answered", NoRun) /\ UNCHANGED slotLock
           \/ /\ status[t] # "suspended" /\ Cardinality(OfTenant(t, With("running"))) >= RunSlots
              /\ SetRound(p, "answered", "full") /\ UNCHANGED slotLock
           \/ /\ status[t] # "suspended" /\ Cardinality(OfTenant(t, With("running"))) < RunSlots
              /\ SetRound(p, "locked", NoRun) /\ slotLock' = [slotLock EXCEPT ![t] = p]
        /\ UNCHANGED <<status, tables, schedLock, mode, now, nows, events, history>>

Unslot(p) == [t \in Tenants |-> IF slotLock[t] = p THEN Nobody ELSE slotLock[t]]

(* claimQueuedRuns, and the commit: the tenant's oldest queued run is      *)
(* marked running, if there is one.                                        *)
ClaimCommits(p) ==
    LET mine == OfTenant(Asked(p), With("queued"))
    IN  /\ sched[p].round.stage = "locked"
        /\ slotLock' = Unslot(p)
        /\ \/ /\ mine = {}
              /\ SetRound(p, "answered", NoRun) /\ UNCHANGED <<tables, history>>
           \/ \E r \in mine :
              /\ mine \cap older[r] = {}
              /\ SetRound(p, "answered", r)
              /\ row' = Marked({r}, "running") /\ older' = Dequeued({r})
              /\ Answered({r}) /\ UNCHANGED <<overdue, orphans>>
        /\ UNCHANGED <<status, schedLock, mode, now, nows, events>>

(* tenants[(i + 1) % tenants.length] *)
Following(rd) == Head(Rotated(rd.order, 1))
EmptyTurn(rd) == [rd EXCEPT !.order = Rotated(@, 1), !.idle = @ + 1]

(* Mutant: the rotation always begins with the first tenant. *)
LaunchedNoTurn(m, r) ==
    [m EXCEPT !.inFlight = @ \cup {r}, !.round.order = Rotated(@, 1), !.round.idle = 0]
(* launch, and the turn moves on *)
Launched(m, r) ==
    [m EXCEPT !.inFlight = @ \cup {r}, !.turn = Following(m.round),
              !.round.order = Rotated(@, 1), !.round.idle = 0]

(* The claim is answered: the run is launched; a tenant with every slot    *)
(* running stays on the list; one with nothing queued leaves it.           *)
ClaimAnswered(p) ==
    LET m == sched[p]
        t == Asked(p)
        answer == m.round.answer
    IN  /\ m.round.stage = "answered"
        /\ \/ /\ answer \in Runs
              /\ Set(p, RoundGoesOn(Launched(m, answer), Up(p)))
              /\ UNCHANGED history
           \/ /\ answer = "full"
              /\ Set(p, RoundGoesOn([m EXCEPT !.round = EmptyTurn(@)], Up(p)))
              /\ promised' = [promised EXCEPT ![p] = @ \ OfTenant(t, @)]
              /\ UNCHANGED <<orphans, missed>>
           \/ /\ answer = NoRun
              /\ Set(p, RoundGoesOn([m EXCEPT !.round = EmptyTurn(@), !.waiting = @ \ {t}], Up(p)))
              /\ missed' = [missed EXCEPT ![p] = @ \cup OfTenant(t, promised[p])]
              /\ UNCHANGED <<orphans, promised>>
        /\ UNCHANGED <<status, tables, locks, mode, now, nows, events>>

(* The claim's transaction fails, or its answer is lost after the commit.  *)
(* The tenant is failing for the rest of the round, and its turn is over.  *)
ClaimFails(p) ==
    LET m == sched[p]
        t == Asked(p)
        turn == IF m.turn = t THEN Following(m.round) ELSE m.turn
    IN  /\ m.round.stage # "none" /\ events < MaxEvents
        /\ events' = events + 1
        /\ slotLock' = Unslot(p)
        /\ Set(p, RoundGoesOn([m EXCEPT !.round = [EmptyTurn(m.round) EXCEPT !.failing = @ \cup {t}], !.turn = turn], Up(p)))
        /\ orphans' = orphans \cup ({m.round.answer} \cap With("running"))
        /\ row' = LetGo({m.round.answer})
        /\ promised' = [promised EXCEPT ![p] = @ \ OfTenant(t, @)]
        /\ UNCHANGED <<status, older, overdue, schedLock, mode, now, nows, missed>>

---------------------------------------------------------------------------
(* Runs in flight *)

(* Mutant: the outcome is stored whatever became of the run. *)
StoreAlways(p, r) ==
    /\ r \in sched[p].inFlight
    /\ row' = Marked({r}, "finished") /\ overdue' = overdue \ {r}
    /\ UNCHANGED <<status, older, locks, mode, sched, now, nows, events, history>>
(* executeRun ends and its outcome is stored (finishRun); nothing is       *)
(* stored when the run was cancelled or interrupted meanwhile.             *)
Store(p, r) ==
    /\ r \in sched[p].inFlight \cap With("running")
    /\ row' = Marked({r}, "finished") /\ overdue' = overdue \ {r}
    /\ UNCHANGED <<status, older, locks, mode, sched, now, nows, events, history>>

(* launch's finally: the run leaves inFlight, and the freed place is used. *)
Free(p, r) ==
    LET m == [sched[p] EXCEPT !.inFlight = @ \ {r}]
    IN  Set(p, IF Up(p) THEN StartQueued(m, "more", Up(p)) ELSE m)

Finish(p, r) ==
    /\ r \in sched[p].inFlight /\ Ended(r)
    /\ Free(p, r)
    /\ row' = LetGo({r})
    /\ UNCHANGED <<status, older, overdue, locks, mode, now, nows, events, history>>

(* The outcome cannot be stored: the run stays running until it is stale.  *)
StoreFails(p, r) ==
    /\ r \in sched[p].inFlight \cap With("running") /\ events < MaxEvents
    /\ events' = events + 1
    /\ orphans' = orphans \cup {r}
    /\ Free(p, r)
    /\ UNCHANGED <<status, tables, locks, mode, now, nows, promised, missed>>

---------------------------------------------------------------------------
(* The routes *)

Unlocked(p) == [s \in Schedules |-> IF schedLock[s] = p THEN Nobody ELSE schedLock[s]]

(* Mutant: Run now looks for an open run without locking the schedule. *)
RunNowBeginsUnlocked(p, s) ==
    /\ Up(p) /\ now[p] = NoRequest /\ nows < MaxNows /\ FewStarts(p)
    /\ nows' = nows + 1
    /\ status[TenantOf[s]] = "active" /\ ~HasOpenRun(s, Open)
    /\ now' = [now EXCEPT ![p] = [schedule |-> s, stage |-> "locked"]]
    /\ UNCHANGED <<status, tables, locks, mode, sched, events, history>>
(* Run now: the schedule is locked, so two cannot both find no open run.   *)
(* With an open run it is refused, and the lock let go.                    *)
RunNowBegins(p, s) ==
    /\ Up(p) /\ now[p] = NoRequest /\ nows < MaxNows /\ FewStarts(p)
    /\ nows' = nows + 1
    /\ status[TenantOf[s]] = "active" /\ schedLock[s] = Nobody /\ ~HasOpenRun(s, Open)
    /\ schedLock' = [schedLock EXCEPT ![s] = p]
    /\ now' = [now EXCEPT ![p] = [schedule |-> s, stage |-> "locked"]]
    /\ UNCHANGED <<status, tables, slotLock, mode, sched, events, history>>

(* Its run is committed. *)
RunNowCommits(p, r) ==
    LET s == now[p].schedule
    IN  /\ now[p].stage = "locked" /\ row[r] = NoRun
        /\ r = CHOOSE free \in Runs : row[free] = NoRun
        /\ row' = [row EXCEPT ![r] = [schedule |-> s, status |-> "queued"]]
        /\ older' = [older EXCEPT ![r] = With("queued")]
        /\ schedLock' = Unlocked(p)
        /\ now' = [now EXCEPT ![p].stage = "kick"]
        /\ promised' = [promised EXCEPT ![p] = @ \cup {r}]
        /\ UNCHANGED <<status, overdue, slotLock, mode, sched, nows, events, orphans, missed>>

(* kick: it begins a pass, or waits for the one under way.  Once stopped,  *)
(* a pass is over at once.                                                 *)
Kick(p) ==
    LET m == [sched[p] EXCEPT !.kicked = @ \cup {TenantOf[now[p].schedule]}]
    IN  /\ now[p].stage = "kick"
        /\ \/ ~Up(p) /\ Set(p, m)
           \/ Up(p) /\ m.pass.stage = "none" /\ Set(p, [m EXCEPT !.pass = NewPass])
           \/ Up(p) /\ m.pass.stage # "none" /\ Set(p, [m EXCEPT !.kicks = @ + 1])
        /\ now' = [now EXCEPT ![p] = NoRequest]
        /\ UNCHANGED <<status, tables, locks, mode, nows, events, history>>

(* cancelRun, on any server, and the abort of the run if it is that one's. *)
Cancel(r) ==
    /\ r \in Open
    /\ row' = Closed({r}) /\ older' = Dequeued({r})
    /\ overdue' = overdue \ {r}
    /\ orphans' = orphans \ {r}
    /\ Answered({r})
    /\ UNCHANGED <<status, locks, mode, sched, now, nows, events>>

---------------------------------------------------------------------------
(* Time, tenants and servers *)

Overdue(r) ==
    /\ r \in With("running") \ overdue
    /\ overdue' = overdue \cup {r}
    /\ UNCHANGED <<status, row, older, locks, mode, sched, now, nows, events, history>>

SetStatus(t, st) ==
    /\ status[t] # st /\ events < MaxEvents
    /\ status' = [status EXCEPT ![t] = st]
    /\ events' = events + 1
    /\ UNCHANGED <<tables, locks, mode, sched, now, nows, history>>

(* stop: the runs in flight are aborted, and it waits for everything. *)
Stop(p) ==
    /\ Up(p) /\ events < MaxEvents
    /\ mode' = [mode EXCEPT ![p] = "stopping"]
    /\ events' = events + 1
    /\ promised' = [promised EXCEPT ![p] = {}] /\ missed' = [missed EXCEPT ![p] = {}]
    /\ UNCHANGED <<status, tables, locks, sched, now, nows, orphans>>

(* Mutant: idle does not wait for the starts of freed places and kicks. *)
IdleButStarting(m) == m.pass.stage = "none" /\ m.inFlight = {}
(* idle: no pass, no run in flight, no start. *)
Idle(m) == m.pass.stage = "none" /\ m.inFlight = {} /\ m.starts = <<>> /\ m.kicks = 0

Stopped(p) ==
    /\ mode[p] = "stopping" /\ Idle(sched[p])
    /\ now[p] = NoRequest
    /\ mode' = [mode EXCEPT ![p] = "down"]
    /\ slotLock' = Unslot(p)
    /\ Set(p, NewScheduler)
    /\ UNCHANGED <<status, tables, schedLock, now, nows, events, history>>

(* The process is lost: its transactions are rolled back, its runs stay    *)
(* marked running.                                                         *)
Crash(p) ==
    /\ mode[p] # "down" /\ events < MaxEvents
    /\ events' = events + 1
    /\ mode' = [mode EXCEPT ![p] = "down"]
    /\ orphans' = orphans \cup (Holds(p) \cap With("running"))
    /\ row' = LetGo(Holds(p))
    /\ schedLock' = Unlocked(p)
    /\ slotLock' = Unslot(p)
    /\ Set(p, NewScheduler)
    /\ now' = [now EXCEPT ![p] = NoRequest]
    /\ promised' = [promised EXCEPT ![p] = {}] /\ missed' = [missed EXCEPT ![p] = {}]
    /\ UNCHANGED <<status, older, overdue, nows>>

Restart(p) ==
    /\ mode[p] = "down"
    /\ mode' = [mode EXCEPT ![p] = "up"]
    /\ Set(p, Started)
    /\ UNCHANGED <<status, tables, locks, now, nows, events, history>>

PassStep(p) ==
    (\E D \in SUBSET Schedules : FireUnit(p, D)) \/ PassOver(p) \/ Unlicensed(p) \/ UnitAnswered(p)
ClaimStep(p) == ClaimCommits(p) \/ ClaimAnswered(p)
RequestStep(p) == (\E r \in Runs : RunNowCommits(p, r)) \/ Kick(p)

Next ==
    \/ \E p \in Servers :
        \/ Tick(p) \/ PassStep(p) \/ UnitFails(p)
        \/ ClaimStep(p) \/ ClaimBegins(p) \/ ClaimFails(p)
        \/ \E r \in Runs : Store(p, r) \/ Finish(p, r) \/ StoreFails(p, r)
        \/ \E s \in Schedules : RunNowBegins(p, s)
        \/ RequestStep(p)
        \/ Stop(p) \/ Stopped(p) \/ Crash(p) \/ Restart(p)
    \/ \E r \in Runs : Cancel(r) \/ Overdue(r)
    \/ \E t \in Tenants, st \in {"active", "unlicensed", "suspended"} : SetStatus(t, st)

Spec == Init /\ [][Next]_vars

(* Statements are answered, a run ends by its deadline, the timer fires, a *)
(* server that is down comes back, time passes; the waiters of a slot lock *)
(* are served in turn.                                                     *)
FairSpec ==
    /\ Spec
    /\ \A p \in Servers :
        /\ WF_vars(Tick(p)) /\ WF_vars(PassStep(p)) /\ WF_vars(ClaimStep(p)) /\ SF_vars(ClaimBegins(p))
        /\ WF_vars(RequestStep(p)) /\ WF_vars(Stopped(p) \/ Restart(p))
        /\ WF_vars(\E r \in Runs : Store(p, r) \/ Finish(p, r))
    /\ WF_vars(\E r \in Runs : Overdue(r))

---------------------------------------------------------------------------
(* Properties *)

Stages == {"none", "unit", "answered", "starting"}
PassType == [stage : Stages, todo : Seq(Tenants), licensed : Seq(Tenants), waiting : SUBSET Tenants]
RoundType == [stage : {"none", "ask", "locked", "answered"}, order : Seq(Tenants), idle : Nat,
              failing : SUBSET Tenants, answer : Runs \cup {NoRun, "full"}]
SchedulerType ==
    [pass : PassType, licensed : Seq(Tenants), waiting : SUBSET Tenants, kicked : SUBSET Tenants, kicks : Nat,
     turn : Tenants \cup {NoTenant}, starts : Seq({"pass", "more"}), round : RoundType,
     inFlight : SUBSET Runs]

TypeOK ==
    /\ status \in [Tenants -> {"active", "unlicensed", "suspended"}]
    /\ row \in [Runs -> RowType \cup {NoRun}]
    /\ older \in [Runs -> SUBSET With("queued")]
    /\ \A r, q \in With("queued") : r # q => (r \in older[q] <=> q \notin older[r])
    /\ overdue \in SUBSET With("running")
    /\ schedLock \in [Schedules -> Servers \cup {Nobody}]
    /\ slotLock \in [Tenants -> Servers \cup {Nobody}]
    /\ mode \in [Servers -> {"up", "stopping", "down"}]
    /\ sched \in [Servers -> SchedulerType]
    /\ now \in [Servers -> [schedule : Schedules \cup {Nobody}, stage : {"none", "locked", "kick"}]]
    /\ events \in Nat /\ nows \in Nat
    /\ orphans \in SUBSET Runs
    /\ promised \in [Servers -> SUBSET Runs] /\ missed \in [Servers -> SUBSET Runs]

(* "two servers on one database never fire a schedule twice", "two         *)
(* requests at once cannot both find no open run" (scheduler.ts,           *)
(* run-routes.ts): whatever passes and Run nows do at once, a schedule has *)
(* one queued or running run.                                              *)
OneOpenRun == \A r, q \in Open : row[r].schedule = row[q].schedule => r = q

(* "A tenant runs at most its run slots at once across every server",      *)
(* although each server counts for itself and claims afterwards.           *)
SlotsKept == \A t \in Tenants : Cardinality(OfTenant(t, With("running"))) <= RunSlots

(* A run marked running is in flight on a server, or on its way there; the *)
(* rest are those whose server was lost or could not store.  So a stop     *)
(* that has ended left no run behind, also one claimed while it began.     *)
StopLeavesNothing ==
    With("running") \subseteq
        orphans \cup UNION {sched[p].inFlight \cup {sched[p].round.answer} : p \in Servers}

(* "a cancel got there first, and that outcome stands" (repo.ts): of the   *)
(* executor, a cancel, a pass that finds the run stale and a suspension,   *)
(* one decides how the run ended.                                          *)
OutcomeStands ==
    [][\A r \in Runs : Ended(r) => row'[r] \in {row[r], NoRun}]_vars

Quiet(p) == Up(p) /\ sched[p].pass.stage = "none" /\ sched[p].starts = <<>> /\ now[p] = NoRequest

(* The kicked run waits for a place of this server, or for the license. *)
StillListed(p, r) ==
    RunTenant(r) \in ToSet(sched[p].licensed) => RunTenant(r) \in sched[p].waiting /\ ~HasRoom(sched[p])

(* A server that has come to rest between two passes has not forgotten a   *)
(* Run now: it was started, or refused for want of slots, or it waits for  *)
(* a place of this server - also when the pass under way had asked its     *)
(* tenant before the run was committed.  Left out: a tenant taken off the  *)
(* list by a claim that began before the run was committed.                *)
KickKept == \A p \in Servers : Quiet(p) => \A r \in promised[p] \ missed[p] : StillListed(p, r)

(* A queued run of a tenant that stays active is started or ended: no      *)
(* tenant's backlog starves another's, and no run is forgotten.            *)
QueuedSettles ==
    \A s \in Schedules :
        LET waits == \E r \in With("queued") : row[r].schedule = s
        IN  waits ~> (~waits \/ status[TenantOf[s]] # "active")
=============================================================================
