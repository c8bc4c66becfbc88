---------------------------- MODULE AlertOutbox ----------------------------
(***************************************************************************)
(* The alerts of one tenant's schedule (server/src/schedules/alerts/):     *)
(*   - decideAlert and enqueueAlertsOrWarn (state.ts, outbox.ts): a run    *)
(*     that ends moves the schedule's alert state and queues its alert, in *)
(*     a savepoint of the transaction that stores the run;                 *)
(*   - AlertOutbox (outbox.ts): a pass leases the pending rows that are    *)
(*     due, sends each and records how it went, on any server.             *)
(* Times are distances from now: what is left of a lease, of a backoff and *)
(* of the time a pass may take over its sends.  Of the payload only the    *)
(* alert it is for is kept; each target of an alert has a row of its own,  *)
(* and one target is modelled.                                             *)
(***************************************************************************)
EXTENDS Naturals, FiniteSets

CONSTANTS
    Servers,
    Rows,           \* ids of schedule_alert_outbox rows
    MuteAfter,      \* the schedule's muteAfter
    MaxAttempts,    \* ALERT_MAX_ATTEMPTS
    Lease,          \* LEASE_MS
    Backoff,        \* the longest backoffMs
    PassTime,       \* a claimed row's result is recorded, or its server gone, in this time
    NoRow,
    MaxStreak,      \* bound: the streak that is counted
    MaxFaults       \* bound: crashes, stops and failed statements

(* "Longer than a delivery's deadline: a claimed row is someone's until    *)
(* then."                                                                  *)
ASSUME LeaseAssumption == Lease \in Nat /\ PassTime \in Nat /\ PassTime < Lease
ASSUME BoundsAssumption ==
    /\ MaxAttempts \in Nat \ {0} /\ Backoff \in Nat \ {0}
    /\ MuteAfter \in Nat /\ MaxStreak \in Nat \ {0}

RowType == [state : {"pending", "delivered", "dead"}, attempts : 0..MaxAttempts, wait : Nat]
ASSUME AbsentAssumption == NoRow \notin RowType

VARIABLES
    alert,      \* the schedule's alert_state and failure_streak
    row,        \* schedule_alert_outbox: [state, attempts, wait] of each id, or NoRow
    active,     \* the tenant is active and licensed
    mode,       \* of each server: up, stopping, down
    sends,      \* deliverOne under way: [server, row, attempts, left, result]
    passing,    \* the rows each server's pass waits for
    faults,
    \* history, for the properties only
    told,       \* an alert was queued for the failures that go on
    tried       \* [sent, failed, lost, arrived] of each row

queueing == <<alert, told>>
workers == <<mode, sends, passing>>
vars == <<queueing, row, active, workers, faults, tried>>

Untried == [sent |-> 0, failed |-> 0, lost |-> 0, arrived |-> FALSE]

Init ==
    /\ alert = [state |-> "ok", streak |-> 0]
    /\ row = [r \in Rows |-> NoRow]
    /\ active = TRUE
    /\ mode = [p \in Servers |-> "up"]
    /\ sends = {}
    /\ passing = [p \in Servers |-> {}]
    /\ faults = 0
    /\ told = FALSE
    /\ tried = [r \in Rows |-> Untried]

---------------------------------------------------------------------------
(* A run ends *)

Outcomes == {"passed", "failed", "cancelled"}

(* decideAlert: the next state, and the kind of alert it calls for. *)
Streak == IF alert.state = "failing" THEN alert.streak + 1 ELSE 1
DecideAlert(outcome) ==
    CASE outcome = "passed" /\ alert.state = "failing" ->
            [next |-> [state |-> "ok", streak |-> 0], send |-> "recovery"]
      [] outcome = "failed" ->
            [next |-> [state |-> "failing", streak |-> IF Streak > MaxStreak THEN MaxStreak ELSE Streak],
             send |-> IF MuteAfter > 0 /\ Streak > MuteAfter THEN "nothing" ELSE "failure"]
      [] OTHER -> [next |-> alert, send |-> "nothing"]

(* enqueueAlerts, with the run it judges ("failed" stands for errored      *)
(* too): state and row together.                                           *)
RunEnds(outcome, r) ==
    LET d == DecideAlert(outcome)
    IN  /\ alert' = d.next
        /\ \/ d.send = "nothing" /\ UNCHANGED <<row, told, tried>>
           \/ /\ d.send # "nothing"
              /\ row[r] = NoRow
              /\ row' = [row EXCEPT ![r] = [state |-> "pending", attempts |-> 0, wait |-> 0]]
              /\ tried' = [tried EXCEPT ![r] = Untried]
              /\ told' = (d.send = "failure")
        /\ UNCHANGED <<active, workers, faults>>

(* Mutant: the state moves outside the savepoint. *)
EnqueueFailsLater(outcome) ==
    /\ faults < MaxFaults /\ faults' = faults + 1
    /\ alert' = DecideAlert(outcome).next
    /\ UNCHANGED <<told, row, active, workers, tried>>
(* enqueueAlertsOrWarn: the alert cannot be queued; the savepoint takes    *)
(* the state back with it, and the run is stored.                          *)
EnqueueFails(outcome) ==
    /\ outcome \in Outcomes
    /\ faults < MaxFaults /\ faults' = faults + 1
    /\ UNCHANGED <<queueing, row, active, workers, tried>>

---------------------------------------------------------------------------
(* A pass *)

(* Mutant: a row that was tried is not due again. *)
DueUntried == {r \in Rows : row[r] # NoRow /\ row[r].state = "pending" /\ row[r].wait = 0 /\ row[r].attempts = 0}
Due == {r \in Rows : row[r] # NoRow /\ row[r].state = "pending" /\ row[r].wait = 0}

(* Mutant: the claim takes the rows and does not lease them. *)
LeasedNot(R) == row
(* next_at is moved past the lease. *)
Leased(R) == [r \in Rows |-> IF r \in R THEN [row[r] EXCEPT !.wait = Lease] ELSE row[r]]

(* A pass of an idle server: the claim (of at most CLAIM_BATCH rows, which *)
(* the instances stay below) commits, and every claimed row is             *)
(* sent.  A suspended or unlicensed tenant's rows wait.                    *)
Pass(p) ==
    /\ mode[p] = "up" /\ passing[p] = {}
    /\ active /\ Due # {}
    /\ row' = Leased(Due)
    /\ sends' = sends \cup {[server |-> p, row |-> r, attempts |-> row[r].attempts,
                             left |-> PassTime, result |-> "none"] : r \in Due}
    /\ passing' = [passing EXCEPT ![p] = Due]
    /\ tried' = [r \in Rows |-> IF r \in Due THEN [tried[r] EXCEPT !.sent = @ + 1] ELSE tried[r]]
    /\ UNCHANGED <<queueing, active, mode, faults>>

(* deliver: the target takes the alert, or does not, or its answer is      *)
(* lost; all within ALERT_DEADLINE_MS.                                     *)
Delivered(m, arrived, result) ==
    /\ m.result = "none"
    /\ result = "arrived" => arrived
    /\ sends' = (sends \ {m}) \cup {[m EXCEPT !.result = result]}
    /\ tried' = [tried EXCEPT ![m.row].arrived = @ \/ arrived,
                              ![m.row].failed = IF result = "failed" THEN @ + 1 ELSE @]
    /\ UNCHANGED <<queueing, row, active, mode, passing, faults>>

(* Mutant: the delivery is given up one attempt early. *)
AfterFailureEarly(s, attempts, wait) ==
    IF attempts + 1 >= MaxAttempts
    THEN [s EXCEPT !.state = "dead", !.attempts = attempts]
    ELSE [s EXCEPT !.attempts = attempts, !.wait = wait]
(* The row after a failed delivery: a late result leaves a delivered row   *)
(* delivered, unless it was the last attempt.                              *)
AfterFailure(s, attempts, wait) ==
    IF attempts >= MaxAttempts
    THEN [s EXCEPT !.state = "dead", !.attempts = attempts]
    ELSE [s EXCEPT !.attempts = attempts, !.wait = wait]
AfterSuccess(s) == [s EXCEPT !.state = "delivered", !.attempts = @ + 1]

(* Mutant: a failed delivery does not count. *)
RecordUncounted(m, wait) ==
    /\ m.result = "failed"
    /\ row' = [row EXCEPT ![m.row].wait = wait]
    /\ sends' = sends \ {m}
    /\ passing' = [passing EXCEPT ![m.server] = @ \ {m.row}]
    /\ UNCHANGED <<queueing, active, mode, faults, tried>>
(* How it went is recorded.  The pass ends with its last delivery. *)
Record(m, wait) ==
    /\ m.result # "none"
    /\ row[m.row] # NoRow
    /\ row' = [row EXCEPT ![m.row] =
                  IF m.result = "arrived" THEN AfterSuccess(@) ELSE AfterFailure(@, m.attempts + 1, wait)]
    /\ sends' = sends \ {m}
    /\ passing' = [passing EXCEPT ![m.server] = @ \ {m.row}]
    /\ UNCHANGED <<queueing, active, mode, faults, tried>>

Excused(R) == [r \in Rows |-> IF r \in R THEN [tried[r] EXCEPT !.lost = @ + 1] ELSE tried[r]]

(* It cannot be recorded: the pass rejects, and its other deliveries go on *)
(* with nobody waiting for them.                                           *)
RecordFails(m) ==
    /\ m.result # "none"
    /\ faults < MaxFaults /\ faults' = faults + 1
    /\ sends' = sends \ {m}
    /\ passing' = [passing EXCEPT ![m.server] = IF m.row \in @ THEN {} ELSE @]
    /\ tried' = Excused({m.row} \cup passing[m.server])
    /\ UNCHANGED <<queueing, row, active, mode>>

(* deleteOutboxBefore *)
Sweep(r) ==
    /\ row[r] # NoRow /\ row[r].state # "pending"
    /\ \A m \in sends : m.row # r       \* rows are swept days after they were made
    /\ row' = [row EXCEPT ![r] = NoRow]
    /\ tried' = [tried EXCEPT ![r] = Untried]
    /\ UNCHANGED <<queueing, active, workers, faults>>

---------------------------------------------------------------------------
(* Time, the tenant and the servers *)

(* No delivery takes longer than PassTime. *)
Tick ==
    /\ \A m \in sends : m.left > 0
    /\ \/ sends # {}
       \/ \E r \in Rows : row[r] # NoRow /\ row[r].wait > 0
    /\ sends' = {[m EXCEPT !.left = @ - 1] : m \in sends}
    /\ row' = [r \in Rows |-> IF row[r] # NoRow /\ row[r].wait > 0 THEN [row[r] EXCEPT !.wait = @ - 1] ELSE row[r]]
    /\ UNCHANGED <<queueing, active, mode, passing, faults, tried>>

SetActive == active' = ~active /\ UNCHANGED <<queueing, row, workers, faults, tried>>

Stop(p) ==
    /\ mode[p] = "up" /\ faults < MaxFaults /\ faults' = faults + 1
    /\ mode' = [mode EXCEPT ![p] = "stopping"]
    /\ UNCHANGED <<queueing, row, active, sends, passing, tried>>

(* The process is gone, and its deliveries with it. *)
Gone(p) ==
    /\ mode' = [mode EXCEPT ![p] = "down"]
    /\ sends' = {m \in sends : m.server # p}
    /\ passing' = [passing EXCEPT ![p] = {}]
    /\ UNCHANGED <<queueing, row, active>>

(* stop waits for the pass under way. *)
Stopped(p) == mode[p] = "stopping" /\ passing[p] = {} /\ Gone(p) /\ UNCHANGED <<faults, tried>>

Crash(p) ==
    /\ mode[p] # "down"
    /\ faults < MaxFaults /\ faults' = faults + 1
    /\ tried' = Excused({m.row : m \in {n \in sends : n.server = p}})
    /\ Gone(p)

Restart(p) ==
    /\ mode[p] = "down"
    /\ mode' = [mode EXCEPT ![p] = "up"]
    /\ UNCHANGED <<queueing, row, active, sends, passing, faults, tried>>

DeliveryStep(m) ==
    \/ \E arrived \in BOOLEAN, result \in {"arrived", "failed"} : Delivered(m, arrived, result)
    \/ \E wait \in 1..Backoff : Record(m, wait)
ServerStep(p) == Pass(p) \/ Stopped(p) \/ Restart(p)

Next ==
    \/ \E o \in Outcomes : (\E r \in Rows : RunEnds(o, r)) \/ EnqueueFails(o)
    \/ \E m \in sends : DeliveryStep(m) \/ RecordFails(m)
    \/ \E r \in Rows : Sweep(r)
    \/ \E p \in Servers : ServerStep(p) \/ Stop(p) \/ Crash(p)
    \/ Tick \/ SetActive

Spec == Init /\ [][Next]_vars

(* Sends and statements end, time passes, passes recur and servers come    *)
(* back.                                                                   *)
FairSpec ==
    /\ Spec
    /\ WF_vars(Tick)
    /\ \A p \in Servers :
         /\ WF_vars(ServerStep(p))
         /\ \A r \in Rows : WF_vars(\E m \in sends : m.server = p /\ m.row = r /\ DeliveryStep(m))

---------------------------------------------------------------------------
(* Properties *)

SendType == [server : Servers, row : Rows, attempts : Nat, left : Nat, result : {"none", "arrived", "failed"}]
TriedType == [sent : Nat, failed : Nat, lost : Nat, arrived : BOOLEAN]

TypeOK ==
    /\ alert \in [state : {"ok", "failing"}, streak : Nat]
    /\ row \in [Rows -> RowType \cup {NoRow}]
    /\ active \in BOOLEAN
    /\ mode \in [Servers -> {"up", "stopping", "down"}]
    /\ sends \in SUBSET SendType
    /\ passing \in [Servers -> SUBSET Rows]
    /\ faults \in Nat
    /\ told \in BOOLEAN
    /\ tried \in [Rows -> TriedType]

(* "a claimed row is someone's" until the lease is over: no two deliveries *)
(* of a row at a time, on one server or two, as long as a pass is done     *)
(* with its sends in less than the lease.                                  *)
OneSender == \A m, n \in sends : m.row = n.row => m = n

(* A row says `delivered` only when the alert has reached its target, and  *)
(* `dead` only after MaxAttempts deliveries of it that failed.             *)
StateIsTrue ==
    \A r \in Rows : row[r] # NoRow =>
        /\ row[r].state = "delivered" => tried[r].arrived
        /\ row[r].state = "dead" => tried[r].failed >= MaxAttempts

(* "after ALERT_MAX_ATTEMPTS the delivery is dead": the target is tried no *)
(* more often, but for the deliveries a crash or a failed statement cut    *)
(* off.  A stop cuts none off: it waits for the pass.                      *)
TriesBounded == \A r \in Rows : tried[r].sent <= MaxAttempts + tried[r].lost

(* A schedule that is failing has told so: its state and the alert are     *)
(* stored together or not at all.  So a recovery is never the first that   *)
(* is heard of a failure.                                                  *)
FailingIsTold == alert.state = "failing" => told

(* An alert that was queued is delivered or given up, whichever server     *)
(* dies with it, unless its tenant is stopped.                             *)
AlertSettles ==
    \A r \in Rows :
        (row[r] # NoRow /\ row[r].state # "delivered")
            ~> (row[r] = NoRow \/ row[r].state \in {"delivered", "dead"} \/ ~active)
=============================================================================
