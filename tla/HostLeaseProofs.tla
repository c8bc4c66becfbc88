-------------------------- MODULE HostLeaseProofs --------------------------
(***************************************************************************)
(* Two processes never have a host of one user at the same time, for any   *)
(* number of processes, users, seats, renewals and statements under way,   *)
(* as long as a quit path and a take's answer are in time (InTime); and    *)
(* the tenant's seats are kept, at any times.                              *)
(***************************************************************************)
EXTENDS HostLease, FiniteSetTheorems, TLAPS

(* A host whose lease went stale, or whose take was answered at the last   *)
(* moment, can still quit before its row expires.                          *)
InTime == Stale + Quit =< Lease /\ TakeWait + Quit =< Lease

Waiting(p, u) == pc[p][u] \in {"taking", "took", "capped"}
Asked(p, u) == pc[p][u] \in {"taking", "took"}
Lost(p, u) == Running(p, u) /\ held[p][u] = NoLease

HeldRunsAt(p, u) == held[p][u] # NoLease => Running(p, u)
HeldRuns == \A p \in Processes, u \in Users : HeldRunsAt(p, u)

(* Takes are told apart: what was sent for an earlier take of the same     *)
(* process and user has a smaller token than the take under way.           *)
TokensAt(p, u) ==
    /\ take[p][u].acquired =< opens
    /\ ended[p][u] =< opens
    /\ held[p][u] # NoLease => held[p][u].acquired =< opens
    /\ Waiting(p, u) => 0 < take[p][u].acquired
TokensKnown == \A p \in Processes, u \in Users : TokensAt(p, u)
DeleteOld(m) ==
    /\ m.acquired =< opens
    /\ Waiting(m.holder, m.user) => m.acquired < take[m.holder][m.user].acquired
    /\ Running(m.holder, m.user) => m.acquired < Taken(m.holder, m.user)
DeletesOld == \A m \in deletes : DeleteOld(m)
RenewOld(m, u) ==
    /\ m.sent[u] =< opens
    /\ Waiting(m.holder, u) => m.sent[u] < take[m.holder][u].acquired
RenewsOld == \A m \in renews, u \in Users : RenewOld(m, u)

(* How far the clock may be from what a process last heard. *)
TakeInTime(p, u) ==
    Asked(p, u) => take[p][u].sent =< now /\ now =< take[p][u].sent + TakeWait
TakesInTime == \A p \in Processes, u \in Users : TakeInTime(p, u)
LeaseInTime(p, u) ==
    held[p][u] # NoLease =>
        held[p][u].confirmed =< now /\ now + Quit =< held[p][u].confirmed + Lease
LeasesInTime == \A p \in Processes, u \in Users : LeaseInTime(p, u)
StopInTime(p, u) ==
    /\ stopBy[p][u] # Never => stopBy[p][u] =< now + Quit
    /\ Lost(p, u) => stopBy[p][u] # Never /\ now =< stopBy[p][u]
StopsInTime == \A p \in Processes, u \in Users : StopInTime(p, u)
RenewsInTime == \A m \in renews : m.at =< now

(* The row of a host, and of an answer on its way, is in the database.     *)
RowOf(p, u, a, t) ==
    /\ rows[u] # NoRow
    /\ rows[u].holder = p
    /\ rows[u].acquired = a
    /\ t =< rows[u].expires
RowKept(p, u) ==
    /\ pc[p][u] = "took" /\ take[p][u].answer = "ok" =>
          RowOf(p, u, take[p][u].acquired, take[p][u].sent + Lease)
    /\ held[p][u] # NoLease => RowOf(p, u, held[p][u].acquired, held[p][u].confirmed + Lease)
    /\ Lost(p, u) => RowOf(p, u, ended[p][u], stopBy[p][u])
RowsKept == \A p \in Processes, u \in Users : RowKept(p, u)
RenewalTrue(m, u) ==
    /\ m.done /\ u \in m.kept
    /\ held[m.holder][u] # NoLease
    /\ held[m.holder][u].acquired = m.sent[u]
    => m.at + Lease =< rows[u].expires
RenewalsTrue == \A m \in renews, u \in Users : RenewalTrue(m, u)

TokenInv == TokensKnown /\ DeletesOld /\ RenewsOld
TimeInv == TakesInTime /\ LeasesInTime /\ StopsInTime /\ RenewsInTime
RowInv == RowsKept /\ RenewalsTrue
LeaseInv == TypeOK /\ HeldRuns /\ TokenInv /\ TimeInv /\ RowInv

---------------------------------------------------------------------------
(* The records the tables hold, and their updates. *)
LEMMA TakeUpdates ==
    /\ NoTake \in TakeType
    /\ \A token, time \in Nat : Asking(token, time) \in TakeType
    /\ \A t \in TakeType :
          /\ \A token \in Nat : [t EXCEPT !.acquired = token] \in TakeType
          /\ \A a \in Answers : [t EXCEPT !.answer = a] \in TakeType
          /\ \A v \in Users : [t EXCEPT !.victim = v] \in TakeType
<1>1. \A token, time \in Nat : Asking(token, time) \in TakeType
  BY DEF Asking, TakeType, Answers
<1>2. ASSUME NEW t \in TakeType, NEW token \in Nat
      PROVE  [t EXCEPT !.acquired = token] \in TakeType
  BY DEF TakeType
<1>3. ASSUME NEW t \in TakeType, NEW a \in Answers
      PROVE  [t EXCEPT !.answer = a] \in TakeType
  BY DEF TakeType
<1>4. ASSUME NEW t \in TakeType, NEW v \in Users
      PROVE  [t EXCEPT !.victim = v] \in TakeType
  BY DEF TakeType
<1>5. NoTake \in TakeType
  BY DEF NoTake, Asking, TakeType, Answers
<1> QED
  BY <1>1, <1>2, <1>3, <1>4, <1>5

(* A renewal keeps a row a row. *)
LEMMA RowUpdates ==
    ASSUME NEW row \in RowType, NEW time \in Nat
    PROVE  [row EXCEPT !.expires = time] \in RowType
  BY DEF RowType

(* Whatever ends with an instance keeps its process's tables well typed. *)
LEMMA OverType ==
    ASSUME TypeOK, NEW p \in Processes, NEW u \in Users, NEW freed \in BOOLEAN, Over(p, u, freed)
    PROVE  /\ pc' \in [Processes -> [Users -> Steps]]
           /\ take' \in [Processes -> [Users -> TakeType]]
           /\ idle' \in [Processes -> [Users -> BOOLEAN]]
           /\ evicting' \in [Processes -> [Users -> BOOLEAN]]
<1> DEFINE retry == {v \in Users : freed /\ WaitsFor(p, v, u)}
           gone == {u} \cup {v \in Users : ~freed /\ WaitsFor(p, v, u)}
           step == [v \in Users |->
                      IF v \in gone THEN "none" ELSE IF v \in retry THEN "taking" ELSE pc[p][v]]
           asked == [v \in Users |->
                       IF v \in gone THEN NoTake
                       ELSE IF v \in retry THEN Asking(take[p][v].acquired, now)
                       ELSE take[p][v]]
<1>1. NoTake \in TakeType
  BY TakeUpdates
<1>2. \A v \in Users : Asking(take[p][v].acquired, now) \in TakeType
  <2>1. \A v \in Users : take[p][v].acquired \in Nat /\ now \in Nat
    BY DEF TypeOK, TakeType
  <2> QED
    BY <2>1, TakeUpdates
<1>3. asked \in [Users -> TakeType]
  <2>1. \A v \in Users : take[p][v] \in TakeType
    BY DEF TypeOK
  <2> QED
    BY <1>1, <1>2, <2>1
<1>4. step \in [Users -> Steps]
  BY DEF TypeOK, Steps
<1>5. pc' = [pc EXCEPT ![p] = step] /\ take' = [take EXCEPT ![p] = asked]
  BY DEF Over, TypeOK
<1>6. pc' \in [Processes -> [Users -> Steps]]
  BY <1>4, <1>5 DEF TypeOK
<1>7. take' \in [Processes -> [Users -> TakeType]]
  BY <1>3, <1>5 DEF TypeOK
<1>8. idle' \in [Processes -> [Users -> BOOLEAN]] /\ evicting' \in [Processes -> [Users -> BOOLEAN]]
  BY DEF TypeOK, Over
<1> QED
  BY <1>6, <1>7, <1>8

(* A release forgets the lease and sends a delete of the take. *)
LEMMA ReleaseType ==
    ASSUME TypeOK, NEW p \in Processes, NEW u \in Users, Release(p, u)
    PROVE  /\ held' \in [Processes -> [Users -> LeaseType \cup {NoLease}]]
           /\ ended' \in [Processes -> [Users -> Nat]]
           /\ take' \in [Processes -> [Users -> TakeType]]
           /\ deletes' \in SUBSET DeleteType
           /\ stopBy' \in [Processes -> [Users -> Nat \cup {Never}]]
           /\ pc' \in [Processes -> [Users -> Steps]]
<1>1. Taken(p, u) \in Nat
  BY DEF TypeOK, Taken, LeaseType
<1>2. [take[p][u] EXCEPT !.acquired = Taken(p, u)] \in TakeType
  BY <1>1, TakeUpdates DEF TypeOK
<1>3. take' \in [Processes -> [Users -> TakeType]]
  BY <1>2 DEF TypeOK, Release
<1>4. deletes' \in SUBSET DeleteType
  BY <1>1 DEF TypeOK, Release, DeleteType
<1>5. /\ held' \in [Processes -> [Users -> LeaseType \cup {NoLease}]]
      /\ ended' \in [Processes -> [Users -> Nat]]
      /\ stopBy' \in [Processes -> [Users -> Nat \cup {Never}]]
      /\ pc' \in [Processes -> [Users -> Steps]]
  BY DEF TypeOK, Release, Goto, Steps
<1> QED
  BY <1>3, <1>4, <1>5

---------------------------------------------------------------------------
(* Every variable keeps the type its declaration states: whatever order    *)
(* statements, answers, timers and crashes come in.                        *)
THEOREM TypeCorrect == Spec => []TypeOK
<1>1. Init => TypeOK
  BY TakeUpdates DEF Init, TypeOK, Steps
<1>2. TypeOK /\ [Next]_vars => TypeOK'
  <2> SUFFICES ASSUME TypeOK, [Next]_vars
               PROVE  TypeOK'
    OBVIOUS
  <2> USE TimesAssumption
  <2>1. ASSUME NEW p \in Processes, NEW u \in Users, Open(p, u)
        PROVE  TypeOK'
    <3>1. Asking(opens + 1, now) \in TakeType
      <4>1. opens + 1 \in Nat /\ now \in Nat
        BY DEF TypeOK
      <4> QED
        BY <4>1, TakeUpdates
    <3> QED
      BY <2>1, <3>1 DEF TypeOK, Steps, Open, Goto, leases, wires
  <2>2. ASSUME NEW p \in Processes, NEW u \in Users, Join(p, u)
        PROVE  TypeOK'
    BY <2>2 DEF TypeOK, Join, leases, wires
  <2>3. ASSUME NEW p \in Processes, NEW u \in Users, LastSocketGone(p, u)
        PROVE  TypeOK'
    BY <2>3 DEF TypeOK, LastSocketGone, leases, wires
  <2>4. ASSUME NEW p \in Processes, NEW u \in Users, Evict(p, u)
        PROVE  TypeOK'
    BY <2>4 DEF TypeOK, Evict, EvictAll, leases, wires
  <2>5. ASSUME NEW p \in Processes, NEW u \in Users, TakeRow(p, u)
        PROVE  TypeOK'
    <3>1. rows' \in [Users -> RowType \cup {NoRow}]
      <4> PICK began \in take[p][u].sent .. now : TakeRow(p, u)!2!(began)
        BY <2>5 DEF TakeRow
      <4>1. [holder |-> p, acquired |-> take[p][u].acquired, expires |-> began + Lease] \in RowType
        BY DEF TypeOK, TakeType, RowType
      <4> QED
        BY <4>1 DEF TypeOK
    <3>2. take' \in [Processes -> [Users -> TakeType]]
      <4>1. \A a \in Answers : [take[p][u] EXCEPT !.answer = a] \in TakeType
        BY TakeUpdates DEF TypeOK
      <4>2. \E a \in Answers : take' = [take EXCEPT ![p][u].answer = a]
        BY <2>5 DEF TakeRow, Answers
      <4> QED
        BY <4>1, <4>2 DEF TypeOK
    <3> QED
      BY <2>5, <3>1, <3>2 DEF TypeOK, Steps, TakeRow, Goto, leases, wires
  <2>6. ASSUME NEW p \in Processes, NEW u \in Users, TakeFails(p, u)
        PROVE  TypeOK'
    BY <2>6, OverType DEF TypeOK, TakeFails, leases, wires
  <2>7. ASSUME NEW p \in Processes, NEW u \in Users, TakeAnswered(p, u)
        PROVE  TypeOK'
    <3>1. [acquired |-> take[p][u].acquired, confirmed |-> take[p][u].sent] \in LeaseType
      BY DEF TypeOK, TakeType, LeaseType
    <3> QED
      BY <2>7, <3>1, TakeUpdates DEF TypeOK, Steps, TakeAnswered, Goto, wires
  <2>8. ASSUME NEW p \in Processes, NEW u \in Users, TakeRefused(p, u)
        PROVE  TypeOK'
    BY <2>8, OverType DEF TypeOK, TakeRefused, leases, wires
  <2>9. ASSUME NEW p \in Processes, NEW u \in Users, Built(p, u)
        PROVE  TypeOK'
    BY <2>9 DEF TypeOK, Steps, Built, Goto, leases, wires
  <2>10. ASSUME NEW p \in Processes, NEW u \in Users, BuildFails(p, u)
        PROVE  TypeOK'
    BY <2>10, ReleaseType DEF TypeOK, BuildFails
  <2>11. ASSUME NEW p \in Processes, NEW u \in Users, Dispose(p, u)
        PROVE  TypeOK'
    BY <2>11, ReleaseType DEF TypeOK, Dispose
  <2>12. ASSUME NEW p \in Processes, NEW u \in Users, ReleaseAnswered(p, u)
        PROVE  TypeOK'
    BY <2>12, OverType DEF TypeOK, ReleaseAnswered, leases, wires
  <2>13. ASSUME NEW p \in Processes, NEW u \in Users, ReleaseUnanswered(p, u)
        PROVE  TypeOK'
    BY <2>13, OverType DEF TypeOK, ReleaseUnanswered, leases, wires
  <2>14. ASSUME NEW p \in Processes, NEW u \in Users, NEW v \in Users, EvictForSeat(p, u, v)
        PROVE  TypeOK'
    <3>1. [take[p][u] EXCEPT !.victim = v] \in TakeType
      BY TakeUpdates DEF TypeOK
    <3>2. evicting' \in [Processes -> [Users -> BOOLEAN]]
      BY <2>14 DEF TypeOK, EvictForSeat, EvictAll
    <3> QED
      BY <2>14, <3>1, <3>2 DEF TypeOK, Steps, EvictForSeat, Goto, leases, wires
  <2>15. ASSUME NEW p \in Processes, Drain(p)
        PROVE  TypeOK'
    BY <2>15 DEF TypeOK, Drain, EvictAll, leases, wires
  <2>16. ASSUME NEW p \in Processes, Renew(p)
        PROVE  TypeOK'
    <3>1. [u \in Users |-> IF held[p][u] = NoLease THEN 0 ELSE held[p][u].acquired] \in [Users -> Nat]
      BY DEF TypeOK, LeaseType
    <3>2. [holder |-> p, at |-> now, done |-> FALSE, kept |-> {},
           sent |-> [u \in Users |-> IF held[p][u] = NoLease THEN 0 ELSE held[p][u].acquired]] \in RenewType
      BY <3>1 DEF TypeOK, RenewType
    <3>3. renews' \in SUBSET RenewType
      BY <2>16, <3>2 DEF TypeOK, Renew
    <3> QED
      BY <2>16, <3>3 DEF TypeOK, Renew, leases, instances
  <2>17. ASSUME NEW p \in Processes, StopStale(p)
        PROVE  TypeOK'
    <3>1. /\ ended' \in [Processes -> [Users -> Nat]]
          /\ evicting' \in [Processes -> [Users -> BOOLEAN]]
          /\ stopBy' \in [Processes -> [Users -> Nat \cup {Never}]]
      BY <2>17 DEF TypeOK, LeaseType, StopStale, Due, Lose, LeaseLost, EvictAll
    <3>2. held' \in [Processes -> [Users -> LeaseType \cup {NoLease}]]
      BY <2>17 DEF TypeOK, StopStale, Lose
    <3> QED
      BY <2>17, <3>1, <3>2 DEF TypeOK, StopStale, wires
  <2>18. ASSUME NEW p \in Processes, Crash(p)
        PROVE  TypeOK'
    <3>1. NoTake \in TakeType
      BY TakeUpdates
    <3> QED
      BY <2>18, <3>1 DEF TypeOK, Steps, Crash, wires
  <2>19. ASSUME NEW m \in renews, RenewRow(m)
        PROVE  TypeOK'
    <3> DEFINE kept == {u \in Users : m.sent[u] # 0 /\ rows[u] # NoRow /\ rows[u].holder = m.holder}
    <3>1. [m EXCEPT !.done = TRUE, !.kept = kept] \in RenewType
      BY DEF TypeOK, RenewType
    <3>2. \A u \in kept : [rows[u] EXCEPT !.expires = now + Lease] \in RowType
      <4>1. now + Lease \in Nat /\ \A u \in kept : rows[u] \in RowType
        BY DEF TypeOK
      <4> QED
        BY <4>1, RowUpdates
    <3>3. rows' \in [Users -> RowType \cup {NoRow}]
      BY <2>19, <3>2 DEF TypeOK, RenewRow
    <3>4. renews' \in SUBSET RenewType
      BY <2>19, <3>1 DEF TypeOK, RenewRow
    <3> QED
      BY <2>19, <3>3, <3>4 DEF TypeOK, RenewRow, leases, instances
  <2>20. ASSUME NEW m \in renews, RenewAnswered(m)
        PROVE  TypeOK'
    <3>1. m.holder \in Processes /\ m.at \in Nat
      BY DEF TypeOK, RenewType
    <3>2. Confirmed(m.holder, m) \in [Users -> LeaseType \cup {NoLease}]
      BY <3>1 DEF TypeOK, Confirmed, Judged, LeaseType
    <3>3. /\ ended' \in [Processes -> [Users -> Nat]]
          /\ evicting' \in [Processes -> [Users -> BOOLEAN]]
          /\ stopBy' \in [Processes -> [Users -> Nat \cup {Never}]]
      BY <2>20, <3>1 DEF TypeOK, LeaseType, RenewAnswered, Judged, Lose, LeaseLost, EvictAll
    <3>4. held' \in [Processes -> [Users -> LeaseType \cup {NoLease}]]
      BY <2>20, <3>1, <3>2 DEF TypeOK, RenewAnswered, Lose
    <3> QED
      BY <2>20, <3>3, <3>4 DEF TypeOK, RenewAnswered
  <2>21. ASSUME NEW m \in renews, RenewFails(m)
        PROVE  TypeOK'
    BY <2>21 DEF TypeOK, RenewFails, leases, instances
  <2>22. ASSUME NEW m \in deletes, DeleteRow(m)
        PROVE  TypeOK'
    BY <2>22 DEF TypeOK, DeleteType, DeleteRow, leases, instances
  <2>23. CASE Tick
    BY <2>23 DEF TypeOK, Tick, leases, instances, wires
  <2>24. CASE UNCHANGED vars
    BY <2>24 DEF TypeOK, vars, leases, instances, wires
  <2> QED
    BY <2>1, <2>2, <2>3, <2>4, <2>5, <2>6, <2>7, <2>8, <2>9, <2>10, <2>11, <2>12, <2>13, <2>14, <2>15, <2>16, <2>17, <2>18, <2>19, <2>20, <2>21, <2>22, <2>23, <2>24 DEF Next, SocketStep, InstanceStep
<1> QED
  BY <1>1, <1>2, PTL DEF Spec

---------------------------------------------------------------------------
(* The steps, by what they do to leases and hosts. *)
hosting == <<now, rows, leases, pc, take, stopBy, wires, opens>>

(* An instance ends; another one of its process may end with it, or take   *)
(* again, if it waited for the seat.                                       *)
EndsAt(p, u) ==
    \/ pc'[p][u] = "none" /\ take'[p][u] = NoTake /\ ~Running(p, u)
    \/ pc[p][u] = "capped" /\ pc'[p][u] = "taking" /\ take'[p][u] = Asking(take[p][u].acquired, now)
    \/ pc'[p][u] = pc[p][u] /\ take'[p][u] = take[p][u]
Ends ==
    /\ \A p \in Processes, u \in Users : EndsAt(p, u)
    /\ UNCHANGED <<now, rows, held, ended, stopBy, renews, deletes, opens>>

(* A host is gone; its lease is given back. *)
SameAt(p, u) == held'[p][u] = held[p][u] /\ ended'[p][u] = ended[p][u] /\ stopBy'[p][u] = stopBy[p][u]
ReleasedAt(p, u) ==
    /\ held'[p][u] = NoLease /\ ended'[p][u] = 0 /\ stopBy'[p][u] = Never
    /\ pc'[p][u] = "releasing" /\ take'[p][u].acquired = Taken(p, u)
Releases(p, u) ==
    /\ Running(p, u) /\ ReleasedAt(p, u)
    /\ \A q \in Processes, v \in Users :
          q # p \/ v # u => SameAt(q, v) /\ pc'[q][v] = pc[q][v] /\ take'[q][v] = take[q][v]
    /\ deletes' = deletes \cup {[user |-> u, holder |-> p, acquired |-> Taken(p, u)]}
    /\ UNCHANGED <<now, rows, renews, opens>>

(* Leases are lost or confirmed. *)
LostAt(p, u) ==
    /\ held[p][u] # NoLease /\ held'[p][u] = NoLease
    /\ ended'[p][u] = held[p][u].acquired
    /\ Running(p, u) => stopBy'[p][u] = now + Quit
    /\ ~Running(p, u) => stopBy'[p][u] = stopBy[p][u]
ConfirmedAt(m, p, u) ==
    /\ m.done /\ m.holder = p /\ u \in m.kept
    /\ held[p][u] # NoLease /\ held[p][u].acquired = m.sent[u] /\ held[p][u].confirmed < m.at
    /\ held'[p][u] # NoLease /\ held'[p][u].acquired = held[p][u].acquired /\ held'[p][u].confirmed = m.at
    /\ ended'[p][u] = ended[p][u] /\ stopBy'[p][u] = stopBy[p][u]
Judges ==
    /\ \A p \in Processes, u \in Users :
          LostAt(p, u) \/ SameAt(p, u) \/ \E m \in renews : ConfirmedAt(m, p, u)
    /\ renews' \subseteq renews
    /\ UNCHANGED <<now, rows, pc, take, deletes, opens>>

(* A refused or failed take and the end of a release only end instances,  *)
(* or let a waiting one take again.                                        *)
LEMMA EndsStep ==
    ASSUME TypeOK, NEW p \in Processes, NEW u \in Users,
           TakeFails(p, u) \/ TakeRefused(p, u) \/ ReleaseAnswered(p, u) \/ ReleaseUnanswered(p, u)
    PROVE  Ends
<1>1. ~Running(p, u) /\ UNCHANGED <<now, rows, held, ended, stopBy, renews, deletes, opens>>
  BY DEF TakeFails, TakeRefused, ReleaseAnswered, ReleaseUnanswered, Running, leases, wires
<1>2. PICK freed \in BOOLEAN : Over(p, u, freed)
  BY DEF TakeFails, TakeRefused, ReleaseAnswered, ReleaseUnanswered
<1>3. ASSUME NEW q \in Processes, NEW v \in Users
      PROVE  EndsAt(q, v)
  <2>1. CASE q = p
    BY <1>1, <1>2, <2>1 DEF Over, WaitsFor, TypeOK, Running, EndsAt
  <2>2. CASE q # p
    BY <1>2, <2>2 DEF Over, TypeOK, EndsAt
  <2> QED
    BY <2>1, <2>2
<1> QED
  BY <1>1, <1>3 DEF Ends

(* A failed build and the end of the quit path give the lease back. *)
LEMMA ReleasesStep ==
    ASSUME TypeOK, NEW p \in Processes, NEW u \in Users, BuildFails(p, u) \/ Dispose(p, u)
    PROVE  Releases(p, u)
<1>1. Running(p, u) /\ Release(p, u) /\ UNCHANGED <<now, rows, renews, opens>>
  BY DEF BuildFails, Dispose, Running
<1>2. ReleasedAt(p, u)
  BY <1>1 DEF Release, ReleasedAt, Goto, TypeOK, TakeType
<1>3. ASSUME NEW q \in Processes, NEW v \in Users, q # p \/ v # u
      PROVE  SameAt(q, v) /\ pc'[q][v] = pc[q][v] /\ take'[q][v] = take[q][v]
  BY <1>1, <1>3 DEF Release, Goto, TypeOK, SameAt
<1> QED
  BY <1>1, <1>2, <1>3 DEF Releases, Release

(* The watchdog loses the stale leases and touches no other. *)
LEMMA StopStaleJudges ==
    ASSUME TypeOK, NEW p \in Processes, StopStale(p)
    PROVE  Judges
<1>1. UNCHANGED <<now, rows, pc, take, renews, deletes, opens>>
  BY DEF StopStale, wires
<1> DEFINE S == {u \in Users : Due(p, u)}
<1>2. Lose(p, S, held[p]) /\ \A u \in S : held[p][u] # NoLease
  BY DEF StopStale, Due
<1>3. ASSUME NEW q \in Processes, NEW v \in Users
      PROVE  LostAt(q, v) \/ SameAt(q, v)
  <2> HIDE DEF S
  <2>1. CASE q = p /\ v \in S
    BY <1>2, <2>1 DEF Lose, LeaseLost, TypeOK, LostAt
  <2>2. CASE q = p /\ v \notin S
    BY <1>2, <2>2 DEF Lose, LeaseLost, TypeOK, SameAt
  <2>3. CASE q # p
    BY <1>2, <2>3 DEF Lose, LeaseLost, TypeOK, SameAt
  <2> QED
    BY <2>1, <2>2, <2>3
<1> QED
  BY <1>1, <1>3 DEF Judges

(* An answered renewal confirms or loses only the leases it was sent for. *)
LEMMA RenewAnsweredJudges ==
    ASSUME TypeOK, NEW m \in renews, RenewAnswered(m)
    PROVE  Judges
<1>1. renews' \subseteq renews /\ UNCHANGED <<now, rows, pc, take, deletes, opens>>
  BY DEF RenewAnswered
<1>2. m.holder \in Processes /\ m.at \in Nat /\ m.done
  BY DEF TypeOK, RenewType, RenewAnswered
<1> DEFINE p == m.holder
           S == Judged(p, m) \ m.kept
<1>3. S \in SUBSET Users /\ Lose(p, S, Confirmed(p, m)) /\ \A u \in S : held[p][u] # NoLease
  BY DEF RenewAnswered, Judged
<1>4. ASSUME NEW v \in Users, held'[p][v] = Confirmed(p, m)[v], ended'[p][v] = ended[p][v],
             stopBy'[p][v] = stopBy[p][v]
      PROVE  SameAt(p, v) \/ ConfirmedAt(m, p, v)
  <2>1. CASE v \in Judged(p, m) /\ v \in m.kept /\ held[p][v].confirmed < m.at
    <3>1. held[p][v] \in LeaseType /\ held[p][v].acquired = m.sent[v] /\ held[p][v] # NoLease
      BY <1>2, <2>1 DEF Judged, TypeOK
    <3>2. held'[p][v] = [held[p][v] EXCEPT !.confirmed = m.at]
      BY <1>4, <2>1 DEF Confirmed
    <3>3. held'[p][v] = [acquired |-> held[p][v].acquired, confirmed |-> m.at]
      BY <3>1, <3>2 DEF LeaseType
    <3>4. held'[p][v] # NoLease
      BY <1>2, <3>1, <3>3, AbsentAssumption DEF LeaseType
    <3> QED
      BY <1>2, <1>4, <2>1, <3>1, <3>3, <3>4 DEF ConfirmedAt
  <2>2. CASE ~(v \in Judged(p, m) /\ v \in m.kept /\ held[p][v].confirmed < m.at)
    BY <1>4, <2>2 DEF Confirmed, SameAt
  <2> QED
    BY <2>1, <2>2
<1>5. ASSUME NEW q \in Processes, NEW v \in Users
      PROVE  LostAt(q, v) \/ SameAt(q, v) \/ ConfirmedAt(m, q, v)
  <2> HIDE DEF S
  <2>1. CASE q = p /\ v \in S
    BY <1>2, <1>3, <2>1 DEF Lose, LeaseLost, TypeOK, LostAt
  <2>2. CASE q = p /\ v \notin S
    BY <1>2, <1>3, <1>4, <2>2 DEF Lose, LeaseLost, TypeOK
  <2>3. CASE q # p
    BY <1>2, <1>3, <2>3 DEF Lose, LeaseLost, TypeOK, SameAt
  <2> QED
    BY <2>1, <2>2, <2>3
<1> QED
  BY <1>1, <1>5 DEF Judges

(* Every step is of one of these kinds. *)
LEMMA StepKinds ==
    ASSUME TypeOK, [Next]_vars
    PROVE  \/ UNCHANGED hosting
           \/ \E p \in Processes, u \in Users :
                 \/ Open(p, u) \/ TakeRow(p, u) \/ TakeAnswered(p, u) \/ Built(p, u) \/ Releases(p, u)
                 \/ \E v \in Users : EvictForSeat(p, u, v)
           \/ Ends
           \/ Judges
           \/ \E p \in Processes : Renew(p) \/ Crash(p)
           \/ \E m \in renews : RenewRow(m)
           \/ \E m \in deletes : DeleteRow(m)
           \/ Tick
<1>1. ASSUME NEW p \in Processes, NEW u \in Users, Join(p, u) \/ LastSocketGone(p, u) \/ Evict(p, u)
      PROVE  UNCHANGED hosting
  BY <1>1 DEF Join, LastSocketGone, Evict, hosting
<1>2. ASSUME NEW p \in Processes, Drain(p)
      PROVE  UNCHANGED hosting
  BY <1>2 DEF Drain, hosting
<1>3. CASE UNCHANGED vars
  BY <1>3 DEF vars, instances, hosting
<1>4. ASSUME NEW m \in renews, RenewFails(m)
      PROVE  Judges
  BY <1>4 DEF RenewFails, Judges, SameAt, leases, instances
<1> QED
  BY <1>1, <1>2, <1>3, <1>4, EndsStep, ReleasesStep, StopStaleJudges, RenewAnsweredJudges
  DEF Next, SocketStep, InstanceStep

---------------------------------------------------------------------------
(* The inductive invariant is kept by every step. *)

(* Only hosts hold leases, and what was sent for an earlier take has an older token. *)
LEMMA TokenStep ==
    ASSUME TypeOK, TypeOK', HeldRuns, TokenInv, [Next]_vars
    PROVE  HeldRuns' /\ TokenInv'
<1> TokensKnown /\ DeletesOld /\ RenewsOld
  BY DEF TokenInv
<1>1. CASE UNCHANGED hosting
  BY <1>1 DEF TypeOK, TakeType, LeaseType, HeldRuns, HeldRunsAt, Running, hosting, leases, wires,
     TokensKnown, TokensAt, Waiting, DeletesOld, DeleteOld, Taken, DeleteType, RenewsOld, RenewOld,
     RenewType, TokenInv
<1>2. ASSUME NEW p \in Processes, NEW u \in Users, Open(p, u)
      PROVE  HeldRuns' /\ TokenInv'
  <2>1. /\ UNCHANGED <<held, ended, deletes, renews>>
        /\ opens \in Nat /\ opens' = opens + 1
        /\ pc[p][u] = "none" /\ pc' = [pc EXCEPT ![p][u] = "taking"]
        /\ take' = [take EXCEPT ![p][u] = Asking(opens + 1, now)]
    BY <1>2 DEF TypeOK, Open, Goto, leases, wires
  <2>2. /\ pc'[p][u] = "taking" /\ take'[p][u].acquired = opens + 1
        /\ \A q \in Processes, v \in Users :
              q # p \/ v # u => pc'[q][v] = pc[q][v] /\ take'[q][v] = take[q][v]
    BY <2>1 DEF TypeOK, TakeType, Asking
  <2>3. HeldRuns'
    BY <2>1, <2>2 DEF HeldRuns, HeldRunsAt, Running
  <2>4. TokensKnown'
    <3> SUFFICES ASSUME NEW q \in Processes, NEW v \in Users
                 PROVE  TokensAt(q, v)'
      BY DEF TokensKnown
    <3>1. /\ TokensAt(q, v) /\ take[q][v].acquired \in Nat /\ ended[q][v] \in Nat
          /\ held[q][v] # NoLease => held[q][v].acquired \in Nat
      BY DEF TokensKnown, TypeOK, TakeType, LeaseType
    <3> QED
      BY <2>1, <2>2, <3>1 DEF TokensAt, Waiting
  <2>5. DeletesOld'
    <3> SUFFICES ASSUME NEW m \in deletes
                 PROVE  DeleteOld(m)'
      BY <2>1 DEF DeletesOld
    <3>1. DeleteOld(m) /\ m.holder \in Processes /\ m.user \in Users /\ m.acquired \in Nat
      BY DEF DeletesOld, TypeOK, DeleteType
    <3> QED
      BY <2>1, <2>2, <3>1 DEF DeleteOld, Waiting, Running, Taken
  <2>6. RenewsOld'
    <3> SUFFICES ASSUME NEW m \in renews, NEW v \in Users
                 PROVE  RenewOld(m, v)'
      BY <2>1 DEF RenewsOld
    <3>1. RenewOld(m, v) /\ m.holder \in Processes /\ m.sent[v] \in Nat
      BY DEF RenewsOld, TypeOK, RenewType
    <3> QED
      BY <2>1, <2>2, <3>1 DEF RenewOld, Waiting
  <2> QED
    BY <2>3, <2>4, <2>5, <2>6 DEF TokenInv
<1>3. ASSUME NEW p \in Processes, NEW u \in Users, TakeRow(p, u)
      PROVE  HeldRuns' /\ TokenInv'
  <2>1. UNCHANGED <<held, ended, opens, deletes, renews>>
    BY <1>3 DEF TakeRow, leases, wires
  <2>2. ASSUME NEW q \in Processes, NEW v \in Users
        PROVE  /\ Running(q, v)' = Running(q, v)
               /\ Waiting(q, v)' = Waiting(q, v)
               /\ take'[q][v].acquired = take[q][v].acquired
    <3>1. /\ pc[p][u] = "taking"
          /\ pc' = [pc EXCEPT ![p][u] = "took"]
          /\ \E answer \in {"held", "cap", "ok"} : take' = [take EXCEPT ![p][u].answer = answer]
      BY <1>3 DEF TakeRow, Goto
    <3> QED
      BY <3>1 DEF TypeOK, TakeType, Running, Waiting
  <2>3. HeldRuns'
    BY <2>1, <2>2 DEF HeldRuns, HeldRunsAt
  <2>4. TokensKnown'
    BY <2>1, <2>2 DEF TokensKnown, TokensAt
  <2>5. DeletesOld'
    BY <2>1, <2>2 DEF TypeOK, DeleteType, DeletesOld, DeleteOld, Taken
  <2>6. RenewsOld'
    BY <2>1, <2>2 DEF TypeOK, RenewType, RenewsOld, RenewOld
  <2> QED
    BY <2>3, <2>4, <2>5, <2>6 DEF TokenInv
<1>4. ASSUME NEW p \in Processes, NEW u \in Users, TakeAnswered(p, u)
      PROVE  HeldRuns' /\ TokenInv'
  <2>1. /\ UNCHANGED <<opens, deletes, renews>>
        /\ pc[p][u] = "took" /\ pc' = [pc EXCEPT ![p][u] = "building"]
        /\ held' = [held EXCEPT ![p][u] = [acquired |-> take[p][u].acquired, confirmed |-> take[p][u].sent]]
        /\ ended' = [ended EXCEPT ![p][u] = 0]
        /\ take' = [take EXCEPT ![p][u] = NoTake]
    BY <1>4 DEF TakeAnswered, Goto, wires
  <2>2. ASSUME NEW q \in Processes, NEW v \in Users, q # p \/ v # u
        PROVE  /\ pc'[q][v] = pc[q][v] /\ held'[q][v] = held[q][v]
               /\ ended'[q][v] = ended[q][v] /\ take'[q][v] = take[q][v]
    BY <2>1, <2>2 DEF TypeOK
  <2>3. /\ pc'[p][u] = "building" /\ held'[p][u] # NoLease
        /\ held'[p][u].acquired = take[p][u].acquired
        /\ ended'[p][u] = 0 /\ take'[p][u].acquired = 0
        /\ take[p][u].acquired \in Nat /\ opens \in Nat
    BY <2>1, AbsentAssumption DEF TypeOK, TakeType, LeaseType, NoTake, Asking
  <2>4. HeldRuns'
    BY <2>2, <2>3 DEF HeldRuns, HeldRunsAt, Running
  <2>5. TokensKnown'
    BY <2>1, <2>2, <2>3 DEF TokensKnown, TokensAt, Waiting
  <2>6. DeletesOld'
    <3> SUFFICES ASSUME NEW m \in deletes
                 PROVE  DeleteOld(m)'
      BY <2>1 DEF DeletesOld
    <3>1. DeleteOld(m) /\ m.holder \in Processes /\ m.user \in Users
      BY DEF DeletesOld, TypeOK, DeleteType
    <3>2. CASE m.holder = p /\ m.user = u
      BY <2>1, <2>3, <3>1, <3>2 DEF DeleteOld, Waiting, Running, Taken
    <3>3. CASE m.holder # p \/ m.user # u
      BY <2>1, <2>2, <3>1, <3>3 DEF DeleteOld, Waiting, Running, Taken
    <3> QED
      BY <3>2, <3>3
  <2>7. RenewsOld'
    BY <2>1, <2>2, <2>3 DEF TypeOK, RenewType, RenewsOld, RenewOld, Waiting
  <2> QED
    BY <2>4, <2>5, <2>6, <2>7 DEF TokenInv
<1>5. ASSUME NEW p \in Processes, NEW u \in Users, Built(p, u)
      PROVE  HeldRuns' /\ TokenInv'
  BY <1>5 DEF TypeOK, TakeType, LeaseType, HeldRuns, HeldRunsAt, Running, Built, Goto, leases,
     wires, TokensKnown, TokensAt, Waiting, DeletesOld, DeleteOld, Taken, DeleteType, RenewsOld,
     RenewOld, RenewType, TokenInv
<1>6. ASSUME NEW p \in Processes, NEW u \in Users, Releases(p, u)
      PROVE  HeldRuns' /\ TokenInv'
  <2>1. HeldRuns'
    <3> SUFFICES ASSUME NEW q \in Processes, NEW v \in Users
                 PROVE  HeldRunsAt(q, v)'
      BY DEF HeldRuns
    <3>1. HeldRunsAt(q, v)
      BY DEF HeldRuns
    <3>2. /\ q = p /\ v = u => Running(q, v) /\ ReleasedAt(q, v)
          /\ q # p \/ v # u => SameAt(q, v) /\ pc'[q][v] = pc[q][v] /\ take'[q][v] = take[q][v]
          /\ UNCHANGED <<now, rows, opens>>
      BY <1>6 DEF Releases
    <3>3. /\ now \in Nat /\ opens \in Nat /\ ended[q][v] \in Nat /\ stopBy[q][v] \in Nat \cup {Never}
          /\ take[q][v].acquired \in Nat /\ take[q][v].sent \in Nat
          /\ held[q][v] # NoLease => held[q][v].acquired \in Nat /\ held[q][v].confirmed \in Nat
      BY DEF TypeOK, TakeType, LeaseType
    <3> QED
      BY <3>1, <3>2, <3>3 DEF HeldRunsAt, Running, ReleasedAt, SameAt
  <2>2. TokensKnown'
    <3> SUFFICES ASSUME NEW q \in Processes, NEW v \in Users
                 PROVE  TokensAt(q, v)'
      BY DEF TokensKnown
    <3>1. TokensAt(q, v)
      BY DEF TokensKnown
    <3>2. /\ q = p /\ v = u => Running(q, v) /\ ReleasedAt(q, v)
          /\ q # p \/ v # u => SameAt(q, v) /\ pc'[q][v] = pc[q][v] /\ take'[q][v] = take[q][v]
          /\ UNCHANGED <<now, rows, opens>>
      BY <1>6 DEF Releases
    <3>3. /\ now \in Nat /\ opens \in Nat /\ ended[q][v] \in Nat /\ stopBy[q][v] \in Nat \cup {Never}
          /\ take[q][v].acquired \in Nat /\ take[q][v].sent \in Nat
          /\ held[q][v] # NoLease => held[q][v].acquired \in Nat /\ held[q][v].confirmed \in Nat
      BY DEF TypeOK, TakeType, LeaseType
    <3> QED
      BY <3>1, <3>2, <3>3 DEF TokensAt, Waiting, Running, Taken, ReleasedAt, SameAt
  <2>3. RenewsOld'
    <3> SUFFICES ASSUME NEW m \in renews, NEW v \in Users
                 PROVE  RenewOld(m, v)'
      BY <1>6 DEF RenewsOld, Releases
    <3>1. RenewOld(m, v)
      BY DEF RenewsOld
    <3> m.holder \in Processes /\ m.sent[v] \in Nat
      BY DEF TypeOK, RenewType
    <3>2. /\ m.holder = p /\ v = u => Running(m.holder, v) /\ ReleasedAt(m.holder, v)
          /\ m.holder # p \/ v # u => SameAt(m.holder, v) /\ pc'[m.holder][v] = pc[m.holder][v] /\ take'[m.holder][v] = take[m.holder][v]
          /\ UNCHANGED <<now, rows, opens>>
      BY <1>6 DEF Releases
    <3>3. /\ now \in Nat /\ opens \in Nat /\ ended[m.holder][v] \in Nat /\ stopBy[m.holder][v] \in Nat \cup {Never}
          /\ take[m.holder][v].acquired \in Nat /\ take[m.holder][v].sent \in Nat
          /\ held[m.holder][v] # NoLease => held[m.holder][v].acquired \in Nat /\ held[m.holder][v].confirmed \in Nat
      BY DEF TypeOK, TakeType, LeaseType
    <3> QED
      BY <3>1, <3>2, <3>3 DEF RenewOld, Waiting, Running, ReleasedAt, SameAt
  <2>4. DeletesOld'
    BY <1>6 DEF TypeOK, TakeType, LeaseType, DeletesOld, DeleteOld, Waiting, Running, Taken,
       DeleteType, Releases, ReleasedAt, SameAt, TokensKnown, TokensAt
  <2> QED
    BY <2>1, <2>2, <2>3, <2>4 DEF TokenInv
<1>7. ASSUME NEW p \in Processes, NEW u \in Users, NEW w \in Users, EvictForSeat(p, u, w)
      PROVE  HeldRuns' /\ TokenInv'
  <2>1. UNCHANGED <<held, ended, opens, deletes, renews>>
    BY <1>7 DEF EvictForSeat, leases, wires
  <2>2. ASSUME NEW q \in Processes, NEW v \in Users
        PROVE  /\ Running(q, v)' = Running(q, v)
               /\ Waiting(q, v)' = Waiting(q, v)
               /\ take'[q][v].acquired = take[q][v].acquired
    <3>1. /\ pc[p][u] = "took"
          /\ pc' = [pc EXCEPT ![p][u] = "capped"]
          /\ \E victim \in Users : take' = [take EXCEPT ![p][u].victim = victim]
      BY <1>7 DEF EvictForSeat, Goto
    <3> QED
      BY <3>1 DEF TypeOK, TakeType, Running, Waiting
  <2>3. HeldRuns'
    BY <2>1, <2>2 DEF HeldRuns, HeldRunsAt
  <2>4. TokensKnown'
    BY <2>1, <2>2 DEF TokensKnown, TokensAt
  <2>5. DeletesOld'
    BY <2>1, <2>2 DEF TypeOK, DeleteType, DeletesOld, DeleteOld, Taken
  <2>6. RenewsOld'
    BY <2>1, <2>2 DEF TypeOK, RenewType, RenewsOld, RenewOld
  <2> QED
    BY <2>3, <2>4, <2>5, <2>6 DEF TokenInv
<1>8. CASE Ends
  <2>1. HeldRuns'
    <3> SUFFICES ASSUME NEW q \in Processes, NEW v \in Users
                 PROVE  HeldRunsAt(q, v)'
      BY DEF HeldRuns
    <3>1. HeldRunsAt(q, v)
      BY DEF HeldRuns
    <3>2. EndsAt(q, v) /\ UNCHANGED <<now, rows, held, ended, stopBy, opens>>
      BY <1>8 DEF Ends
    <3>3. /\ now \in Nat /\ opens \in Nat /\ ended[q][v] \in Nat /\ stopBy[q][v] \in Nat \cup {Never}
          /\ take[q][v].acquired \in Nat /\ take[q][v].sent \in Nat
          /\ held[q][v] # NoLease => held[q][v].acquired \in Nat /\ held[q][v].confirmed \in Nat
      BY DEF TypeOK, TakeType, LeaseType
    <3> QED
      BY <3>1, <3>2, <3>3 DEF HeldRunsAt, Running, EndsAt, Asking, NoTake
  <2>2. TokensKnown'
    <3> SUFFICES ASSUME NEW q \in Processes, NEW v \in Users
                 PROVE  TokensAt(q, v)'
      BY DEF TokensKnown
    <3>1. TokensAt(q, v)
      BY DEF TokensKnown
    <3>2. EndsAt(q, v) /\ UNCHANGED <<now, rows, held, ended, stopBy, opens>>
      BY <1>8 DEF Ends
    <3>3. /\ now \in Nat /\ opens \in Nat /\ ended[q][v] \in Nat /\ stopBy[q][v] \in Nat \cup {Never}
          /\ take[q][v].acquired \in Nat /\ take[q][v].sent \in Nat
          /\ held[q][v] # NoLease => held[q][v].acquired \in Nat /\ held[q][v].confirmed \in Nat
      BY DEF TypeOK, TakeType, LeaseType
    <3> QED
      BY <3>1, <3>2, <3>3 DEF TokensAt, Waiting, EndsAt, Asking, NoTake
  <2>3. DeletesOld'
    <3> SUFFICES ASSUME NEW d \in deletes
                 PROVE  DeleteOld(d)'
      BY <1>8 DEF DeletesOld, Ends
    <3>1. DeleteOld(d)
      BY DEF DeletesOld
    <3> d.holder \in Processes /\ d.user \in Users /\ d.acquired \in Nat
      BY DEF TypeOK, DeleteType
    <3>2. EndsAt(d.holder, d.user) /\ UNCHANGED <<now, rows, held, ended, stopBy, opens>>
      BY <1>8 DEF Ends
    <3>3. /\ now \in Nat /\ opens \in Nat /\ ended[d.holder][d.user] \in Nat /\ stopBy[d.holder][d.user] \in Nat \cup {Never}
          /\ take[d.holder][d.user].acquired \in Nat /\ take[d.holder][d.user].sent \in Nat
          /\ held[d.holder][d.user] # NoLease => held[d.holder][d.user].acquired \in Nat /\ held[d.holder][d.user].confirmed \in Nat
      BY DEF TypeOK, TakeType, LeaseType
    <3>4. HeldRunsAt(d.holder, d.user)
      BY DEF HeldRuns
    <3> QED
      BY <3>1, <3>2, <3>3, <3>4, AbsentAssumption DEF DeleteOld, HeldRunsAt, Waiting, Running, Taken, LeaseType, EndsAt, Asking, NoTake
  <2>4. RenewsOld'
    <3> SUFFICES ASSUME NEW m \in renews, NEW v \in Users
                 PROVE  RenewOld(m, v)'
      BY <1>8 DEF RenewsOld, Ends
    <3>1. RenewOld(m, v)
      BY DEF RenewsOld
    <3> m.holder \in Processes /\ m.sent[v] \in Nat
      BY DEF TypeOK, RenewType
    <3>2. EndsAt(m.holder, v) /\ UNCHANGED <<now, rows, held, ended, stopBy, opens>>
      BY <1>8 DEF Ends
    <3>3. /\ now \in Nat /\ opens \in Nat /\ ended[m.holder][v] \in Nat /\ stopBy[m.holder][v] \in Nat \cup {Never}
          /\ take[m.holder][v].acquired \in Nat /\ take[m.holder][v].sent \in Nat
          /\ held[m.holder][v] # NoLease => held[m.holder][v].acquired \in Nat /\ held[m.holder][v].confirmed \in Nat
      BY DEF TypeOK, TakeType, LeaseType
    <3> QED
      BY <3>1, <3>2, <3>3 DEF RenewOld, Waiting, Running, EndsAt, Asking, NoTake
  <2> QED
    BY <2>1, <2>2, <2>3, <2>4 DEF TokenInv
<1>9. CASE Judges
  <2>1. HeldRuns'
    <3> SUFFICES ASSUME NEW q \in Processes, NEW v \in Users
                 PROVE  HeldRunsAt(q, v)'
      BY DEF HeldRuns
    <3>1. HeldRunsAt(q, v)
      BY DEF HeldRuns
    <3>2. /\ LostAt(q, v) \/ SameAt(q, v) \/ \E m \in renews : ConfirmedAt(m, q, v)
          /\ UNCHANGED <<now, rows, pc, take, opens>>
      BY <1>9 DEF Judges
    <3>3. /\ now \in Nat /\ opens \in Nat /\ ended[q][v] \in Nat /\ stopBy[q][v] \in Nat \cup {Never}
          /\ take[q][v].acquired \in Nat /\ take[q][v].sent \in Nat
          /\ held[q][v] # NoLease => held[q][v].acquired \in Nat /\ held[q][v].confirmed \in Nat
      BY DEF TypeOK, TakeType, LeaseType
    <3>4. CASE LostAt(q, v)
      BY <3>1, <3>2, <3>3, <3>4 DEF HeldRunsAt, Running, LostAt
    <3>5. CASE SameAt(q, v)
      BY <3>1, <3>2, <3>3, <3>5 DEF HeldRunsAt, Running, SameAt
    <3>6. ASSUME NEW m \in renews, ConfirmedAt(m, q, v)
          PROVE  HeldRunsAt(q, v)'
      BY <3>1, <3>2, <3>3, <3>6 DEF HeldRunsAt, Running, ConfirmedAt
    <3> QED
      BY <3>2, <3>4, <3>5, <3>6
  <2>2. TokensKnown'
    <3> SUFFICES ASSUME NEW q \in Processes, NEW v \in Users
                 PROVE  TokensAt(q, v)'
      BY DEF TokensKnown
    <3>1. TokensAt(q, v)
      BY DEF TokensKnown
    <3>2. /\ LostAt(q, v) \/ SameAt(q, v) \/ \E m \in renews : ConfirmedAt(m, q, v)
          /\ UNCHANGED <<now, rows, pc, take, opens>>
      BY <1>9 DEF Judges
    <3>3. /\ now \in Nat /\ opens \in Nat /\ ended[q][v] \in Nat /\ stopBy[q][v] \in Nat \cup {Never}
          /\ take[q][v].acquired \in Nat /\ take[q][v].sent \in Nat
          /\ held[q][v] # NoLease => held[q][v].acquired \in Nat /\ held[q][v].confirmed \in Nat
      BY DEF TypeOK, TakeType, LeaseType
    <3>4. CASE LostAt(q, v)
      BY <3>1, <3>2, <3>3, <3>4 DEF TokensAt, Waiting, LostAt
    <3>5. CASE SameAt(q, v)
      BY <3>1, <3>2, <3>3, <3>5 DEF TokensAt, Waiting, SameAt
    <3>6. ASSUME NEW m \in renews, ConfirmedAt(m, q, v)
          PROVE  TokensAt(q, v)'
      BY <3>1, <3>2, <3>3, <3>6 DEF TokensAt, Waiting, ConfirmedAt
    <3> QED
      BY <3>2, <3>4, <3>5, <3>6
  <2>3. DeletesOld'
    <3> SUFFICES ASSUME NEW d \in deletes
                 PROVE  DeleteOld(d)'
      BY <1>9 DEF DeletesOld, Judges
    <3>1. DeleteOld(d)
      BY DEF DeletesOld
    <3> d.holder \in Processes /\ d.user \in Users /\ d.acquired \in Nat
      BY DEF TypeOK, DeleteType
    <3>2. /\ LostAt(d.holder, d.user) \/ SameAt(d.holder, d.user) \/ \E m \in renews : ConfirmedAt(m, d.holder, d.user)
          /\ UNCHANGED <<now, rows, pc, take, opens>>
      BY <1>9 DEF Judges
    <3>3. /\ now \in Nat /\ opens \in Nat /\ ended[d.holder][d.user] \in Nat /\ stopBy[d.holder][d.user] \in Nat \cup {Never}
          /\ take[d.holder][d.user].acquired \in Nat /\ take[d.holder][d.user].sent \in Nat
          /\ held[d.holder][d.user] # NoLease => held[d.holder][d.user].acquired \in Nat /\ held[d.holder][d.user].confirmed \in Nat
      BY DEF TypeOK, TakeType, LeaseType
    <3>4. HeldRunsAt(d.holder, d.user)
      BY DEF HeldRuns
    <3>5. CASE LostAt(d.holder, d.user)
      BY <3>1, <3>2, <3>3, <3>4, <3>5 DEF DeleteOld, HeldRunsAt, Waiting, Running, Taken, LostAt
    <3>6. CASE SameAt(d.holder, d.user)
      BY <3>1, <3>2, <3>3, <3>4, <3>6 DEF DeleteOld, HeldRunsAt, Waiting, Running, Taken, SameAt
    <3>7. ASSUME NEW m \in renews, ConfirmedAt(m, d.holder, d.user)
          PROVE  DeleteOld(d)'
      BY <3>1, <3>2, <3>3, <3>4, <3>7 DEF DeleteOld, HeldRunsAt, Waiting, Running, Taken, ConfirmedAt
    <3> QED
      BY <3>2, <3>5, <3>6, <3>7
  <2>4. RenewsOld'
    <3> SUFFICES ASSUME NEW m \in renews, NEW v \in Users
                 PROVE  RenewOld(m, v)'
      BY <1>9 DEF RenewsOld, Judges
    <3>1. RenewOld(m, v)
      BY DEF RenewsOld
    <3> m.holder \in Processes /\ m.sent[v] \in Nat
      BY DEF TypeOK, RenewType
    <3>2. /\ LostAt(m.holder, v) \/ SameAt(m.holder, v) \/ \E n \in renews : ConfirmedAt(n, m.holder, v)
          /\ UNCHANGED <<now, rows, pc, take, opens>>
      BY <1>9 DEF Judges
    <3>3. /\ now \in Nat /\ opens \in Nat /\ ended[m.holder][v] \in Nat /\ stopBy[m.holder][v] \in Nat \cup {Never}
          /\ take[m.holder][v].acquired \in Nat /\ take[m.holder][v].sent \in Nat
          /\ held[m.holder][v] # NoLease => held[m.holder][v].acquired \in Nat /\ held[m.holder][v].confirmed \in Nat
      BY DEF TypeOK, TakeType, LeaseType
    <3> QED
      BY <3>1, <3>2, <3>3 DEF RenewOld, Waiting, Running, LostAt, SameAt, ConfirmedAt
  <2> QED
    BY <2>1, <2>2, <2>3, <2>4 DEF TokenInv
<1>10. ASSUME NEW p \in Processes, Renew(p)
       PROVE  HeldRuns' /\ TokenInv'
  <2>1. RenewsOld'
    <3> SUFFICES ASSUME NEW m \in renews', NEW v \in Users
                 PROVE  RenewOld(m, v)'
      BY DEF RenewsOld
    <3>1. CASE m \in renews
      BY <1>10, <3>1 DEF RenewsOld, RenewOld, Waiting, Renew, instances
    <3>2. CASE m \notin renews
      <4>1. m.holder = p /\ m.sent[v] = IF held[p][v] = NoLease THEN 0 ELSE held[p][v].acquired
        BY <1>10, <3>2 DEF Renew
      <4>2. TokensAt(p, v) /\ HeldRunsAt(p, v)
        BY DEF TokensKnown, HeldRuns
      <4>3. opens \in Nat /\ UNCHANGED <<pc, take, opens>>
        BY <1>10 DEF TypeOK, Renew, instances
      <4> QED
        BY <4>1, <4>2, <4>3 DEF TokensAt, HeldRunsAt, RenewOld, Waiting, Running
    <3> QED
      BY <3>1, <3>2
  <2>2. HeldRuns' /\ TokensKnown' /\ DeletesOld'
    BY <1>10 DEF TypeOK, TakeType, LeaseType, HeldRuns, HeldRunsAt, Running, Renew, leases,
       instances, TokensKnown, TokensAt, Waiting, DeletesOld, DeleteOld, Taken, DeleteType
  <2> QED
    BY <2>1, <2>2 DEF TokenInv
<1>11. ASSUME NEW p \in Processes, Crash(p)
       PROVE  HeldRuns' /\ TokenInv'
  <2>1. /\ opens \in Nat /\ opens' = opens
        /\ deletes' \subseteq deletes /\ renews' \subseteq renews
    BY <1>11 DEF TypeOK, Crash, wires
  <2>2. ASSUME NEW v \in Users
        PROVE  /\ pc'[p][v] = "none" /\ held'[p][v] = NoLease
               /\ ended'[p][v] = 0 /\ take'[p][v].acquired = 0
    BY <1>11 DEF TypeOK, Crash, NoTake, Asking
  <2>3. ASSUME NEW q \in Processes, NEW v \in Users, q # p
        PROVE  /\ pc'[q][v] = pc[q][v] /\ held'[q][v] = held[q][v]
               /\ ended'[q][v] = ended[q][v] /\ take'[q][v] = take[q][v]
    BY <1>11, <2>3 DEF TypeOK, Crash
  <2>4. HeldRuns'
    BY <2>2, <2>3 DEF HeldRuns, HeldRunsAt, Running
  <2>5. TokensKnown'
    BY <2>1, <2>2, <2>3 DEF TokensKnown, TokensAt, Waiting
  <2>6. DeletesOld'
    <3> SUFFICES ASSUME NEW m \in deletes, m \in deletes'
                 PROVE  DeleteOld(m)'
      BY <2>1 DEF DeletesOld
    <3>1. DeleteOld(m) /\ m.holder \in Processes /\ m.user \in Users
      BY DEF DeletesOld, TypeOK, DeleteType
    <3>2. CASE m.holder = p
      BY <2>1, <2>2, <3>1, <3>2 DEF DeleteOld, Waiting, Running
    <3>3. CASE m.holder # p
      BY <2>1, <2>3, <3>1, <3>3 DEF DeleteOld, Waiting, Running, Taken
    <3> QED
      BY <3>2, <3>3
  <2>7. RenewsOld'
    <3> SUFFICES ASSUME NEW m \in renews, NEW v \in Users
                 PROVE  RenewOld(m, v)'
      BY <2>1 DEF RenewsOld
    <3>1. RenewOld(m, v) /\ m.holder \in Processes
      BY DEF RenewsOld, TypeOK, RenewType
    <3> QED
      BY <2>1, <2>2, <2>3, <3>1 DEF RenewOld, Waiting
  <2> QED
    BY <2>4, <2>5, <2>6, <2>7 DEF TokenInv
<1>12. ASSUME NEW m \in renews, RenewRow(m)
       PROVE  HeldRuns' /\ TokenInv'
  BY <1>12 DEF TypeOK, TakeType, LeaseType, HeldRuns, HeldRunsAt, Running, RenewRow, leases,
     instances, TokensKnown, TokensAt, Waiting, DeletesOld, DeleteOld, Taken, DeleteType, RenewsOld,
     RenewOld, RenewType, TokenInv
<1>13. ASSUME NEW m \in deletes, DeleteRow(m)
       PROVE  HeldRuns' /\ TokenInv'
  BY <1>13 DEF TypeOK, TakeType, LeaseType, HeldRuns, HeldRunsAt, Running, DeleteRow, leases,
     instances, TokensKnown, TokensAt, Waiting, DeletesOld, DeleteOld, Taken, DeleteType, RenewsOld,
     RenewOld, RenewType, TokenInv
<1>14. CASE Tick
  BY <1>14 DEF TypeOK, TakeType, LeaseType, HeldRuns, HeldRunsAt, Running, Tick, leases, instances,
     wires, TokensKnown, TokensAt, Waiting, DeletesOld, DeleteOld, Taken, DeleteType, RenewsOld,
     RenewOld, RenewType, TokenInv
<1> QED
  BY <1>1, <1>2, <1>3, <1>4, <1>5, <1>6, <1>7, <1>8, <1>9, <1>10, <1>11, <1>12, <1>13, <1>14, StepKinds

(* The clock never outruns a take, a lease or a quit path. *)
LEMMA TimeStep ==
    ASSUME InTime, TypeOK, TypeOK', HeldRuns, TimeInv, [Next]_vars
    PROVE  TimeInv'
<1> USE TimesAssumption
<1> TakesInTime /\ LeasesInTime /\ StopsInTime /\ RenewsInTime
  BY DEF TimeInv
<1>1. CASE UNCHANGED hosting
  BY <1>1 DEF TypeOK, TakeType, LeaseType, TakesInTime, TakeInTime, Asked, hosting, leases, wires,
     LeasesInTime, LeaseInTime, StopsInTime, StopInTime, Lost, Running, RenewType, RenewsInTime,
     TimeInv
<1>2. ASSUME NEW p \in Processes, NEW u \in Users, Open(p, u)
      PROVE  TimeInv'
  BY <1>2 DEF TypeOK, TakeType, LeaseType, TakesInTime, TakeInTime, Asked, Open, Goto, Asking,
     leases, wires, LeasesInTime, LeaseInTime, StopsInTime, StopInTime, Lost, Running, RenewType,
     RenewsInTime, TimeInv
<1>3. ASSUME NEW p \in Processes, NEW u \in Users, TakeRow(p, u)
      PROVE  TimeInv'
  <2>1. UNCHANGED <<now, held, stopBy, renews>>
    BY <1>3 DEF TakeRow, leases, wires
  <2>2. ASSUME NEW q \in Processes, NEW v \in Users
        PROVE  /\ Running(q, v)' = Running(q, v)
               /\ Asked(q, v)' = Asked(q, v)
               /\ take'[q][v].sent = take[q][v].sent
    <3>1. /\ pc[p][u] = "taking"
          /\ pc' = [pc EXCEPT ![p][u] = "took"]
          /\ \E answer \in {"held", "cap", "ok"} : take' = [take EXCEPT ![p][u].answer = answer]
      BY <1>3 DEF TakeRow, Goto
    <3> QED
      BY <3>1 DEF TypeOK, TakeType, Running, Asked
  <2>3. TakesInTime'
    BY <2>1, <2>2 DEF TakesInTime, TakeInTime
  <2>4. LeasesInTime' /\ RenewsInTime'
    BY <2>1 DEF LeasesInTime, LeaseInTime, RenewsInTime
  <2>5. StopsInTime'
    BY <2>1, <2>2 DEF StopsInTime, StopInTime, Lost
  <2> QED
    BY <2>3, <2>4, <2>5 DEF TimeInv
<1>4. ASSUME NEW p \in Processes, NEW u \in Users, TakeAnswered(p, u)
      PROVE  TimeInv'
  <2>1. /\ UNCHANGED <<now, stopBy, renews>>
        /\ pc[p][u] = "took" /\ pc' = [pc EXCEPT ![p][u] = "building"]
        /\ held' = [held EXCEPT ![p][u] = [acquired |-> take[p][u].acquired, confirmed |-> take[p][u].sent]]
        /\ take' = [take EXCEPT ![p][u] = NoTake]
    BY <1>4 DEF TakeAnswered, Goto, wires
  <2>2. ASSUME NEW q \in Processes, NEW v \in Users, q # p \/ v # u
        PROVE  /\ pc'[q][v] = pc[q][v] /\ held'[q][v] = held[q][v] /\ take'[q][v] = take[q][v]
    BY <2>1, <2>2 DEF TypeOK
  <2>3. /\ pc'[p][u] = "building" /\ held'[p][u] # NoLease
        /\ held'[p][u].confirmed = take[p][u].sent
        /\ take[p][u].sent \in Nat /\ now \in Nat
    BY <2>1, AbsentAssumption DEF TypeOK, TakeType, LeaseType
  <2>4. TakesInTime'
    BY <2>1, <2>2, <2>3 DEF TakesInTime, TakeInTime, Asked
  <2>5. LeasesInTime'
    <3>1. TakeInTime(p, u)
      BY DEF TakesInTime
    <3>2. LeaseInTime(p, u)'
      BY <2>1, <2>3, <3>1 DEF TakeInTime, Asked, LeaseInTime, InTime
    <3> QED
      BY <2>1, <2>2, <3>2 DEF LeasesInTime, LeaseInTime
  <2>6. StopsInTime'
    BY <2>1, <2>2, <2>3 DEF StopsInTime, StopInTime, Lost, Running
  <2>7. RenewsInTime'
    BY <2>1 DEF RenewsInTime
  <2> QED
    BY <2>4, <2>5, <2>6, <2>7 DEF TimeInv
<1>5. ASSUME NEW p \in Processes, NEW u \in Users, Built(p, u)
      PROVE  TimeInv'
  BY <1>5 DEF TypeOK, TakeType, LeaseType, TakesInTime, TakeInTime, Asked, Built, Goto, leases,
     wires, LeasesInTime, LeaseInTime, StopsInTime, StopInTime, Lost, Running, RenewType,
     RenewsInTime, TimeInv
<1>6. ASSUME NEW p \in Processes, NEW u \in Users, Releases(p, u)
      PROVE  TimeInv'
  <2>1. TakesInTime'
    <3> SUFFICES ASSUME NEW q \in Processes, NEW v \in Users
                 PROVE  TakeInTime(q, v)'
      BY DEF TakesInTime
    <3>1. TakeInTime(q, v)
      BY DEF TakesInTime
    <3>2. CASE q = p /\ v = u
      BY <1>6, <3>2 DEF Releases, ReleasedAt, TakeInTime, Asked
    <3>3. CASE q # p \/ v # u
      BY <1>6, <3>1, <3>3 DEF Releases, TakeInTime, Asked
    <3> QED
      BY <3>2, <3>3
  <2>2. LeasesInTime'
    <3> SUFFICES ASSUME NEW q \in Processes, NEW v \in Users
                 PROVE  LeaseInTime(q, v)'
      BY DEF LeasesInTime
    <3>1. LeaseInTime(q, v)
      BY DEF LeasesInTime
    <3>2. CASE q = p /\ v = u
      BY <1>6, <3>2 DEF Releases, ReleasedAt, LeaseInTime
    <3>3. CASE q # p \/ v # u
      BY <1>6, <3>1, <3>3 DEF Releases, SameAt, LeaseInTime
    <3> QED
      BY <3>2, <3>3
  <2>3. StopsInTime'
    <3> SUFFICES ASSUME NEW q \in Processes, NEW v \in Users
                 PROVE  StopInTime(q, v)'
      BY DEF StopsInTime
    <3>1. StopInTime(q, v)
      BY DEF StopsInTime
    <3>2. /\ q = p /\ v = u => Running(q, v) /\ ReleasedAt(q, v)
          /\ q # p \/ v # u => SameAt(q, v) /\ pc'[q][v] = pc[q][v] /\ take'[q][v] = take[q][v]
          /\ UNCHANGED <<now, rows, opens>>
      BY <1>6 DEF Releases
    <3>3. /\ now \in Nat /\ opens \in Nat /\ ended[q][v] \in Nat /\ stopBy[q][v] \in Nat \cup {Never}
          /\ take[q][v].acquired \in Nat /\ take[q][v].sent \in Nat
          /\ held[q][v] # NoLease => held[q][v].acquired \in Nat /\ held[q][v].confirmed \in Nat
      BY DEF TypeOK, TakeType, LeaseType
    <3> QED
      BY <3>1, <3>2, <3>3 DEF StopInTime, Lost, Running, ReleasedAt, SameAt
  <2>4. RenewsInTime'
    BY <1>6 DEF TypeOK, TakeType, LeaseType, RenewType, RenewsInTime, Releases, ReleasedAt, SameAt
  <2> QED
    BY <2>1, <2>2, <2>3, <2>4 DEF TimeInv
<1>7. ASSUME NEW p \in Processes, NEW u \in Users, NEW v \in Users, EvictForSeat(p, u, v)
      PROVE  TimeInv'
  BY <1>7 DEF TypeOK, TakeType, LeaseType, TakesInTime, TakeInTime, Asked, EvictForSeat, Goto,
     leases, wires, LeasesInTime, LeaseInTime, StopsInTime, StopInTime, Lost, Running, RenewType,
     RenewsInTime, TimeInv
<1>8. CASE Ends
  <2>1. TakesInTime'
    <3> SUFFICES ASSUME NEW q \in Processes, NEW v \in Users
                 PROVE  TakeInTime(q, v)'
      BY DEF TakesInTime
    <3>1. TakeInTime(q, v)
      BY DEF TakesInTime
    <3>2. EndsAt(q, v) /\ UNCHANGED <<now, rows, held, ended, stopBy, opens>>
      BY <1>8 DEF Ends
    <3>3. /\ now \in Nat /\ opens \in Nat /\ ended[q][v] \in Nat /\ stopBy[q][v] \in Nat \cup {Never}
          /\ take[q][v].acquired \in Nat /\ take[q][v].sent \in Nat
          /\ held[q][v] # NoLease => held[q][v].acquired \in Nat /\ held[q][v].confirmed \in Nat
      BY DEF TypeOK, TakeType, LeaseType
    <3> QED
      BY <3>1, <3>2, <3>3 DEF TakeInTime, Asked, EndsAt, Asking, NoTake
  <2>2. LeasesInTime' /\ StopsInTime' /\ RenewsInTime'
    BY <1>8 DEF TypeOK, TakeType, LeaseType, LeasesInTime, LeaseInTime, Ends, EndsAt, Asking,
       NoTake, StopsInTime, StopInTime, Lost, Running, RenewType, RenewsInTime
  <2> QED
    BY <2>1, <2>2 DEF TimeInv
<1>9. CASE Judges
  <2>1. LeasesInTime'
    <3> SUFFICES ASSUME NEW q \in Processes, NEW v \in Users
                 PROVE  LeaseInTime(q, v)'
      BY DEF LeasesInTime
    <3>1. LeaseInTime(q, v)
      BY DEF LeasesInTime
    <3>2. /\ LostAt(q, v) \/ SameAt(q, v) \/ \E m \in renews : ConfirmedAt(m, q, v)
          /\ UNCHANGED <<now, rows, pc, take, opens>>
      BY <1>9 DEF Judges
    <3>3. /\ now \in Nat /\ opens \in Nat /\ ended[q][v] \in Nat /\ stopBy[q][v] \in Nat \cup {Never}
          /\ take[q][v].acquired \in Nat /\ take[q][v].sent \in Nat
          /\ held[q][v] # NoLease => held[q][v].acquired \in Nat /\ held[q][v].confirmed \in Nat
      BY DEF TypeOK, TakeType, LeaseType
    <3>4. \A m \in renews : m.at \in Nat /\ m.at =< now
      BY DEF RenewsInTime, TypeOK, RenewType
    <3>5. CASE LostAt(q, v)
      BY <3>1, <3>2, <3>3, <3>4, <3>5 DEF LeaseInTime, LeaseType, LostAt
    <3>6. CASE SameAt(q, v)
      BY <3>1, <3>2, <3>3, <3>4, <3>6 DEF LeaseInTime, LeaseType, SameAt
    <3>7. ASSUME NEW m \in renews, ConfirmedAt(m, q, v)
          PROVE  LeaseInTime(q, v)'
      BY <3>1, <3>2, <3>3, <3>4, <3>7 DEF LeaseInTime, LeaseType, ConfirmedAt
    <3> QED
      BY <3>2, <3>5, <3>6, <3>7
  <2>2. StopsInTime'
    <3> SUFFICES ASSUME NEW q \in Processes, NEW v \in Users
                 PROVE  StopInTime(q, v)'
      BY DEF StopsInTime
    <3>1. StopInTime(q, v)
      BY DEF StopsInTime
    <3>2. /\ LostAt(q, v) \/ SameAt(q, v) \/ \E m \in renews : ConfirmedAt(m, q, v)
          /\ UNCHANGED <<now, rows, pc, take, opens>>
      BY <1>9 DEF Judges
    <3>3. /\ now \in Nat /\ opens \in Nat /\ ended[q][v] \in Nat /\ stopBy[q][v] \in Nat \cup {Never}
          /\ take[q][v].acquired \in Nat /\ take[q][v].sent \in Nat
          /\ held[q][v] # NoLease => held[q][v].acquired \in Nat /\ held[q][v].confirmed \in Nat
      BY DEF TypeOK, TakeType, LeaseType
    <3>4. HeldRunsAt(q, v)
      BY DEF HeldRuns
    <3>5. NoLease \notin LeaseType
      BY AbsentAssumption
    <3>6. \A m \in renews : m.at \in Nat
      BY DEF TypeOK, RenewType
    <3>7. CASE LostAt(q, v)
      BY <3>1, <3>2, <3>3, <3>4, <3>5, <3>6, <3>7 DEF StopInTime, Lost, Running, HeldRunsAt, LeaseType, LostAt
    <3>8. CASE SameAt(q, v)
      BY <3>1, <3>2, <3>3, <3>4, <3>5, <3>6, <3>8 DEF StopInTime, Lost, Running, HeldRunsAt, LeaseType, SameAt
    <3>9. ASSUME NEW m \in renews, ConfirmedAt(m, q, v)
          PROVE  StopInTime(q, v)'
      BY <3>1, <3>2, <3>3, <3>4, <3>5, <3>6, <3>9 DEF StopInTime, Lost, Running, HeldRunsAt, LeaseType, ConfirmedAt
    <3> QED
      BY <3>2, <3>7, <3>8, <3>9
  <2>3. TakesInTime' /\ RenewsInTime'
    BY <1>9 DEF TypeOK, TakeType, LeaseType, TakesInTime, TakeInTime, Asked, Judges, LostAt, SameAt,
       ConfirmedAt, RenewType, RenewsInTime
  <2> QED
    BY <2>1, <2>2, <2>3 DEF TimeInv
<1>10. ASSUME NEW p \in Processes, Renew(p)
       PROVE  TimeInv'
  BY <1>10 DEF TypeOK, TakeType, LeaseType, TakesInTime, TakeInTime, Asked, Renew, leases,
     instances, LeasesInTime, LeaseInTime, StopsInTime, StopInTime, Lost, Running, RenewType,
     RenewsInTime, TimeInv
<1>11. ASSUME NEW p \in Processes, Crash(p)
       PROVE  TimeInv'
  BY <1>11 DEF TypeOK, TakeType, LeaseType, TakesInTime, TakeInTime, Asked, Crash, NoTake, Asking,
     wires, LeasesInTime, LeaseInTime, StopsInTime, StopInTime, Lost, Running, RenewType,
     RenewsInTime, TimeInv
<1>12. ASSUME NEW m \in renews, RenewRow(m)
       PROVE  TimeInv'
  BY <1>12 DEF TypeOK, TakeType, LeaseType, TakesInTime, TakeInTime, Asked, RenewRow, leases,
     instances, LeasesInTime, LeaseInTime, StopsInTime, StopInTime, Lost, Running, RenewType,
     RenewsInTime, TimeInv
<1>13. ASSUME NEW m \in deletes, DeleteRow(m)
       PROVE  TimeInv'
  BY <1>13 DEF TypeOK, TakeType, LeaseType, TakesInTime, TakeInTime, Asked, DeleteRow, leases,
     instances, LeasesInTime, LeaseInTime, StopsInTime, StopInTime, Lost, Running, RenewType,
     RenewsInTime, TimeInv
<1>14. CASE Tick
  BY <1>14 DEF TypeOK, TakeType, LeaseType, TakesInTime, TakeInTime, Asked, Tick, leases, instances,
     wires, LeasesInTime, LeaseInTime, InTime, Due, StopsInTime, StopInTime, Lost, Running,
     RenewType, RenewsInTime, TimeInv
<1> QED
  BY <1>1, <1>2, <1>3, <1>4, <1>5, <1>6, <1>7, <1>8, <1>9, <1>10, <1>11, <1>12, <1>13, <1>14, StepKinds

(* Who relies on the user's row: a host, and a take answered with it. *)
Uses(p, u) == Running(p, u) \/ (pc[p][u] = "took" /\ take[p][u].answer = "ok")

(* Such a row is there, is its own, has not expired, and no delete on its  *)
(* way is for it.                                                          *)
LEMMA RowLive ==
    ASSUME InTime, LeaseInv, NEW p \in Processes, NEW u \in Users, Uses(p, u)
    PROVE  /\ rows[u] # NoRow /\ rows[u].holder = p /\ now =< rows[u].expires
           /\ \A m \in deletes : m.user = u /\ m.holder = p => m.acquired # rows[u].acquired
<1>1. /\ RowKept(p, u) /\ TakeInTime(p, u) /\ LeaseInTime(p, u) /\ StopInTime(p, u)
      /\ \A m \in deletes : DeleteOld(m) /\ m.acquired \in Nat
  BY DEF LeaseInv, RowInv, RowsKept, TimeInv, TakesInTime, LeasesInTime, StopsInTime, TokenInv, DeletesOld,
         TypeOK, DeleteType
<1>2. /\ now \in Nat /\ take[p][u].sent \in Nat /\ take[p][u].acquired \in Nat /\ ended[p][u] \in Nat
      /\ held[p][u] # NoLease => held[p][u].confirmed \in Nat /\ held[p][u].acquired \in Nat
      /\ stopBy[p][u] # Never => stopBy[p][u] \in Nat
      /\ rows[u] # NoRow => rows[u].expires \in Nat /\ rows[u].acquired \in Nat
  BY DEF LeaseInv, TypeOK, TakeType, LeaseType, RowType
<1>3. CASE pc[p][u] = "took" /\ take[p][u].answer = "ok"
  <2>1. RowOf(p, u, take[p][u].acquired, take[p][u].sent + Lease) /\ now =< take[p][u].sent + TakeWait
    BY <1>1, <1>3 DEF RowKept, TakeInTime, Asked
  <2>2. now =< rows[u].expires
    BY <1>2, <2>1, TimesAssumption DEF RowOf, InTime
  <2>3. ASSUME NEW m \in deletes, m.user = u, m.holder = p
        PROVE  m.acquired # rows[u].acquired
    BY <1>1, <1>2, <1>3, <2>1, <2>3 DEF RowOf, DeleteOld, Waiting
  <2> QED
    BY <2>1, <2>2, <2>3 DEF RowOf
<1>4. CASE Running(p, u) /\ held[p][u] # NoLease
  <2>1. /\ RowOf(p, u, held[p][u].acquired, held[p][u].confirmed + Lease)
        /\ now + Quit =< held[p][u].confirmed + Lease
    BY <1>1, <1>4 DEF RowKept, LeaseInTime
  <2>2. now =< rows[u].expires
    BY <1>2, <1>4, <2>1, TimesAssumption DEF RowOf
  <2>3. ASSUME NEW m \in deletes, m.user = u, m.holder = p
        PROVE  m.acquired # rows[u].acquired
    BY <1>1, <1>2, <1>4, <2>1, <2>3 DEF RowOf, DeleteOld, Taken
  <2> QED
    BY <2>1, <2>2, <2>3 DEF RowOf
<1>5. CASE Lost(p, u)
  <2>1. RowOf(p, u, ended[p][u], stopBy[p][u]) /\ stopBy[p][u] # Never /\ now =< stopBy[p][u]
    BY <1>1, <1>5 DEF RowKept, StopInTime
  <2>2. now =< rows[u].expires
    BY <1>2, <2>1 DEF RowOf
  <2>3. ASSUME NEW m \in deletes, m.user = u, m.holder = p
        PROVE  m.acquired # rows[u].acquired
    BY <1>1, <1>2, <1>5, <2>1, <2>3 DEF RowOf, DeleteOld, Taken, Lost
  <2> QED
    BY <2>1, <2>2, <2>3 DEF RowOf
<1> QED
  BY <1>3, <1>4, <1>5 DEF Uses, Lost

(* A take removes or replaces no row that anybody else relies on. *)
LEMMA TakeSpares ==
    ASSUME InTime, LeaseInv, NEW p \in Processes, NEW u \in Users, TakeRow(p, u),
           NEW q \in Processes, NEW v \in Users, Uses(q, v)
    PROVE  (q # p \/ v # u) /\ rows'[v] = rows[v]
<1>1. q # p \/ v # u
  BY DEF TakeRow, Uses, Running
<1>2. rows[v] # NoRow /\ rows[v].holder = q /\ now =< rows[v].expires
  BY RowLive
<1>3. now \in Nat /\ rows[v].expires \in Nat /\ take[p][u].sent \in Nat
  BY <1>2 DEF LeaseInv, TypeOK, RowType, TakeType
<1> PICK began \in take[p][u].sent .. now : TakeRow(p, u)!2!(began)
  BY DEF TakeRow
<1>4. ~(rows[v].expires < began)
  BY <1>2, <1>3
<1>5. CASE v # u
  BY <1>4, <1>5
<1>6. CASE v = u
  BY <1>1, <1>2, <1>4, <1>6
<1> QED
  BY <1>1, <1>5, <1>6

(* No step takes the row from under a host. *)
LEMMA RowStep ==
    ASSUME InTime, LeaseInv, TypeOK', [Next]_vars
    PROVE  RowInv'
<1> TypeOK /\ HeldRuns /\ TokenInv /\ TimeInv /\ RowsKept /\ RenewalsTrue
  BY DEF LeaseInv, RowInv
<1>1. CASE UNCHANGED hosting
  <2>1. RowsKept'
    <3> SUFFICES ASSUME NEW q \in Processes, NEW v \in Users
                 PROVE  RowKept(q, v)'
      BY DEF RowsKept
    <3>1. RowKept(q, v) /\ HeldRunsAt(q, v)
      BY DEF RowsKept, HeldRuns
    <3>2. UNCHANGED <<held, ended, stopBy, rows, pc, take>>
      BY <1>1 DEF hosting, leases, wires
    <3> QED
      BY <3>1, <3>2 DEF RowKept, RowOf, Lost, Running
  <2>2. RenewalsTrue'
    <3> SUFFICES ASSUME NEW n \in renews, NEW v \in Users
                 PROVE  RenewalTrue(n, v)'
      BY <1>1 DEF RenewalsTrue, hosting, leases, wires
    <3>1. RenewalTrue(n, v) /\ n.holder \in Processes
      BY DEF RenewalsTrue, TypeOK, RenewType
    <3>2. UNCHANGED <<held, rows>>
      BY <1>1 DEF hosting, leases, wires
    <3> QED
      BY <3>1, <3>2 DEF RenewalTrue
  <2> QED
    BY <2>1, <2>2 DEF RowInv
<1>2. ASSUME NEW p \in Processes, NEW u \in Users, Open(p, u)
      PROVE  RowInv'
  <2>1. RowsKept'
    <3> SUFFICES ASSUME NEW q \in Processes, NEW v \in Users
                 PROVE  RowKept(q, v)'
      BY DEF RowsKept
    <3>1. RowKept(q, v) /\ HeldRunsAt(q, v)
      BY DEF RowsKept, HeldRuns
    <3>2. UNCHANGED <<held, ended, stopBy, rows>>
      BY <1>2 DEF Open, Goto, Asking, leases, wires
    <3>3. \/ q = p /\ v = u /\ pc[q][v] = "none" /\ pc'[q][v] = "taking"
          \/ pc'[q][v] = pc[q][v] /\ take'[q][v] = take[q][v]
      BY <1>2 DEF TypeOK, Open, Goto, Asking
    <3> QED
      BY <3>1, <3>2, <3>3 DEF HeldRunsAt, RowKept, RowOf, Lost, Running
  <2>2. RenewalsTrue'
    <3> SUFFICES ASSUME NEW n \in renews, NEW v \in Users
                 PROVE  RenewalTrue(n, v)'
      BY <1>2 DEF RenewalsTrue, Open, Goto, Asking, leases, wires
    <3>1. RenewalTrue(n, v) /\ n.holder \in Processes
      BY DEF RenewalsTrue, TypeOK, RenewType
    <3>2. UNCHANGED <<held, rows>>
      BY <1>2 DEF Open, Goto, Asking, leases, wires
    <3> QED
      BY <3>1, <3>2 DEF RenewalTrue
  <2> QED
    BY <2>1, <2>2 DEF RowInv
<1>3. ASSUME NEW p \in Processes, NEW u \in Users, TakeRow(p, u)
      PROVE  RowInv'
  <2>1. RowsKept'
    <3> SUFFICES ASSUME NEW q \in Processes, NEW v \in Users
                 PROVE  RowKept(q, v)'
      BY DEF RowsKept
    <3>1. RowKept(q, v) /\ HeldRunsAt(q, v)
      BY DEF RowsKept, HeldRuns
    <3>2. UNCHANGED <<held, ended, stopBy>>
      BY <1>3 DEF TakeRow, leases
    <3>3. CASE q = p /\ v = u
      <4>1. pc[q][v] = "taking" /\ pc'[q][v] = "took" /\ take[p][u].sent \in Nat
        BY <1>3, <3>3 DEF TakeRow, Goto, TypeOK, TakeType
      <4> PICK began \in take[p][u].sent .. now : TakeRow(p, u)!2!(began)
        BY <1>3 DEF TakeRow
      <4>2. /\ take'[p][u].acquired = take[p][u].acquired /\ take'[p][u].sent = take[p][u].sent
            /\ take'[p][u].answer = "ok" =>
                  rows'[u] = [holder |-> p, acquired |-> take[p][u].acquired, expires |-> began + Lease]
        BY DEF TypeOK, TakeType
      <4>3. /\ [holder |-> p, acquired |-> take[p][u].acquired, expires |-> began + Lease] # NoRow
            /\ take[p][u].sent + Lease =< began + Lease
        BY <4>1, AbsentAssumption, TimesAssumption DEF TypeOK, TakeType, RowType
      <4> QED
        BY <3>1, <3>2, <3>3, <4>1, <4>2, <4>3 DEF HeldRunsAt, RowKept, RowOf, Lost, Running
    <3>4. CASE q # p \/ v # u
      <4>1. pc'[q][v] = pc[q][v] /\ take'[q][v] = take[q][v]
        BY <1>3, <3>4 DEF TakeRow, Goto, TypeOK
      <4>2. Uses(q, v) => rows'[v] = rows[v]
        BY <1>3, TakeSpares
      <4> QED
        BY <3>1, <3>2, <4>1, <4>2 DEF HeldRunsAt, RowKept, RowOf, Lost, Running, Uses
    <3> QED
      BY <3>3, <3>4
  <2>2. RenewalsTrue'
    <3> SUFFICES ASSUME NEW n \in renews, NEW v \in Users
                 PROVE  RenewalTrue(n, v)'
      BY <1>3 DEF RenewalsTrue, TakeRow, wires
    <3>1. RenewalTrue(n, v) /\ n.holder \in Processes
      BY DEF RenewalsTrue, TypeOK, RenewType
    <3>2. HeldRunsAt(n.holder, v) /\ UNCHANGED held
      BY <1>3, <3>1 DEF HeldRuns, TakeRow, leases
    <3>3. Uses(n.holder, v) => rows'[v] = rows[v]
      BY <1>3, <3>1, TakeSpares
    <3> QED
      BY <3>1, <3>2, <3>3 DEF RenewalTrue, HeldRunsAt, Uses
  <2> QED
    BY <2>1, <2>2 DEF RowInv
<1>4. ASSUME NEW p \in Processes, NEW u \in Users, TakeAnswered(p, u)
      PROVE  RowInv'
  <2>1. RowsKept'
    <3> SUFFICES ASSUME NEW q \in Processes, NEW v \in Users
                 PROVE  RowKept(q, v)'
      BY DEF RowsKept
    <3>1. RowKept(q, v) /\ HeldRunsAt(q, v)
      BY DEF RowsKept, HeldRuns
    <3>2. UNCHANGED <<rows, stopBy>>
      BY <1>4 DEF TakeAnswered
    <3>3. CASE q = p /\ v = u
      <4>1. /\ held'[q][v] = [acquired |-> take[p][u].acquired, confirmed |-> take[p][u].sent]
            /\ pc[p][u] = "took" /\ take[p][u].answer = "ok" /\ pc'[q][v] = "building"
        BY <1>4, <3>3 DEF TakeAnswered, Goto, TypeOK
      <4>2. held'[q][v] # NoLease
        BY <4>1, AbsentAssumption DEF TypeOK, TakeType, LeaseType
      <4> QED
        BY <3>1, <3>2, <3>3, <4>1, <4>2 DEF RowKept, RowOf, Lost
    <3>4. CASE q # p \/ v # u
      <4>1. /\ pc'[q][v] = pc[q][v] /\ take'[q][v] = take[q][v]
            /\ held'[q][v] = held[q][v] /\ ended'[q][v] = ended[q][v]
        BY <1>4, <3>4 DEF TakeAnswered, Goto, TypeOK
      <4> QED
        BY <3>1, <3>2, <4>1 DEF RowKept, RowOf, Lost, Running
    <3> QED
      BY <3>3, <3>4
  <2>2. RenewalsTrue'
    <3> SUFFICES ASSUME NEW n \in renews, NEW v \in Users
                 PROVE  RenewalTrue(n, v)'
      BY <1>4 DEF RenewalsTrue, TakeAnswered, wires
    <3>1. RenewalTrue(n, v) /\ n.holder \in Processes
      BY DEF RenewalsTrue, TypeOK, RenewType
    <3>2. UNCHANGED rows
      BY <1>4 DEF TakeAnswered
    <3>3. CASE n.holder = p /\ v = u
      <4>1. /\ RenewOld(n, u) /\ n.sent[u] \in Nat /\ take[p][u].acquired \in Nat
            /\ Waiting(p, u) /\ held'[p][u].acquired = take[p][u].acquired
        BY <1>4 DEF TokenInv, RenewsOld, TypeOK, RenewType, TakeType, TakeAnswered, Waiting
      <4> QED
        BY <3>3, <4>1 DEF RenewOld, RenewalTrue
    <3>4. CASE n.holder # p \/ v # u
      <4>1. held'[n.holder][v] = held[n.holder][v]
        BY <1>4, <3>1, <3>4 DEF TakeAnswered, TypeOK
      <4> QED
        BY <3>1, <3>2, <4>1 DEF RenewalTrue
    <3> QED
      BY <3>3, <3>4
  <2> QED
    BY <2>1, <2>2 DEF RowInv
<1>5. ASSUME NEW p \in Processes, NEW u \in Users, Built(p, u)
      PROVE  RowInv'
  <2>1. RowsKept'
    <3> SUFFICES ASSUME NEW q \in Processes, NEW v \in Users
                 PROVE  RowKept(q, v)'
      BY DEF RowsKept
    <3>1. RowKept(q, v) /\ HeldRunsAt(q, v)
      BY DEF RowsKept, HeldRuns
    <3>2. UNCHANGED <<held, ended, stopBy, rows>>
      BY <1>5 DEF Built, Goto, leases, wires
    <3>3. \/ q = p /\ v = u /\ pc[q][v] = "building" /\ pc'[q][v] = "open"
          \/ pc'[q][v] = pc[q][v] /\ take'[q][v] = take[q][v]
      BY <1>5 DEF TypeOK, Built, Goto
    <3> QED
      BY <3>1, <3>2, <3>3 DEF HeldRunsAt, RowKept, RowOf, Lost, Running
  <2>2. RenewalsTrue'
    <3> SUFFICES ASSUME NEW n \in renews, NEW v \in Users
                 PROVE  RenewalTrue(n, v)'
      BY <1>5 DEF RenewalsTrue, Built, Goto, leases, wires
    <3>1. RenewalTrue(n, v) /\ n.holder \in Processes
      BY DEF RenewalsTrue, TypeOK, RenewType
    <3>2. UNCHANGED <<held, rows>>
      BY <1>5 DEF Built, Goto, leases, wires
    <3> QED
      BY <3>1, <3>2 DEF RenewalTrue
  <2> QED
    BY <2>1, <2>2 DEF RowInv
<1>6. ASSUME NEW p \in Processes, NEW u \in Users, Releases(p, u)
      PROVE  RowInv'
  <2>1. RowsKept'
    <3> SUFFICES ASSUME NEW q \in Processes, NEW v \in Users
                 PROVE  RowKept(q, v)'
      BY DEF RowsKept
    <3>1. RowKept(q, v)
      BY DEF RowsKept
    <3>2. /\ q = p /\ v = u => Running(q, v) /\ ReleasedAt(q, v)
          /\ q # p \/ v # u => SameAt(q, v) /\ pc'[q][v] = pc[q][v] /\ take'[q][v] = take[q][v]
          /\ UNCHANGED <<now, rows, opens>>
      BY <1>6 DEF Releases
    <3>3. /\ now \in Nat /\ opens \in Nat /\ ended[q][v] \in Nat /\ stopBy[q][v] \in Nat \cup {Never}
          /\ take[q][v].acquired \in Nat /\ take[q][v].sent \in Nat
          /\ held[q][v] # NoLease => held[q][v].acquired \in Nat /\ held[q][v].confirmed \in Nat
      BY DEF TypeOK, TakeType, LeaseType
    <3> QED
      BY <3>1, <3>2, <3>3 DEF RowKept, RowOf, Lost, Running, ReleasedAt, SameAt
  <2>2. RenewalsTrue'
    <3> SUFFICES ASSUME NEW n \in renews, NEW v \in Users
                 PROVE  RenewalTrue(n, v)'
      BY <1>6 DEF RenewalsTrue, Releases
    <3>1. RenewalTrue(n, v) /\ n.holder \in Processes
      BY DEF RenewalsTrue, TypeOK, RenewType
    <3>2. UNCHANGED rows /\ (held'[n.holder][v] = NoLease \/ held'[n.holder][v] = held[n.holder][v])
      BY <1>6, <3>1 DEF Releases, ReleasedAt, SameAt
    <3> QED
      BY <3>1, <3>2 DEF RenewalTrue
  <2> QED
    BY <2>1, <2>2 DEF RowInv
<1>7. ASSUME NEW p \in Processes, NEW u \in Users, NEW w \in Users, EvictForSeat(p, u, w)
      PROVE  RowInv'
  <2>1. RowsKept'
    <3> SUFFICES ASSUME NEW q \in Processes, NEW v \in Users
                 PROVE  RowKept(q, v)'
      BY DEF RowsKept
    <3>1. RowKept(q, v) /\ HeldRunsAt(q, v)
      BY DEF RowsKept, HeldRuns
    <3>2. UNCHANGED <<held, ended, stopBy, rows>>
      BY <1>7 DEF EvictForSeat, Goto, leases, wires
    <3>3. \/ q = p /\ v = u /\ pc[q][v] = "took" /\ pc'[q][v] = "capped"
          \/ pc'[q][v] = pc[q][v] /\ take'[q][v] = take[q][v]
      BY <1>7 DEF TypeOK, EvictForSeat, Goto
    <3> QED
      BY <3>1, <3>2, <3>3 DEF HeldRunsAt, RowKept, RowOf, Lost, Running
  <2>2. RenewalsTrue'
    <3> SUFFICES ASSUME NEW n \in renews, NEW v \in Users
                 PROVE  RenewalTrue(n, v)'
      BY <1>7 DEF RenewalsTrue, EvictForSeat, Goto, leases, wires
    <3>1. RenewalTrue(n, v) /\ n.holder \in Processes
      BY DEF RenewalsTrue, TypeOK, RenewType
    <3>2. UNCHANGED <<held, rows>>
      BY <1>7 DEF EvictForSeat, Goto, leases, wires
    <3> QED
      BY <3>1, <3>2 DEF RenewalTrue
  <2> QED
    BY <2>1, <2>2 DEF RowInv
<1>8. CASE Ends
  <2>1. RowsKept'
    <3> SUFFICES ASSUME NEW q \in Processes, NEW v \in Users
                 PROVE  RowKept(q, v)'
      BY DEF RowsKept
    <3>1. RowKept(q, v)
      BY DEF RowsKept
    <3>2. EndsAt(q, v) /\ UNCHANGED <<now, rows, held, ended, stopBy, opens>>
      BY <1>8 DEF Ends
    <3>3. /\ now \in Nat /\ opens \in Nat /\ ended[q][v] \in Nat /\ stopBy[q][v] \in Nat \cup {Never}
          /\ take[q][v].acquired \in Nat /\ take[q][v].sent \in Nat
          /\ held[q][v] # NoLease => held[q][v].acquired \in Nat /\ held[q][v].confirmed \in Nat
      BY DEF TypeOK, TakeType, LeaseType
    <3>4. HeldRunsAt(q, v)
      BY DEF HeldRuns
    <3> QED
      BY <3>1, <3>2, <3>3, <3>4 DEF RowKept, RowOf, Lost, Running, HeldRunsAt, EndsAt, Asking, NoTake
  <2>2. RenewalsTrue'
    <3> SUFFICES ASSUME NEW n \in renews, NEW v \in Users
                 PROVE  RenewalTrue(n, v)'
      BY <1>8 DEF RenewalsTrue, Ends
    <3>1. RenewalTrue(n, v) /\ n.holder \in Processes
      BY DEF RenewalsTrue, TypeOK, RenewType
    <3>2. UNCHANGED <<held, rows>>
      BY <1>8 DEF Ends
    <3> QED
      BY <3>1, <3>2 DEF RenewalTrue
  <2> QED
    BY <2>1, <2>2 DEF RowInv
<1>9. CASE Judges
  <2>1. RowsKept'
    <3> SUFFICES ASSUME NEW q \in Processes, NEW v \in Users
                 PROVE  RowKept(q, v)'
      BY DEF RowsKept
    <3>1. RowKept(q, v) /\ HeldRunsAt(q, v)
      BY DEF RowsKept, HeldRuns
    <3>2. UNCHANGED <<now, rows, pc, take>>
      BY <1>9 DEF Judges
    <3>3. CASE LostAt(q, v)
      <4>1. /\ LeaseInTime(q, v) /\ now \in Nat
            /\ held[q][v].confirmed \in Nat
            /\ rows[v] # NoRow => rows[v].expires \in Nat
        BY <3>3 DEF LostAt, TimeInv, LeasesInTime, TypeOK, LeaseType, RowType
      <4> QED
        BY <3>1, <3>2, <3>3, <4>1, TimesAssumption DEF HeldRunsAt, RowKept, RowOf, LeaseInTime, Lost, Running, LostAt
    <3>4. CASE SameAt(q, v)
      BY <3>1, <3>2, <3>4 DEF RowKept, RowOf, Lost, Running, SameAt
    <3>5. ASSUME NEW m \in renews, ConfirmedAt(m, q, v)
          PROVE  RowKept(q, v)'
      <4>1. RenewalTrue(m, v)
        BY DEF RenewalsTrue
      <4> QED
        BY <3>1, <3>2, <3>5, <4>1 DEF RenewalTrue, HeldRunsAt, RowKept, RowOf, Lost, Running, ConfirmedAt
    <3> QED
      BY <1>9, <3>3, <3>4, <3>5 DEF Judges
  <2>2. RenewalsTrue'
    <3> SUFFICES ASSUME NEW n \in renews, NEW v \in Users
                 PROVE  RenewalTrue(n, v)'
      BY <1>9 DEF RenewalsTrue, Judges
    <3>1. RenewalTrue(n, v) /\ n.holder \in Processes
      BY DEF RenewalsTrue, TypeOK, RenewType
    <3>2. /\ UNCHANGED rows
          /\ \/ held'[n.holder][v] = NoLease
             \/ held'[n.holder][v] = held[n.holder][v]
             \/ held[n.holder][v] # NoLease /\ held'[n.holder][v].acquired = held[n.holder][v].acquired
      BY <1>9, <3>1 DEF Judges, LostAt, SameAt, ConfirmedAt
    <3> QED
      BY <3>1, <3>2 DEF RenewalTrue
  <2> QED
    BY <2>1, <2>2 DEF RowInv
<1>10. ASSUME NEW p \in Processes, Renew(p)
       PROVE  RowInv'
  <2>1. RowsKept'
    <3> SUFFICES ASSUME NEW q \in Processes, NEW v \in Users
                 PROVE  RowKept(q, v)'
      BY DEF RowsKept
    <3>1. RowKept(q, v) /\ HeldRunsAt(q, v)
      BY DEF RowsKept, HeldRuns
    <3>2. UNCHANGED <<held, ended, stopBy, rows, pc, take>>
      BY <1>10 DEF Renew, leases, instances
    <3> QED
      BY <3>1, <3>2 DEF RowKept, RowOf, Lost, Running
  <2>2. RenewalsTrue'
    <3> SUFFICES ASSUME NEW n \in renews', NEW v \in Users, n.done
                 PROVE  RenewalTrue(n, v)'
      BY DEF RenewalsTrue, RenewalTrue
    <3>1. n \in renews
      BY <1>10 DEF Renew
    <3>2. RenewalTrue(n, v)
      BY <3>1 DEF RenewalsTrue
    <3>3. UNCHANGED <<held, rows>>
      BY <1>10 DEF Renew, leases
    <3> QED
      BY <3>2, <3>3 DEF RenewalTrue
  <2> QED
    BY <2>1, <2>2 DEF RowInv
<1>11. ASSUME NEW p \in Processes, Crash(p)
       PROVE  RowInv'
  <2>1. RowsKept'
    <3> SUFFICES ASSUME NEW q \in Processes, NEW v \in Users
                 PROVE  RowKept(q, v)'
      BY DEF RowsKept
    <3>1. RowKept(q, v) /\ HeldRunsAt(q, v)
      BY DEF RowsKept, HeldRuns
    <3>2. UNCHANGED rows
      BY <1>11 DEF Crash
    <3>3. CASE q = p
      BY <1>11, <3>3 DEF Crash, TypeOK, RowKept, Lost, Running
    <3>4. CASE q # p
      <4>1. /\ pc'[q][v] = pc[q][v] /\ take'[q][v] = take[q][v] /\ stopBy'[q][v] = stopBy[q][v]
            /\ held'[q][v] = held[q][v] /\ ended'[q][v] = ended[q][v]
        BY <1>11, <3>4 DEF Crash, TypeOK
      <4> QED
        BY <3>1, <3>2, <4>1 DEF RowKept, RowOf, Lost, Running
    <3> QED
      BY <3>3, <3>4
  <2>2. RenewalsTrue'
    <3> SUFFICES ASSUME NEW n \in renews, NEW v \in Users
                 PROVE  RenewalTrue(n, v)'
      BY <1>11 DEF RenewalsTrue, Crash, wires
    <3>1. RenewalTrue(n, v) /\ n.holder \in Processes
      BY DEF RenewalsTrue, TypeOK, RenewType
    <3>2. UNCHANGED rows /\ (held'[n.holder][v] = NoLease \/ held'[n.holder][v] = held[n.holder][v])
      BY <1>11, <3>1 DEF Crash, TypeOK
    <3> QED
      BY <3>1, <3>2 DEF RenewalTrue
  <2> QED
    BY <2>1, <2>2 DEF RowInv
<1>12. ASSUME NEW m \in renews, RenewRow(m)
       PROVE  RowInv'
  <2> DEFINE kept == {w \in Users : m.sent[w] # 0 /\ rows[w] # NoRow /\ rows[w].holder = m.holder}
  <2>1. ASSUME NEW v \in Users
        PROVE  \/ rows'[v] = rows[v] /\ v \notin kept
               \/ /\ rows[v] # NoRow /\ rows'[v] # NoRow
                  /\ rows'[v].holder = rows[v].holder /\ rows'[v].acquired = rows[v].acquired
                  /\ rows'[v].expires = now + Lease
    <3>1. CASE v \in kept
      <4>1. rows'[v] = [rows[v] EXCEPT !.expires = now + Lease]
        BY <1>12, <3>1 DEF RenewRow
      <4>2. rows[v] \in RowType /\ now + Lease \in Nat
        BY <3>1, TimesAssumption DEF TypeOK
      <4>3. rows'[v] \in RowType
        BY <4>1, <4>2, RowUpdates
      <4> QED
        BY <3>1, <4>1, <4>2, <4>3, AbsentAssumption DEF RowType
    <3>2. CASE v \notin kept
      BY <1>12, <3>2 DEF RenewRow, TypeOK
    <3> QED
      BY <3>1, <3>2
  <2>2. UNCHANGED <<now, held, ended, stopBy, pc, take>>
    BY <1>12 DEF RenewRow, leases, instances
  <2>3. RowsKept'
    <3> SUFFICES ASSUME NEW q \in Processes, NEW v \in Users
                 PROVE  RowKept(q, v)'
      BY DEF RowsKept
    <3>1. RowKept(q, v) /\ HeldRunsAt(q, v)
      BY DEF RowsKept, HeldRuns
    <3>2. TakeInTime(q, v) /\ LeaseInTime(q, v) /\ StopInTime(q, v)
      BY DEF TimeInv, TakesInTime, LeasesInTime, StopsInTime
    <3>3. /\ now \in Nat /\ InTime /\ ended[q][v] \in Nat /\ stopBy[q][v] \in Nat \cup {Never}
          /\ take[q][v].acquired \in Nat /\ take[q][v].sent \in Nat
          /\ held[q][v] # NoLease => held[q][v].acquired \in Nat /\ held[q][v].confirmed \in Nat
      BY DEF TypeOK, TakeType, LeaseType
    <3>4. CASE rows'[v] = rows[v]
      BY <2>2, <3>1, <3>4 DEF RowKept, RowOf, Lost, Running
    <3>5. CASE rows'[v].expires = now + Lease /\ rows'[v] # rows[v]
      BY <2>1, <2>2, <3>1, <3>2, <3>3, <3>5, TimesAssumption
      DEF RowKept, RowOf, Lost, Running, TakeInTime, Asked, LeaseInTime, StopInTime, InTime
    <3> QED
      BY <2>1, <3>4, <3>5
  <2>4. RenewalsTrue'
    <3> SUFFICES ASSUME NEW n \in renews', NEW v \in Users
                 PROVE  RenewalTrue(n, v)'
      BY DEF RenewalsTrue
    <3>1. m.at \in Nat /\ m.at =< now /\ now \in Nat
      BY DEF TypeOK, RenewType, TimeInv, RenewsInTime
    <3>2. CASE n \in renews
      <4>1. RenewalTrue(n, v) /\ n.at \in Nat /\ n.at =< now
        BY <3>2 DEF RenewalsTrue, TypeOK, RenewType, TimeInv, RenewsInTime
      <4> QED
        BY <2>1, <2>2, <3>1, <4>1, TimesAssumption DEF RenewalTrue
    <3>3. CASE n \notin renews
      <4>1. n = [m EXCEPT !.done = TRUE, !.kept = kept]
        BY <1>12, <3>3 DEF RenewRow
      <4>2. n.kept = kept /\ n.at = m.at
        BY <4>1 DEF TypeOK, RenewType
      <4> HIDE DEF kept
      <4> QED
        BY <2>1, <3>1, <4>2, TimesAssumption DEF RenewalTrue
    <3> QED
      BY <3>2, <3>3
  <2> QED
    BY <2>3, <2>4 DEF RowInv
<1>13. ASSUME NEW m \in deletes, DeleteRow(m)
       PROVE  RowInv'
  <2>1. ASSUME NEW q \in Processes, NEW v \in Users, Uses(q, v)
        PROVE  rows'[v] = rows[v]
    <3>1. rows[v].holder = q /\ (m.user = v /\ m.holder = q => m.acquired # rows[v].acquired)
      BY <2>1, RowLive
    <3> QED
      BY <1>13, <3>1 DEF DeleteRow, TypeOK
  <2>2. UNCHANGED <<held, ended, stopBy, pc, take>> /\ renews' = renews
    BY <1>13 DEF DeleteRow, leases, instances
  <2>3. RowsKept'
    <3> SUFFICES ASSUME NEW q \in Processes, NEW v \in Users
                 PROVE  RowKept(q, v)'
      BY DEF RowsKept
    <3>1. RowKept(q, v) /\ HeldRunsAt(q, v)
      BY DEF RowsKept, HeldRuns
    <3> QED
      BY <2>1, <2>2, <3>1 DEF HeldRunsAt, RowKept, RowOf, Lost, Running, Uses
  <2>4. RenewalsTrue'
    <3> SUFFICES ASSUME NEW n \in renews, NEW v \in Users
                 PROVE  RenewalTrue(n, v)'
      BY <2>2 DEF RenewalsTrue
    <3>1. RenewalTrue(n, v) /\ n.holder \in Processes
      BY DEF RenewalsTrue, TypeOK, RenewType
    <3>2. HeldRunsAt(n.holder, v)
      BY <3>1 DEF HeldRuns
    <3> QED
      BY <2>1, <2>2, <3>1, <3>2 DEF RenewalTrue, HeldRunsAt, Uses
  <2> QED
    BY <2>3, <2>4 DEF RowInv
<1>14. CASE Tick
  <2>1. RowsKept'
    <3> SUFFICES ASSUME NEW q \in Processes, NEW v \in Users
                 PROVE  RowKept(q, v)'
      BY DEF RowsKept
    <3>1. RowKept(q, v) /\ HeldRunsAt(q, v)
      BY DEF RowsKept, HeldRuns
    <3>2. UNCHANGED <<held, ended, stopBy, rows, pc, take>>
      BY <1>14 DEF Tick, leases, instances, wires
    <3> QED
      BY <3>1, <3>2 DEF RowKept, RowOf, Lost, Running
  <2>2. RenewalsTrue'
    <3> SUFFICES ASSUME NEW n \in renews, NEW v \in Users
                 PROVE  RenewalTrue(n, v)'
      BY <1>14 DEF RenewalsTrue, Tick, leases, instances, wires
    <3>1. RenewalTrue(n, v) /\ n.holder \in Processes
      BY DEF RenewalsTrue, TypeOK, RenewType
    <3>2. UNCHANGED <<held, rows>>
      BY <1>14 DEF Tick, leases, instances, wires
    <3> QED
      BY <3>1, <3>2 DEF RenewalTrue
  <2> QED
    BY <2>1, <2>2 DEF RowInv
<1> QED
  BY <1>1, <1>2, <1>3, <1>4, <1>5, <1>6, <1>7, <1>8, <1>9, <1>10, <1>11, <1>12, <1>13, <1>14, StepKinds

(* The invariant holds in every reachable state, given the times. *)
LEMMA LeaseInvHolds == InTime => (Spec => []LeaseInv)
<1> SUFFICES ASSUME InTime
             PROVE  Spec => []LeaseInv
  OBVIOUS
<1>1. Init => LeaseInv
  <2> SUFFICES ASSUME Init
               PROVE  LeaseInv
    OBVIOUS
  <2>1. TypeOK
    BY TakeUpdates DEF Init, TypeOK, Steps
  <2>2. ASSUME NEW p \in Processes, NEW u \in Users
        PROVE  /\ held[p][u] = NoLease /\ ended[p][u] = 0 /\ pc[p][u] = "none" /\ stopBy[p][u] = Never
               /\ take[p][u].acquired = 0 /\ opens = 0
    BY DEF Init, NoTake, Asking
  <2>3. HeldRuns /\ TokenInv
    BY <2>2 DEF Init, HeldRuns, HeldRunsAt, TokenInv, TokensKnown, TokensAt, Waiting, DeletesOld, RenewsOld
  <2>4. TimeInv
    BY <2>2 DEF Init, TimeInv, TakesInTime, TakeInTime, Asked, LeasesInTime, LeaseInTime,
                StopsInTime, StopInTime, Lost, Running, RenewsInTime
  <2>5. RowInv
    BY <2>2 DEF Init, RowInv, RowsKept, RowKept, Lost, Running, RenewalsTrue
  <2> QED
    BY <2>1, <2>3, <2>4, <2>5 DEF LeaseInv
<1>2. TypeOK' /\ LeaseInv /\ [Next]_vars => LeaseInv'
  BY TokenStep, TimeStep, RowStep DEF LeaseInv
<1> QED
  BY <1>1, <1>2, TypeCorrect, PTL DEF Spec

(* At most one process has a host of a user, for any number of processes,  *)
(* users, seats, delayed renewals and deletes, crashes and restarts: if a  *)
(* host quits within LEASE_MS - STALE_MS of losing its lease, and a take   *)
(* is answered early enough for its host to quit before the row expires.   *)
THEOREM OneHostHolds == InTime => (Spec => []OneHost)
<1> SUFFICES ASSUME InTime
             PROVE  Spec => []OneHost
  OBVIOUS
<1>1. LeaseInv => OneHost
  <2> SUFFICES ASSUME LeaseInv, NEW p \in Processes, NEW q \in Processes, NEW u \in Users,
                      Running(p, u), Running(q, u)
               PROVE  p = q
    BY DEF OneHost
  <2>1. rows[u].holder = p /\ rows[u].holder = q
    BY RowLive DEF Uses
  <2> QED
    BY <2>1
<1> QED
  BY <1>1, LeaseInvHolds, PTL
---------------------------------------------------------------------------
(* The tenant's seats. *)

(* Rows of any age count: a take removes the expired ones before it counts *)
(* the rest, and a late renewal may still revive what it left.             *)
Seated == {u \in Users : rows[u] # NoRow}
SeatsBounded == IsFiniteSet(Seated) /\ Cardinality(Seated) <= SeatLimit

(* Nobody new sits down, except by a take. *)
LEMMA NobodyNew ==
    ASSUME SeatsBounded, Seated' \subseteq Seated
    PROVE  SeatsBounded'
<1>1. IsFiniteSet(Seated') /\ Cardinality(Seated') <= Cardinality(Seated)
  BY FS_Subset DEF SeatsBounded
<1>2. Cardinality(Seated) \in Nat /\ Cardinality(Seated') \in Nat
  BY <1>1, FS_CardinalityType DEF SeatsBounded
<1> QED
  BY <1>1, <1>2, LimitAssumption DEF SeatsBounded

(* A take that finds a free seat among the others' rows. *)
LEMMA TakeSeats ==
    ASSUME TypeOK, SeatsBounded, NEW p \in Processes, NEW u \in Users, TakeRow(p, u)
    PROVE  SeatsBounded'
<1>1. PICK began \in take[p][u].sent .. now :
        LET live == [v \in Users |-> IF rows[v] # NoRow /\ rows[v].expires < began THEN NoRow ELSE rows[v]]
            elsewhere == live[u] # NoRow /\ live[u].holder # p
            full == Cardinality({v \in Users \ {u} : live[v] # NoRow}) >= SeatLimit
            answer == IF elsewhere THEN "held" ELSE IF full THEN "cap" ELSE "ok"
            row == [holder |-> p, acquired |-> take[p][u].acquired, expires |-> began + Lease]
        IN  rows' = [v \in Users |-> IF v = u /\ answer = "ok" THEN row ELSE live[v]]
  BY DEF TakeRow
<1> DEFINE live == [v \in Users |-> IF rows[v] # NoRow /\ rows[v].expires < began THEN NoRow ELSE rows[v]]
           others == {v \in Users \ {u} : live[v] # NoRow}
           elsewhere == live[u] # NoRow /\ live[u].holder # p
           granted == ~elsewhere /\ ~(Cardinality(others) >= SeatLimit)
           row == [holder |-> p, acquired |-> take[p][u].acquired, expires |-> began + Lease]
<1>2. rows' = [v \in Users |-> IF v = u /\ granted THEN row ELSE live[v]]
  BY <1>1
<1>3. \A v \in Users : live[v] # NoRow => v \in Seated
  BY DEF Seated
<1>4. others \in SUBSET Seated
  BY <1>3
<1>5. IsFiniteSet(others) /\ Cardinality(others) \in Nat
  BY <1>4, FS_Subset, FS_CardinalityType DEF SeatsBounded
<1>6. CASE ~granted
  <2>1. rows' = live
    BY <1>2, <1>6
  <2>2. Seated' \subseteq Seated
    BY <1>3, <2>1 DEF Seated
  <2> QED
    BY <2>2, NobodyNew
<1>7. CASE granted
  <2>1. Seated' \subseteq others \cup {u}
    BY <1>2 DEF Seated
  <2>2. ~(Cardinality(others) >= SeatLimit) /\ u \notin others
    BY <1>7
  <2> HIDE DEF others
  <2>3. IsFiniteSet(others \cup {u}) /\ Cardinality(others \cup {u}) = Cardinality(others) + 1
    BY <1>5, <2>2, FS_AddElement
  <2>4. IsFiniteSet(Seated') /\ Cardinality(Seated') <= Cardinality(others) + 1
    BY <2>1, <2>3, FS_Subset
  <2>5. Cardinality(Seated') \in Nat
    BY <2>4, FS_CardinalityType
  <2> QED
    BY <1>5, <2>2, <2>4, <2>5, LimitAssumption DEF SeatsBounded
<1> QED
  BY <1>6, <1>7

(* HostLeases.take counts the tenant's rows under the tenant's lock: live  *)
(* leases never exceed the seats, for any number of processes and users,   *)
(* whatever renewals and deletes arrive late and whichever rows expire.    *)
(* No timing is assumed.                                                   *)
THEOREM SeatsAreKept == Spec => []SeatsKept
<1>1. Init => SeatsBounded
  <2> SUFFICES ASSUME Init PROVE SeatsBounded
    OBVIOUS
  <2>1. Seated = {}
    BY DEF Init, Seated
  <2> QED
    BY <2>1, FS_EmptySet, LimitAssumption DEF SeatsBounded
<1>2. TypeOK /\ SeatsBounded /\ [Next]_vars => SeatsBounded'
  <2> SUFFICES ASSUME TypeOK, SeatsBounded, [Next]_vars PROVE SeatsBounded'
    OBVIOUS
  <2>1. ASSUME UNCHANGED rows PROVE SeatsBounded'
    BY <2>1, NobodyNew DEF Seated
  <2>2. ASSUME NEW p \in Processes, NEW u \in Users,
               \/ SocketStep(p, u) \/ TakeFails(p, u) \/ TakeAnswered(p, u) \/ TakeRefused(p, u)
               \/ \E v \in Users : EvictForSeat(p, u, v)
               \/ Built(p, u) \/ BuildFails(p, u) \/ Dispose(p, u)
               \/ ReleaseAnswered(p, u) \/ ReleaseUnanswered(p, u)
        PROVE  SeatsBounded'
    <3>1. UNCHANGED rows
      BY <2>2 DEF SocketStep, Open, Join, LastSocketGone, Evict, TakeFails, TakeAnswered, TakeRefused,
                  EvictForSeat, Built, BuildFails, Dispose, ReleaseAnswered, ReleaseUnanswered
    <3> QED
      BY <2>1, <3>1
  <2>3. ASSUME NEW p \in Processes, Drain(p) \/ Renew(p) \/ StopStale(p) \/ Crash(p)
        PROVE  SeatsBounded'
    BY <2>1, <2>3 DEF Drain, Renew, StopStale, Crash
  <2>4. ASSUME NEW m \in renews, RenewRow(m) PROVE SeatsBounded'
    <3>1. Seated' \subseteq Seated
      BY <2>4 DEF RenewRow, Seated
    <3> QED
      BY <3>1, NobodyNew
  <2>5. ASSUME NEW m \in renews, RenewAnswered(m) \/ RenewFails(m) PROVE SeatsBounded'
    BY <2>1, <2>5 DEF RenewAnswered, RenewFails
  <2>6. ASSUME NEW m \in deletes, DeleteRow(m) PROVE SeatsBounded'
    <3>1. rows \in [Users -> RowType \cup {NoRow}] /\ (rows' = rows \/ rows' = [rows EXCEPT ![m.user] = NoRow])
      BY <2>6 DEF DeleteRow, TypeOK
    <3>2. Seated' \subseteq Seated
      BY <3>1 DEF Seated
    <3> QED
      BY <3>2, NobodyNew
  <2>7. CASE Tick \/ UNCHANGED vars
    BY <2>1, <2>7 DEF Tick, vars
  <2> QED
    BY <2>2, <2>3, <2>4, <2>5, <2>6, <2>7, TakeSeats DEF Next, InstanceStep
<1>3. SeatsBounded => SeatsKept
  <2> SUFFICES ASSUME SeatsBounded PROVE SeatsKept
    OBVIOUS
  <2> DEFINE live == {u \in Users : rows[u] # NoRow /\ rows[u].expires >= now}
  <2>1. live \in SUBSET Seated
    BY DEF Seated
  <2> HIDE DEF live
  <2>2. IsFiniteSet(live) /\ Cardinality(live) <= Cardinality(Seated)
    BY <2>1, FS_Subset DEF SeatsBounded
  <2>3. Cardinality(live) \in Nat /\ Cardinality(Seated) \in Nat
    BY <2>2, FS_CardinalityType DEF SeatsBounded
  <2>4. Cardinality(live) <= SeatLimit
    BY <2>2, <2>3, LimitAssumption DEF SeatsBounded
  <2> QED
    BY <2>4 DEF SeatsKept, live
<1> QED
  BY <1>1, <1>2, <1>3, TypeCorrect, PTL DEF Spec
=============================================================================
