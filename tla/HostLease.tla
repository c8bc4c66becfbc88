----------------------------- MODULE HostLease -----------------------------
(***************************************************************************)
(* One browser host per user across server processes, for one tenant:      *)
(*   - HostLeases (server/src/host/lease.ts): a lease is a row with an     *)
(*     expiry on the database's clock; a process renews what it holds, and *)
(*     gives a lease up when it was not confirmed for STALE_MS on its own  *)
(*     clock;                                                              *)
(*   - HostInstances (server/src/host/instances.ts): an instance takes the *)
(*     lease, builds its host, and its eviction runs the host's quit path  *)
(*     and then gives the lease back; at the tenant's cap an idle instance *)
(*     is evicted for a new one.                                           *)
(* Statements and their answers may be delayed, lost or, for a delete and  *)
(* a renewal, run after the process stopped waiting.  A timer fires on     *)
(* time; both clocks run at the same rate.                                 *)
(***************************************************************************)
EXTENDS Naturals, FiniteSets

CONSTANTS
    Processes,      \* server processes (a restarted one is another one)
    Users,          \* users of the tenant
    SeatLimit,      \* the tenant's seats
    Lease,          \* LEASE_MS
    Stale,          \* STALE_MS
    Quit,           \* bound: an eviction builds, quits and disposes a host in this time
    TakeWait,       \* bound: a take is answered, or fails, in this time
    NoRow,          \* no host_leases row
    NoLease,        \* the process holds no lease of the user
    Never,          \* no time by which the host has to be gone
    MaxTime,        \* bound on the clock
    MaxOpens,       \* bound: instances opened
    MaxRenews       \* bound: renewals under way

ASSUME TimesAssumption ==
    /\ Lease \in Nat /\ Stale \in Nat /\ Quit \in Nat /\ TakeWait \in Nat
    /\ Never \notin Nat
ASSUME LimitAssumption == SeatLimit \in Nat

RowType == [holder : Processes, acquired : Nat, expires : Nat]
LeaseType == [acquired : Nat, confirmed : Nat]
ASSUME AbsentAssumption == NoRow \notin RowType /\ NoLease \notin LeaseType

VARIABLES
    now,        \* the database's clock, and every process's
    rows,       \* host_leases: [holder, acquired, expires] of each user
    held,       \* HostLeases.held: [acquired, confirmed] of each process and user
    ended,      \* HostLeases.ended: the take of a lease that was lost, or 0
    pc,         \* where each instance stands
    evicting,   \* the instance has left HostInstances.instances
    idle,       \* it has no open socket
    take,       \* its take: [acquired, sent, answer, victim]
    stopBy,     \* when the host of a lost lease is gone at the latest
    renews,     \* renewals sent and not yet answered or failed
    deletes,    \* releases sent and not yet run
    closed,     \* the process is shutting down, or has stopped
    opens       \* instances opened so far

leases == <<held, ended>>
instances == <<pc, evicting, idle, take, stopBy>>
wires == <<renews, deletes>>
vars == <<now, rows, leases, instances, wires, closed, opens>>

Asking(token, time) == [acquired |-> token, sent |-> time, answer |-> "none", victim |-> NoRow]
NoTake == Asking(0, 0)

Init ==
    /\ now = 0
    /\ rows = [u \in Users |-> NoRow]
    /\ held = [p \in Processes |-> [u \in Users |-> NoLease]]
    /\ ended = [p \in Processes |-> [u \in Users |-> 0]]
    /\ pc = [p \in Processes |-> [u \in Users |-> "none"]]
    /\ evicting = [p \in Processes |-> [u \in Users |-> FALSE]]
    /\ idle = [p \in Processes |-> [u \in Users |-> FALSE]]
    /\ take = [p \in Processes |-> [u \in Users |-> NoTake]]
    /\ stopBy = [p \in Processes |-> [u \in Users |-> Never]]
    /\ renews = {}
    /\ deletes = {}
    /\ closed = [p \in Processes |-> FALSE]
    /\ opens = 0

Goto(p, u, step) == pc' = [pc EXCEPT ![p][u] = step]

(* HostInstances.instances holds it *)
Present(p, u) == pc[p][u] # "none" /\ ~evicting[p][u]

(* The host exists: it may write the user's checkout. *)
Running(p, u) == pc[p][u] \in {"building", "open"}

---------------------------------------------------------------------------
(* HostInstances: sockets *)

(* A socket of a user without an instance here, nor an eviction under way. *)
Open(p, u) ==
    /\ ~closed[p] /\ pc[p][u] = "none"
    /\ opens < MaxOpens
    /\ opens' = opens + 1
    /\ take' = [take EXCEPT ![p][u] = Asking(opens + 1, now)]
    /\ Goto(p, u, "taking")
    /\ UNCHANGED <<now, rows, leases, evicting, idle, stopBy, wires, closed>>

(* Another socket joins; the idle timer is cancelled. *)
Join(p, u) ==
    /\ ~closed[p] /\ Present(p, u) /\ idle[p][u]
    /\ idle' = [idle EXCEPT ![p][u] = FALSE]
    /\ UNCHANGED <<now, rows, leases, pc, evicting, take, stopBy, wires, closed, opens>>

(* The last socket closed; the idle timer starts. *)
LastSocketGone(p, u) ==
    /\ Present(p, u) /\ ~idle[p][u]
    /\ idle' = [idle EXCEPT ![p][u] = TRUE]
    /\ UNCHANGED <<now, rows, leases, pc, evicting, take, stopBy, wires, closed, opens>>

(* The instances of S leave the map; each waits for its host, then quits.  *)
EvictAll(p, S) ==
    evicting' = [evicting EXCEPT ![p] = [u \in Users |-> @[u] \/ (u \in S /\ pc[p][u] # "none")]]

(* The idle timer ran out, the session ended or the tenant was stopped.    *)
Evict(p, u) ==
    /\ Present(p, u)
    /\ EvictAll(p, {u})
    /\ UNCHANGED <<now, rows, leases, pc, idle, take, stopBy, wires, closed, opens>>

(* drain, closeAll *)
Drain(p) ==
    /\ ~closed[p]
    /\ closed' = [closed EXCEPT ![p] = TRUE]
    /\ EvictAll(p, Users)
    /\ UNCHANGED <<now, rows, leases, pc, idle, take, stopBy, wires, opens>>

(* The instance of u is over.  Whoever evicted it for its seat takes       *)
(* again, unless the seat may still be taken up.                           *)
WaitsFor(p, v, u) == pc[p][v] = "capped" /\ take[p][v].victim = u
Over(p, u, freed) ==
    LET retry == {v \in Users : freed /\ WaitsFor(p, v, u)}
        gone == {u} \cup {v \in Users : ~freed /\ WaitsFor(p, v, u)}
    IN  /\ pc' = [pc EXCEPT ![p] = [v \in Users |->
                     IF v \in gone THEN "none" ELSE IF v \in retry THEN "taking" ELSE @[v]]]
        /\ take' = [take EXCEPT ![p] = [v \in Users |->
                     IF v \in gone THEN NoTake
                     ELSE IF v \in retry THEN Asking(take[p][v].acquired, now)
                     ELSE @[v]]]
        /\ idle' = [idle EXCEPT ![p] = [v \in Users |-> @[v] /\ v \notin gone]]
        /\ evicting' = [evicting EXCEPT ![p] = [v \in Users |-> @[v] /\ v \notin gone]]

---------------------------------------------------------------------------
(* HostLeases.take, HostInstances.build and takeWithin *)

(* Mutant: the seats are counted from the rows of this process alone. *)
TakeRowOwnSeats(p, u) ==
    /\ pc[p][u] = "taking"
    /\ \E began \in take[p][u].sent .. now :
          LET live == [v \in Users |-> IF rows[v] # NoRow /\ rows[v].expires < began THEN NoRow ELSE rows[v]]
              elsewhere == live[u] # NoRow /\ live[u].holder # p
              full == Cardinality({v \in Users \ {u} : live[v] # NoRow /\ live[v].holder = p}) >= SeatLimit
              answer == IF elsewhere THEN "held" ELSE IF full THEN "cap" ELSE "ok"
              row == [holder |-> p, acquired |-> take[p][u].acquired, expires |-> began + Lease]
          IN  /\ rows' = [v \in Users |-> IF v = u /\ answer = "ok" THEN row ELSE live[v]]
              /\ take' = [take EXCEPT ![p][u].answer = answer]
    /\ Goto(p, u, "took")
    /\ UNCHANGED <<now, leases, evicting, idle, stopBy, wires, closed, opens>>

(* The take's transaction.  Its now() is when it began; it may have waited *)
(* for the tenant's lease lock since.                                      *)
TakeRow(p, u) ==
    /\ pc[p][u] = "taking"
    /\ \E began \in take[p][u].sent .. now :
          LET live == [v \in Users |-> IF rows[v] # NoRow /\ rows[v].expires < began THEN NoRow ELSE rows[v]]
              elsewhere == live[u] # NoRow /\ live[u].holder # p
              full == Cardinality({v \in Users \ {u} : live[v] # NoRow}) >= SeatLimit
              answer == IF elsewhere THEN "held" ELSE IF full THEN "cap" ELSE "ok"
              row == [holder |-> p, acquired |-> take[p][u].acquired, expires |-> began + Lease]
          IN  /\ rows' = [v \in Users |-> IF v = u /\ answer = "ok" THEN row ELSE live[v]]
              /\ take' = [take EXCEPT ![p][u].answer = answer]
    /\ Goto(p, u, "took")
    /\ UNCHANGED <<now, leases, evicting, idle, stopBy, wires, closed, opens>>

(* The connection is lost, before the commit or after it. *)
TakeFails(p, u) ==
    /\ pc[p][u] \in {"taking", "took"}
    /\ Over(p, u, FALSE)
    /\ UNCHANGED <<now, rows, leases, stopBy, wires, closed, opens>>

(* Mutant: the lease counts from when the answer came. *)
TakeAnsweredNow(p, u) ==
    /\ pc[p][u] = "took" /\ take[p][u].answer = "ok"
    /\ held' = [held EXCEPT ![p][u] = [acquired |-> take[p][u].acquired, confirmed |-> now]]
    /\ ended' = [ended EXCEPT ![p][u] = 0]
    /\ take' = [take EXCEPT ![p][u] = NoTake]
    /\ Goto(p, u, "building")
    /\ UNCHANGED <<now, rows, evicting, idle, stopBy, wires, closed, opens>>

(* The lease counts from when the take was sent; the host is built. *)
TakeAnswered(p, u) ==
    /\ pc[p][u] = "took" /\ take[p][u].answer = "ok"
    /\ held' = [held EXCEPT ![p][u] = [acquired |-> take[p][u].acquired, confirmed |-> take[p][u].sent]]
    /\ ended' = [ended EXCEPT ![p][u] = 0]
    /\ take' = [take EXCEPT ![p][u] = NoTake]
    /\ Goto(p, u, "building")
    /\ UNCHANGED <<now, rows, evicting, idle, stopBy, wires, closed, opens>>

(* Mutant: an instance still waiting for its own take is evicted for its seat. *)
EvictableUnbuilt(p, v) == Present(p, v) /\ idle[p][v]

(* longestIdle: any idle instance whose host is built stands for it. *)
Evictable(p, v) == Present(p, v) /\ idle[p][v] /\ pc[p][v] = "open"

(* host-lease-held, or host-instance-cap without an instance to evict *)
TakeRefused(p, u) ==
    /\ pc[p][u] = "took"
    /\ \/ take[p][u].answer = "held"
       \/ take[p][u].answer = "cap" /\ (closed[p] \/ \A v \in Users : ~Evictable(p, v))
    /\ Over(p, u, FALSE)
    /\ UNCHANGED <<now, rows, leases, stopBy, wires, closed, opens>>

(* host-instance-cap: an idle instance is evicted, and waited for *)
EvictForSeat(p, u, v) ==
    /\ pc[p][u] = "took" /\ take[p][u].answer = "cap"
    /\ ~closed[p] /\ Evictable(p, v)
    /\ EvictAll(p, {v})
    /\ take' = [take EXCEPT ![p][u].victim = v]
    /\ Goto(p, u, "capped")
    /\ UNCHANGED <<now, rows, leases, idle, stopBy, wires, closed, opens>>

Built(p, u) ==
    /\ pc[p][u] = "building"
    /\ Goto(p, u, "open")
    /\ UNCHANGED <<now, rows, leases, evicting, idle, take, stopBy, wires, closed, opens>>

(* HostLeases.release: the lease is forgotten, held or lost meanwhile, and *)
(* a delete is sent that names the very take.                              *)
Taken(p, u) == IF held[p][u] # NoLease THEN held[p][u].acquired ELSE ended[p][u]
Release(p, u) ==
    /\ held' = [held EXCEPT ![p][u] = NoLease]
    /\ ended' = [ended EXCEPT ![p][u] = 0]
    /\ take' = [take EXCEPT ![p][u].acquired = Taken(p, u)]
    /\ deletes' = deletes \cup {[user |-> u, holder |-> p, acquired |-> Taken(p, u)]}
    /\ stopBy' = [stopBy EXCEPT ![p][u] = Never]
    /\ Goto(p, u, "releasing")

BuildFails(p, u) ==
    /\ pc[p][u] = "building"
    /\ Release(p, u)
    /\ UNCHANGED <<now, rows, evicting, idle, renews, closed, opens>>

(* The quit path has run. *)
Dispose(p, u) ==
    /\ pc[p][u] = "open" /\ evicting[p][u]
    /\ Release(p, u)
    /\ UNCHANGED <<now, rows, evicting, idle, renews, closed, opens>>

(* However late it arrives *)
DeleteRow(m) ==
    /\ m \in deletes
    /\ deletes' = deletes \ {m}
    /\ rows' = IF rows[m.user] # NoRow /\ rows[m.user].holder = m.holder /\ rows[m.user].acquired = m.acquired
               THEN [rows EXCEPT ![m.user] = NoRow] ELSE rows
    /\ UNCHANGED <<now, leases, instances, renews, closed, opens>>

ReleaseAnswered(p, u) ==
    /\ pc[p][u] = "releasing"
    /\ [user |-> u, holder |-> p, acquired |-> take[p][u].acquired] \notin deletes
    /\ Over(p, u, TRUE)
    /\ UNCHANGED <<now, rows, leases, stopBy, wires, closed, opens>>

(* It fails, or RELEASE_WAIT_MS pass: the delete may still arrive. *)
ReleaseUnanswered(p, u) ==
    /\ pc[p][u] = "releasing"
    /\ Over(p, u, FALSE)
    /\ UNCHANGED <<now, rows, leases, stopBy, wires, closed, opens>>

---------------------------------------------------------------------------
(* HostLeases.renew, stopStale and lose *)

(* HostInstances.leaseLost: the instances stop now. *)
LeaseLost(p, S) ==
    /\ EvictAll(p, S)
    /\ stopBy' = [stopBy EXCEPT ![p] = [u \in Users |->
                     IF u \in S /\ Running(p, u) THEN now + Quit ELSE @[u]]]

(* The leases of S are gone: what to delete is kept. *)
Lose(p, S, keep) ==
    /\ held' = [held EXCEPT ![p] = [u \in Users |-> IF u \in S THEN NoLease ELSE keep[u]]]
    /\ ended' = [ended EXCEPT ![p] = [u \in Users |-> IF u \in S THEN held[p][u].acquired ELSE @[u]]]
    /\ LeaseLost(p, S)

(* One statement for every lease held, at most one in an instant. *)
Renew(p) ==
    /\ \E u \in Users : held[p][u] # NoLease
    /\ Cardinality(renews) < MaxRenews
    /\ \A m \in renews : m.holder = p => m.at # now
    /\ renews' = renews \cup
          {[holder |-> p, at |-> now, done |-> FALSE, kept |-> {},
            sent |-> [u \in Users |-> IF held[p][u] = NoLease THEN 0 ELSE held[p][u].acquired]]}
    /\ UNCHANGED <<now, rows, leases, instances, deletes, closed, opens>>

(* It names the holder and the users, not the takes. *)
RenewRow(m) ==
    /\ m \in renews /\ ~m.done
    /\ LET kept == {u \in Users : m.sent[u] # 0 /\ rows[u] # NoRow /\ rows[u].holder = m.holder}
       IN  /\ rows' = [u \in Users |-> IF u \in kept THEN [rows[u] EXCEPT !.expires = now + Lease] ELSE rows[u]]
           /\ renews' = (renews \ {m}) \cup {[m EXCEPT !.done = TRUE, !.kept = kept]}
    /\ UNCHANGED <<now, leases, instances, deletes, closed, opens>>

(* Only the very leases it was sent for are judged, and a confirmation     *)
(* never moves back.                                                       *)
Judged(p, m) == {u \in Users : held[p][u] # NoLease /\ held[p][u].acquired = m.sent[u]}
Confirmed(p, m) ==
    [u \in Users |-> IF u \in Judged(p, m) /\ u \in m.kept /\ held[p][u].confirmed < m.at
                     THEN [held[p][u] EXCEPT !.confirmed = m.at] ELSE held[p][u]]
RenewAnswered(m) ==
    /\ m \in renews /\ m.done
    /\ renews' = renews \ {m}
    /\ Lose(m.holder, Judged(m.holder, m) \ m.kept, Confirmed(m.holder, m))
    /\ UNCHANGED <<now, rows, pc, idle, take, deletes, closed, opens>>

RenewFails(m) ==
    /\ m \in renews
    /\ renews' = renews \ {m}
    /\ UNCHANGED <<now, rows, leases, instances, deletes, closed, opens>>

Due(p, u) == held[p][u] # NoLease /\ now >= held[p][u].confirmed + Stale

(* The watchdog *)
StopStale(p) ==
    /\ \E u \in Users : Due(p, u)
    /\ Lose(p, {u \in Users : Due(p, u)}, held[p])
    /\ UNCHANGED <<now, rows, pc, idle, take, wires, closed, opens>>

---------------------------------------------------------------------------
(* Time passes, but not past a watchdog, a quit path or a take's answer.   *)
Tick ==
    /\ now < MaxTime
    /\ \A p \in Processes, u \in Users :
          /\ ~Due(p, u)
          /\ stopBy[p][u] # Never => now < stopBy[p][u]
          /\ pc[p][u] \in {"taking", "took"} => now < take[p][u].sent + TakeWait
    /\ now' = now + 1
    /\ UNCHANGED <<rows, leases, instances, wires, closed, opens>>

(* The process is killed; what it sent may still arrive. *)
Crash(p) ==
    /\ \E u \in Users : pc[p][u] # "none"
    /\ closed' = [closed EXCEPT ![p] = TRUE]
    /\ held' = [held EXCEPT ![p] = [u \in Users |-> NoLease]]
    /\ ended' = [ended EXCEPT ![p] = [u \in Users |-> 0]]
    /\ pc' = [pc EXCEPT ![p] = [u \in Users |-> "none"]]
    /\ evicting' = [evicting EXCEPT ![p] = [u \in Users |-> FALSE]]
    /\ stopBy' = [stopBy EXCEPT ![p] = [u \in Users |-> Never]]
    /\ idle' = [idle EXCEPT ![p] = [u \in Users |-> FALSE]]
    /\ take' = [take EXCEPT ![p] = [u \in Users |-> NoTake]]
    /\ UNCHANGED <<now, rows, wires, opens>>

SocketStep(p, u) == Open(p, u) \/ Join(p, u) \/ LastSocketGone(p, u) \/ Evict(p, u)

InstanceStep(p, u) ==
    \/ TakeRow(p, u) \/ TakeFails(p, u) \/ TakeAnswered(p, u) \/ TakeRefused(p, u)
    \/ \E v \in Users : EvictForSeat(p, u, v)
    \/ Built(p, u) \/ BuildFails(p, u) \/ Dispose(p, u)
    \/ ReleaseAnswered(p, u) \/ ReleaseUnanswered(p, u)

Next ==
    \/ \E p \in Processes, u \in Users : SocketStep(p, u) \/ InstanceStep(p, u)
    \/ \E p \in Processes : Drain(p) \/ Renew(p) \/ StopStale(p) \/ Crash(p)
    \/ \E m \in renews : RenewRow(m) \/ RenewAnswered(m) \/ RenewFails(m)
    \/ \E m \in deletes : DeleteRow(m)
    \/ Tick

Spec == Init /\ [][Next]_vars

(* A statement is answered or fails, a host is built or not, and quits.    *)
FairSpec == Spec /\ \A p \in Processes, u \in Users : WF_vars(InstanceStep(p, u))

---------------------------------------------------------------------------
(* Properties *)

Steps == {"none", "taking", "took", "capped", "building", "open", "releasing"}
Answers == {"none", "ok", "held", "cap"}
TakeType == [acquired : Nat, sent : Nat, answer : Answers, victim : Users \cup {NoRow}]
RenewType == [holder : Processes, at : Nat, done : BOOLEAN, kept : SUBSET Users, sent : [Users -> Nat]]
DeleteType == [user : Users, holder : Processes, acquired : Nat]

TypeOK ==
    /\ now \in Nat
    /\ rows \in [Users -> RowType \cup {NoRow}]
    /\ held \in [Processes -> [Users -> LeaseType \cup {NoLease}]]
    /\ ended \in [Processes -> [Users -> Nat]]
    /\ pc \in [Processes -> [Users -> Steps]]
    /\ evicting \in [Processes -> [Users -> BOOLEAN]]
    /\ idle \in [Processes -> [Users -> BOOLEAN]]
    /\ take \in [Processes -> [Users -> TakeType]]
    /\ stopBy \in [Processes -> [Users -> Nat \cup {Never}]]
    /\ renews \in SUBSET RenewType
    /\ deletes \in SUBSET DeleteType
    /\ closed \in [Processes -> BOOLEAN]
    /\ opens \in Nat

(* "at most one process holds a user's host, so two processes never write  *)
(* one checkout" (lease.ts).                                               *)
OneHost ==
    \A p, q \in Processes, u \in Users : Running(p, u) /\ Running(q, u) => p = q

(* "A tenant holds at most its seat limit of live leases, counted across   *)
(* processes": also when takes race for the last seat, expired rows are    *)
(* revived by a late renewal and deletes arrive late.                      *)
SeatsKept ==
    Cardinality({u \in Users : rows[u] # NoRow /\ rows[u].expires >= now}) <= SeatLimit

(* Every opened instance gets its host or is refused: no two opens at the  *)
(* cap wait for each other's eviction.                                     *)
OpenSettles ==
    \A p \in Processes, u \in Users :
        pc[p][u] = "taking" ~> pc[p][u] \in {"none", "open", "releasing"}
=============================================================================
