------------------------------- MODULE LiveHub -------------------------------
(***************************************************************************)
(* The live hubs of a fleet (server/src/live/hub.ts) and the notification  *)
(* bus between them (server/src/operations/bus.ts), for one workspace:     *)
(*   - which sockets are subscribed, at the role that was seen, against    *)
(*     changes of access that are re-checked in the background;            *)
(*   - which users each hub believes the others have (presence).           *)
(* A process has one hub and one bus, and an id (holder) of its own: one   *)
(* that restarts is another member of Hubs.  Messages to the desktops,     *)
(* names, and the lists' parts are left out.                               *)
(***************************************************************************)
EXTENDS Naturals, Sequences

CONSTANTS
    Hubs, Users, Sockets,
    UserOf,         \* the user of each socket's session
    HubOf,          \* the process each socket connects to
    QueueLimit,     \* QUEUE_LIMIT
    InboxLimit,     \* INBOX_LIMIT
    None,
    MaxMoves,       \* the bound on subscribes and role changes together
    MaxFaults,      \* the bound on faults
    MaxResyncs      \* the bound on resyncs of whole hubs

Roles == {"none", "viewer", "editor"}

MessageType ==
    [kind : {"access"}, user : Users] \cup [kind : {"list"}, holder : Hubs, users : SUBSET Users]
    \cup [kind : {"reset"}, holder : Hubs] \cup [kind : {"marker"}]
SubscriptionType == [state : {"asking", "in"}, role : Roles]
RunType == [ask : SUBSET Users, seen : SUBSET [user : Users, role : Roles]]
HubType ==
    [mode : {"new", "up", "closed", "gone"}, announced : SUBSET Users, remote : [Hubs -> SUBSET Users],
     rechecks : Seq(SUBSET Users), run : RunType \cup {None}, resyncs : Nat]
BusType ==
    [out : Seq(MessageType), missed : BOOLEAN, marking : BOOLEAN, inbox : Seq(MessageType), lost : BOOLEAN,
     connected : BOOLEAN, raced : BOOLEAN]

ASSUME SocketAssumption == UserOf \in [Sockets -> Users] /\ HubOf \in [Sockets -> Hubs]
ASSUME LimitAssumption == QueueLimit \in Nat \ {0} /\ InboxLimit \in Nat \ {0}
ASSUME NoneAssumption == None \notin SubscriptionType \cup RunType

VARIABLES
    role,       \* the role of each user in the workspace, in the database
    sub,        \* of each socket None, or its subscription [state, role]
    hub,        \* of each process [mode, announced, remote, rechecks, run, resyncs]
    bus,        \* of each process [out, missed, marking, inbox, lost, connected, raced]
    count,      \* [move, fault, resync], how many there were
    unsure      \* history: sockets whose recorded role nothing is promised of

vars == <<role, sub, hub, bus, count, unsure>>

NewHub == [mode |-> "new", announced |-> {}, remote |-> [g \in Hubs |-> {}],
           rechecks |-> <<>>, run |-> None, resyncs |-> 0]
NewBus == [out |-> <<>>, missed |-> FALSE, marking |-> FALSE, inbox |-> <<>>, lost |-> FALSE,
           connected |-> FALSE, raced |-> FALSE]

Init ==
    /\ role = [u \in Users |-> "editor"]
    /\ sub = [s \in Sockets |-> None]
    /\ hub = [h \in Hubs |-> NewHub]
    /\ bus = [h \in Hubs |-> NewBus]
    /\ count = [move |-> 0, fault |-> 0, resync |-> 0]
    /\ unsure = {}

Up(h) == hub[h].mode = "up"
Counted(k, max) == count[k] < max /\ count' = [count EXCEPT ![k] = @ + 1]
Move == Counted("move", MaxMoves)
Fault == Counted("fault", MaxFaults)
Resync == Counted("resync", MaxResyncs)

Subscribed(sb, h) == {s \in Sockets : HubOf[s] = h /\ sb[s] # None /\ sb[s].state = "in"}
(* localUserIds *)
Local(sb, h) == {UserOf[s] : s \in Subscribed(sb, h)}

---------------------------------------------------------------------------
(* The bus *)

Newest(q, limit) == IF Len(q) > limit THEN SubSeq(q, Len(q) - limit + 1, Len(q)) ELSE q

(* send: a full queue drops its oldest, and a missed marker is owed.       *)
(* raced is history, here a drop between the marker and its answer, which  *)
(* takes the debt away.                                                    *)
Send(b, m) ==
    [b EXCEPT !.out = Newest(Append(@, m), QueueLimit),
              !.missed = @ \/ Len(b.out) >= QueueLimit,
              !.raced = @ \/ (b.marking /\ Len(b.out) >= QueueLimit)]

Access(u) == [kind |-> "access", user |-> u]
List(h, users) == [kind |-> "list", holder |-> h, users |-> users]
Reset(h) == [kind |-> "reset", holder |-> h]
Marker == [kind |-> "marker"]

(* #heard: a full inbox drops its oldest. *)
Heard(b, m) ==
    [b EXCEPT !.inbox = Newest(Append(@, m), InboxLimit), !.lost = @ \/ Len(b.inbox) >= InboxLimit]

(* What pg_notify carries reaches every process that listens but the one   *)
(* it comes from.                                                          *)
Carry(h, m, mine) ==
    bus' = [g \in Hubs |->
        IF g = h THEN mine ELSE IF bus[g].connected THEN Heard(bus[g], m) ELSE bus[g]]

Sends(h) == hub[h].mode \in {"up", "closed"} /\ ~bus[h].marking

(* #pump: the missed marker goes first whenever one is owed. *)
PumpMarker(h) ==
    /\ Sends(h) /\ bus[h].missed
    /\ Carry(h, Marker, [bus[h] EXCEPT !.marking = TRUE])
    /\ UNCHANGED <<role, sub, hub, count, unsure>>

MarkerSent(h) ==
    /\ bus[h].marking
    /\ bus' = [bus EXCEPT ![h].marking = FALSE, ![h].missed = FALSE]
    /\ UNCHANGED <<role, sub, hub, count, unsure>>

(* The next payload, after the marker or when that failed and is owed      *)
(* still.                                                                  *)
Pump(h) ==
    /\ Sends(h) /\ bus[h].out # <<>>
    /\ \/ ~bus[h].missed /\ UNCHANGED count
       \/ bus[h].missed /\ Fault
    /\ Carry(h, Head(bus[h].out), [bus[h] EXCEPT !.out = Tail(@)])
    /\ UNCHANGED <<role, sub, hub, unsure>>

(* A payload that fails every try is given up, and the marker owed. *)
GiveUp(h) ==
    /\ Sends(h) /\ ~bus[h].missed /\ bus[h].out # <<>>
    /\ Fault
    /\ bus' = [bus EXCEPT ![h].out = Tail(@), ![h].missed = TRUE]
    /\ UNCHANGED <<role, sub, hub, unsure>>

(* The listening connection is lost; what it was about to bring is not     *)
(* heard.  What is in the inbox is.                                        *)
LoseConnection(h) ==
    /\ Up(h) /\ bus[h].connected
    /\ Fault
    /\ bus' = [bus EXCEPT ![h].connected = FALSE]
    /\ UNCHANGED <<role, sub, hub, unsure>>

---------------------------------------------------------------------------
(* Presence and access, as a hub handles them: each gives the hub and the  *)
(* bus of h after it, from those before                                    *)

(* announceOwn *)
AnnounceOwn(h, hb, b, sb) ==
    IF Local(sb, h) = hb.announced THEN [hub |-> hb, bus |-> b]
    ELSE [hub |-> [hb EXCEPT !.announced = Local(sb, h)], bus |-> Send(b, List(h, Local(sb, h)))]
(* The same with `force`, for the rooms there are. *)
AnnounceAgain(h, hb, b) ==
    IF Local(sub, h) = {} THEN [hub |-> hb, bus |-> b]
    ELSE [hub |-> [hb EXCEPT !.announced = Local(sub, h)], bus |-> Send(b, List(h, Local(sub, h)))]

(* accessChanged: nothing subscribed, nothing to re-check. *)
AccessChanged(h, hb, scope) ==
    IF Subscribed(sub, h) = {} THEN hb ELSE [hb EXCEPT !.rechecks = Append(@, scope)]

(* Mutant: the others are not asked for their lists. *)
ListenedAlone(h, b, reconnected) ==
    LET forgets == [hub[h] EXCEPT !.mode = "up", !.remote = IF reconnected THEN [g \in Hubs |-> {}] ELSE @]
    IN  AnnounceAgain(h, forgets, b)
(* listened: after a loss the lists kept are forgotten and the room        *)
(* resyncs; each time the hub says reset and its own list.                 *)
Listened(h, b, reconnected) ==
    LET forgets == [hub[h] EXCEPT !.mode = "up",
                        !.remote = IF reconnected THEN [g \in Hubs |-> {}] ELSE @,
                        !.resyncs = IF reconnected /\ Local(sub, h) # {} THEN @ + 1 ELSE @]
    IN  AnnounceAgain(h, forgets, Send(b, Reset(h)))

Becomes(h, after) == hub' = [hub EXCEPT ![h] = after.hub] /\ bus' = [bus EXCEPT ![h] = after.bus]

(* start, and #reconnect.  raced: what the inbox still holds is older than *)
(* the lists that the others answer with.                                  *)
Listen(h) ==
    /\ \/ hub[h].mode = "new" /\ UNCHANGED count
       \/ Up(h) /\ ~bus[h].connected /\ Resync
    /\ Becomes(h, Listened(h, [bus[h] EXCEPT !.connected = TRUE, !.raced = @ \/ bus[h].inbox # <<>>], Up(h)))
    /\ UNCHANGED <<role, sub, unsure>>

(* presenceReset *)
PresenceReset(h, g, b) == AnnounceAgain(h, [hub[h] EXCEPT !.remote[g] = {}], b)

NextHeard(h) == Head(bus[h].inbox)
Drained(h) == [bus[h] EXCEPT !.inbox = Tail(@)]

(* #deliver: the next notification of the inbox. *)
Hear(h) ==
    /\ Up(h) /\ bus[h].inbox # <<>>
    /\ LET m == NextHeard(h)
           b == Drained(h)
       IN  \/ m.kind = "list" /\ Becomes(h, [hub |-> [hub[h] EXCEPT !.remote[m.holder] = m.users], bus |-> b])
           \/ m.kind = "reset" /\ Becomes(h, PresenceReset(h, m.holder, b))
           \/ m.kind = "access" /\ Becomes(h, [hub |-> AccessChanged(h, hub[h], {m.user}), bus |-> b])
    /\ UNCHANGED <<role, sub, count, unsure>>

(* #resyncAll, for a missed marker, or for an inbox that dropped something *)
(* once it is empty.                                                       *)
ResyncAll(h) ==
    /\ Up(h) /\ Resync
    /\ \/ /\ bus[h].inbox # <<>> /\ NextHeard(h).kind = "marker"
          /\ Becomes(h, Listened(h, Drained(h), TRUE))
       \/ /\ bus[h].inbox = <<>> /\ bus[h].lost
          /\ Becomes(h, Listened(h, [bus[h] EXCEPT !.lost = FALSE], TRUE))
    /\ UNCHANGED <<role, sub, unsure>>

(* The tenant of an access change could not be read: the change is lost. *)
HearFails(h) ==
    /\ Up(h) /\ bus[h].inbox # <<>> /\ NextHeard(h).kind = "access"
    /\ Fault
    /\ bus' = [bus EXCEPT ![h] = Drained(h)]
    /\ unsure' = unsure \cup Subscribed(sub, h)
    /\ UNCHANGED <<role, sub, hub>>

(* resyncRooms, after its queries: an access re-check of everyone. *)
ResyncEnds(h) ==
    /\ Up(h) /\ hub[h].resyncs > 0
    /\ hub' = [hub EXCEPT ![h] = AccessChanged(h, [hub[h] EXCEPT !.resyncs = @ - 1], Users)]
    /\ UNCHANGED <<role, sub, bus, count, unsure>>

(* keepHolders, on the heartbeat: the lists of processes whose instance    *)
(* row is gone.                                                            *)
KeepHolders(h) ==
    /\ Up(h)
    /\ \E g \in Hubs : hub[g].mode = "gone" /\ hub[h].remote[g] # {}
    /\ hub' = [hub EXCEPT ![h].remote = [g \in Hubs |-> IF hub[g].mode = "gone" THEN {} ELSE @[g]]]
    /\ UNCHANGED <<role, sub, bus, count, unsure>>

---------------------------------------------------------------------------
(* Subscriptions *)

(* admitSubscription up to its query, which sees the role there is. *)
Subscribe(s) ==
    /\ Up(HubOf[s]) /\ sub[s] = None
    /\ Move
    /\ sub' = [sub EXCEPT ![s] = [state |-> "asking", role |-> role[UserOf[s]]]]
    /\ UNCHANGED <<role, hub, bus, unsure>>

(* Outdated: the answer, or one that a re-check is about to apply, is from *)
(* before the last change of the role.                                     *)
Answers(s) == {sub[s].role} \cup
    (IF hub[HubOf[s]].run = None THEN {} ELSE {a.role : a \in {b \in hub[HubOf[s]].run.seen : b.user = UserOf[s]}})
Outdated(s) == Answers(s) # {role[UserOf[s]]}

(* And after it: the answer is used, though the role may have changed.     *)
Admit(s) ==
    /\ sub[s] # None /\ sub[s].state = "asking"
    /\ sub' = [sub EXCEPT ![s] = IF @.role = "none" THEN None ELSE [@ EXCEPT !.state = "in"]]
    /\ unsure' = IF sub[s].role # "none" /\ Outdated(s) THEN unsure \cup {s} ELSE unsure
    /\ Becomes(HubOf[s], AnnounceOwn(HubOf[s], hub[HubOf[s]], bus[HubOf[s]], sub'))
    /\ UNCHANGED <<role, count>>

(* unsubscribe, and detach for whatever reason: closed, silent, dead, its  *)
(* session over, its query failed.                                         *)
Leave(s) ==
    /\ sub[s] # None
    /\ sub' = [sub EXCEPT ![s] = None]
    /\ unsure' = unsure \ {s}
    /\ Becomes(HubOf[s], AnnounceOwn(HubOf[s], hub[HubOf[s]], bus[HubOf[s]], sub'))
    /\ UNCHANGED <<role, count>>

(* A role changes in a request at h: stored, then announced here and on    *)
(* the bus.                                                                *)
ChangeRole(h, u, r) ==
    /\ Up(h) /\ role[u] # r
    /\ Move
    /\ role' = [role EXCEPT ![u] = r]
    /\ hub' = [hub EXCEPT ![h] = AccessChanged(h, @, {u})]
    /\ bus' = [bus EXCEPT ![h] = Send(@, Access(u))]
    /\ UNCHANGED <<sub, unsure>>

(* recheck, one after another: whom to ask for, ... *)
RecheckBegins(h) ==
    /\ Up(h) /\ hub[h].run = None /\ hub[h].rechecks # <<>>
    /\ hub' = [hub EXCEPT ![h].rechecks = Tail(@),
                          ![h].run = [ask |-> Local(sub, h) \cap Head(hub[h].rechecks), seen |-> {}]]
    /\ UNCHANGED <<role, sub, bus, count, unsure>>

(* ... one query at a time, ... *)
RecheckAsks(h, u) ==
    /\ Up(h) /\ hub[h].run # None /\ u \in hub[h].run.ask
    /\ hub' = [hub EXCEPT ![h].run = [ask |-> @.ask \ {u}, seen |-> @.seen \cup {[user |-> u, role |-> role[u]]}]]
    /\ UNCHANGED <<role, sub, bus, count, unsure>>

Touched(h, run) == {s \in Subscribed(sub, h) : \E a \in run.seen : a.user = UserOf[s]}
SeenRole(run, u) == (CHOOSE a \in run.seen : a.user = u).role
(* Mutant: only a lost role is applied. *)
AppliedLost(h, run) ==
    [s \in Sockets |-> IF s \in Touched(h, run) /\ SeenRole(run, UserOf[s]) = "none" THEN None ELSE sub[s]]
Applied(h, run) ==
    [s \in Sockets |->
        IF s \notin Touched(h, run) THEN sub[s]
        ELSE IF SeenRole(run, UserOf[s]) = "none" THEN None
        ELSE [sub[s] EXCEPT !.role = SeenRole(run, UserOf[s])]]

(* ... and applyRoles on the subscriptions there are now.                  *)
ApplyRoles(h) ==
    /\ Up(h) /\ hub[h].run # None /\ hub[h].run.ask = {}
    /\ sub' = Applied(h, hub[h].run)
    /\ unsure' = unsure \ {s \in Touched(h, hub[h].run) : SeenRole(hub[h].run, UserOf[s]) = role[UserOf[s]]}
    /\ Becomes(h, AnnounceOwn(h, [hub[h] EXCEPT !.run = None], bus[h], sub'))
    /\ UNCHANGED <<role, count>>

(* A query fails: the whole re-check is given up. *)
RecheckFails(h) ==
    /\ Up(h) /\ hub[h].run # None /\ hub[h].run.ask # {}
    /\ Fault
    /\ hub' = [hub EXCEPT ![h].run = None]
    /\ unsure' = unsure \cup Subscribed(sub, h)
    /\ UNCHANGED <<role, sub, bus>>

---------------------------------------------------------------------------
(* The end of a process *)

SocketsElsewhere(h) == [s \in Sockets |-> IF HubOf[s] = h THEN None ELSE sub[s]]

(* closeAll: the others are told; the bus goes on to send what it has. *)
CloseAll(h) ==
    /\ Up(h) /\ Fault
    /\ sub' = SocketsElsewhere(h)
    /\ hub' = [hub EXCEPT ![h] = [NewHub EXCEPT !.mode = "closed"]]
    /\ bus' = [bus EXCEPT ![h] = IF hub[h].announced = {} THEN @ ELSE Send(@, Reset(h))]
    /\ UNCHANGED <<role, unsure>>

(* The bus has stopped, or the process was killed: what it had not sent is *)
(* lost.                                                                   *)
Ends(h) ==
    /\ \/ hub[h].mode = "closed" /\ UNCHANGED count
       \/ Up(h) /\ Fault
    /\ sub' = SocketsElsewhere(h)
    /\ hub' = [hub EXCEPT ![h] = [NewHub EXCEPT !.mode = "gone"]]
    /\ bus' = [bus EXCEPT ![h] = [NewBus EXCEPT !.raced = bus[h].raced]]
    /\ unsure' = IF bus[h].out = <<>> /\ ~bus[h].missed THEN unsure
                 ELSE unsure \cup {s \in Sockets : sub'[s] # None}
    /\ UNCHANGED role

BusStep(h) == PumpMarker(h) \/ MarkerSent(h) \/ Pump(h) \/ Hear(h) \/ ResyncAll(h) \/ Listen(h)
HubStep(h) ==
    \/ ResyncEnds(h) \/ KeepHolders(h) \/ RecheckBegins(h) \/ ApplyRoles(h)
    \/ \E u \in Users : RecheckAsks(h, u)

Next ==
    \/ \E h \in Hubs :
         \/ BusStep(h) \/ HubStep(h)
         \/ GiveUp(h) \/ HearFails(h) \/ LoseConnection(h) \/ RecheckFails(h) \/ CloseAll(h) \/ Ends(h)
         \/ \E u \in Users, r \in Roles : ChangeRole(h, u, r)
    \/ \E s \in Sockets : Subscribe(s) \/ Admit(s) \/ Leave(s)

Spec == Init /\ [][Next]_vars

---------------------------------------------------------------------------
(* Properties *)

TypeOK ==
    /\ role \in [Users -> Roles]
    /\ sub \in [Sockets -> SubscriptionType \cup {None}]
    /\ hub \in [Hubs -> HubType]
    /\ bus \in [Hubs -> BusType]
    /\ unsure \subseteq Sockets
    /\ \A h \in Hubs : Len(bus[h].out) <= QueueLimit /\ Len(bus[h].inbox) <= InboxLimit

(* Nothing is on its way and nothing is owed. *)
BusQuiet ==
    \A h \in Hubs :
        /\ bus[h].out = <<>> /\ ~bus[h].missed /\ ~bus[h].raced
        /\ Up(h) => bus[h].connected /\ bus[h].inbox = <<>> /\ ~bus[h].lost
HubQuiet(h) == hub[h].rechecks = <<>> /\ hub[h].run = None /\ hub[h].resyncs = 0

(* Once the bus is quiet, every hub has every other's users right,         *)
(* whatever was dropped from full queues, given up, not heard during a     *)
(* lost connection, or answered while it was re-sent.                      *)
PresenceAgrees ==
    BusQuiet => \A g, h \in Hubs : g # h /\ Up(g) /\ Up(h) => hub[h].remote[g] = Local(sub, g)

(* "re-check on every access change": once the bus and a hub are quiet,    *)
(* its subscriptions have the role their users have, although the change   *)
(* was made at another process and its announcement may have been lost.    *)
(* Left open by the code: a subscription admitted on an answer from before *)
(* the change, and a re-check whose query failed.                          *)
RolesAgree ==
    BusQuiet => \A s \in Sockets :
        HubQuiet(HubOf[s]) /\ s \in Subscribed(sub, HubOf[s]) /\ s \notin unsure
            => sub[s].role = role[UserOf[s]]
=============================================================================
