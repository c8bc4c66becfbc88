----------------------------- MODULE AuditChain -----------------------------
(***************************************************************************)
(* One tenant's audit log (server/src/audit-log/): the sealer that links   *)
(* committed events into the keyed chain (chain/sealer.ts), the retention  *)
(* that cuts the chain at its oldest end (deleteSealedBefore, repo.ts),    *)
(* the forwarder that sends queued events to the tenant's sink             *)
(* (forward/forwarder.ts), and verify's walk (chain/verify.ts).  Every     *)
(* server has the chain's key.                                             *)
(* An event is its place in the order (at, id).  A link's hash is what it  *)
(* was computed from: the seq and event of the link and of those before    *)
(* it, a set because seqs grow along a chain.  Lease times are distances   *)
(* from now.                                                               *)
(***************************************************************************)
EXTENDS Naturals, FiniteSets

CONSTANTS
    Servers,
    MaxEvents,      \* bound: the events there are
    Forwarded,      \* the events recorded while the tenant forwards
    SealBatch,      \* SEAL_BATCH
    SweepBatch,     \* the sweeper's batch
    ForwardBatch,   \* FORWARD_BATCH
    Leases,         \* ids newId() draws leases from
    LeaseTime,      \* FORWARD_LEASE_MS
    SendTime,       \* a send has ended, its queue rows deleted or freed, in this time
    None,
    MaxFaults,      \* bound: units that fail, servers that die
    MaxRemovals     \* bound: sealed rows removed from outside

(* "well past the send's bound, so only a stalled server's batch is        *)
(* retaken"                                                                *)
ASSUME TimeAssumption == SendTime \in Nat /\ LeaseTime \in Nat /\ SendTime < LeaseTime
ASSUME BatchAssumption ==
    /\ MaxEvents \in Nat
    /\ SealBatch \in Nat \ {0} /\ SweepBatch \in Nat \ {0} /\ ForwardBatch \in Nat \ {0}

Events == 1 .. MaxEvents
Hashes == SUBSET (Nat \X Events)
LinkType == [seq : Nat, hash : Hashes]
AnchorType == [seq : Nat, hash : Hashes, headSeq : Nat]
QueueType == [lease : Leases \cup {None}, left : Nat]
SealUnit == [job : {"seal"}, anchor : AnchorType, head : LinkType, batch : SUBSET Events]
RetentionUnit == [job : {"retention"}, anchor : AnchorType, old : SUBSET Events]
ASSUME AbsentAssumption ==
    /\ None \notin LinkType /\ None \notin AnchorType /\ None \notin QueueType
    /\ None \notin SealUnit /\ None \notin RetentionUnit

VARIABLES
    row,        \* audit_events: of each event None, or its link [seq, hash], NoLink at first
    anchor,     \* audit_chain_anchor: [seq, hash, headSeq], or None
    queue,      \* audit_forward_queue: of each event None or [lease, left]
    unit,       \* of each server, the sealing or retention unit it has open
    sends,      \* sends under way: [server, lease, events, left, result]
    cutoff,     \* events up to here are past the retention age
    faults,
    \* history, for the properties only
    gone,       \* events retention deleted
    removed,    \* sealed events removed from outside
    received    \* events the sink has taken

chain == <<row, anchor>>
forwarding == <<queue, sends>>
history == <<gone, removed, received>>
vars == <<chain, forwarding, unit, cutoff, faults, history>>

NoLink == [seq |-> 0, hash |-> {}]          \* chain_seq is null
Free == [lease |-> None, left |-> 0]

Init ==
    /\ row = [e \in Events |-> None]
    /\ anchor = None
    /\ queue = [e \in Events |-> None]
    /\ unit = [p \in Servers |-> None]
    /\ sends = {}
    /\ cutoff = 0
    /\ faults = 0
    /\ gone = {} /\ removed = {} /\ received = {}

---------------------------------------------------------------------------
(* Recording *)

(* insertAuditEvent commits: the event, and its queue row where the tenant *)
(* forwards.  Its `at` was read before, so an older one may come later.    *)
Record(e) ==
    /\ row[e] = None /\ e \notin gone \cup removed
    /\ e > cutoff
    /\ row' = [row EXCEPT ![e] = NoLink]
    /\ queue' = [queue EXCEPT ![e] = IF e \in Forwarded THEN Free ELSE None]
    /\ UNCHANGED <<anchor, unit, sends, cutoff, faults, history>>

Sealed == {e \in Events : row[e] # None /\ row[e].seq > 0}
Unsealed == {e \in Events : row[e] = NoLink}
FirstOf(S, n) == {e \in S : Cardinality({d \in S : d < e}) < n}

---------------------------------------------------------------------------
(* Sealing *)

(* tryLockChain: the chain's lock belongs to a unit until its end. *)
LockFree == \A p \in Servers : unit[p] = None

Genesis == [seq |-> 0, hash |-> {}, headSeq |-> 0]
Link(prev, seq, e) == [seq |-> seq, hash |-> prev.hash \cup {<<seq, e>>}]

(* chainHead, or the anchor. *)
ChainHead(a) ==
    IF Sealed = {} THEN [seq |-> a.seq, hash |-> a.hash]
    ELSE row[CHOOSE e \in Sealed : \A d \in Sealed : row[d].seq <= row[e].seq]

(* Mutant: numbered after the last row that is there. *)
NextHeadOfRows(a) == ChainHead(a)
(* Linked to the last row's hash, numbered past head_seq too. *)
NextHead(a) == [ChainHead(a) EXCEPT !.seq = IF @ > a.headSeq THEN @ ELSE a.headSeq]

(* An event's place in a batch, and its link: each is linked to the one    *)
(* before it, the first to the head.                                       *)
Place(batch, e) == Cardinality({d \in batch : d <= e})
Links(head, batch) ==
    [e \in batch |->
        [seq |-> head.seq + Place(batch, e),
         hash |-> head.hash \cup {<<head.seq + Place(batch, d), d>> : d \in {c \in batch : c <= e}}]]

(* seal: the lock, the anchor or a genesis, the head, and the rows claimed *)
(* in order; what it reads stays in the unit until the commit.             *)
SealBegins(p) ==
    /\ unit[p] = None /\ LockFree
    /\ anchor = None => Sealed = {}     \* else the pass ends as bad-anchor
    /\ Unsealed # {} \/ anchor = None    \* else nothing would be written
    /\ LET a == IF anchor = None THEN Genesis ELSE anchor
       IN  unit' = [unit EXCEPT ![p] =
                        [job |-> "seal", anchor |-> a, head |-> NextHead(a), batch |-> FirstOf(Unsealed, SealBatch)]]
    /\ UNCHANGED <<chain, forwarding, cutoff, faults, history>>

(* sealRows, setAnchorHead and the unit's commit. *)
SealCommits(p) ==
    /\ unit[p] # None /\ unit[p].job = "seal"
    /\ LET u == unit[p]
       IN  /\ row' = [e \in Events |->
                        IF row[e] # None /\ e \in u.batch THEN Links(u.head, u.batch)[e] ELSE row[e]]
           /\ anchor' = [u.anchor EXCEPT !.headSeq =
                            IF u.batch = {} THEN @ ELSE u.head.seq + Cardinality(u.batch)]
    /\ unit' = [unit EXCEPT ![p] = None]
    /\ UNCHANGED <<forwarding, cutoff, faults, history>>

---------------------------------------------------------------------------
(* Retention *)

RowAt(seq) == {e \in Sealed : row[e].seq = seq}

(* The chain at a seq: the anchor's end, or the row there. *)
At(a, seq) == IF seq = a.seq THEN [seq |-> a.seq, hash |-> a.hash] ELSE row[CHOOSE e \in RowAt(seq) : TRUE]

(* The rows after the anchor whose links check and which are old, up to    *)
(* the first that is not, or is missing.                                   *)
Checked(a, n) ==
    {e \in Sealed :
        /\ a.seq < row[e].seq /\ row[e].seq <= a.seq + n
        /\ \A s \in a.seq + 1 .. row[e].seq :
             \E d \in RowAt(s) : d <= cutoff /\ row[d] = Link(At(a, s - 1), s, d)}

Held(e) == queue[e] # None /\ queue[e].left > 0
(* Mutant: a leased event goes like any other. *)
UnheldAll(S) == S
(* unheldByForwarder: the prefix ends before the first row whose queue     *)
(* entry is leased.  The free entries are locked until the unit ends.      *)
UnheldByForwarder(S) == {e \in S : \A d \in S : row[d].seq <= row[e].seq => ~Held(d)}

(* deleteSealedBefore up to its delete. *)
RetentionBegins(p) ==
    /\ unit[p] = None /\ LockFree
    /\ anchor # None
    /\ LET old == UnheldByForwarder(Checked(anchor, SweepBatch))
       IN  /\ old # {}
           /\ unit' = [unit EXCEPT ![p] = [job |-> "retention", anchor |-> anchor, old |-> old]]
    /\ UNCHANGED <<chain, forwarding, cutoff, faults, history>>

(* The rows go, their queue entries with them, and the anchor moves to the *)
(* last of them.                                                           *)
RetentionCommits(p) ==
    /\ unit[p] # None /\ unit[p].job = "retention"
    /\ LET u == unit[p]
           last == CHOOSE e \in u.old : \A d \in u.old : row[d].seq <= row[e].seq
       IN  /\ anchor' = [u.anchor EXCEPT !.seq = row[last].seq, !.hash = row[last].hash]
           /\ row' = [e \in Events |-> IF e \in u.old THEN None ELSE row[e]]
           /\ queue' = [e \in Events |-> IF e \in u.old THEN None ELSE queue[e]]
           /\ gone' = gone \cup u.old
    /\ unit' = [unit EXCEPT ![p] = None]
    /\ UNCHANGED <<sends, cutoff, faults, removed, received>>

LockedByRetention(e) == \E p \in Servers : unit[p] # None /\ unit[p].job = "retention" /\ e \in unit[p].old

(* A statement or the commit of a unit fails: nothing of it is stored. *)
UnitFails(p) ==
    /\ unit[p] # None
    /\ faults < MaxFaults /\ faults' = faults + 1
    /\ unit' = [unit EXCEPT ![p] = None]
    /\ UNCHANGED <<chain, forwarding, cutoff, history>>

---------------------------------------------------------------------------
(* Forwarding *)

Queued == {e \in Events : queue[e] # None}
(* Mutant: a leased event is free too. *)
ClaimableAll == {e \in Queued : ~LockedByRetention(e)}
(* No lease, or one that has run out, and no other unit's. *)
Claimable == {e \in Queued : queue[e].left = 0 /\ ~LockedByRetention(e)}

LeaseInUse(l) == (\E e \in Queued : Held(e) /\ queue[e].lease = l) \/ (\E m \in sends : m.lease = l)

(* claimForwardBatch in a pass of a server that has no send out; the send  *)
(* starts once the unit has committed.                                     *)
Claim(p) ==
    /\ \A m \in sends : m.server # p
    /\ Claimable # {}
    /\ LET batch == FirstOf(Claimable, ForwardBatch)
           l == CHOOSE l \in Leases : ~LeaseInUse(l)
       IN  /\ \E k \in Leases : ~LeaseInUse(k)
           /\ queue' = [e \in Events |-> IF e \in batch THEN [lease |-> l, left |-> LeaseTime] ELSE queue[e]]
           /\ sends' = sends \cup {[server |-> p, lease |-> l, events |-> batch, left |-> SendTime, result |-> "none"]}
    /\ UNCHANGED <<chain, unit, cutoff, faults, history>>

(* The sink takes the batch; its answer may be lost, or it refuses. *)
Send(m, taken, result) ==
    /\ m.result = "none"
    /\ result = "sent" => taken
    /\ sends' = (sends \ {m}) \cup {[m EXCEPT !.result = result]}
    /\ received' = IF taken THEN received \cup m.events ELSE received
    /\ UNCHANGED <<chain, queue, unit, cutoff, faults, gone, removed>>

Ends(m) == sends' = sends \ {m} /\ UNCHANGED <<chain, unit, cutoff, history>>

(* Mutant: the queue rows go whatever became of the send. *)
DeleteWhatever(m) ==
    /\ m.result # "none"
    /\ queue' = [e \in Events |-> IF e \in m.events /\ queue[e] # None /\ queue[e].lease = m.lease THEN None ELSE queue[e]]
    /\ Ends(m) /\ UNCHANGED faults
(* deleteForwarded: those still under the lease. *)
DeleteForwarded(m) ==
    /\ m.result = "sent"
    /\ queue' = [e \in Events |-> IF e \in m.events /\ queue[e] # None /\ queue[e].lease = m.lease THEN None ELSE queue[e]]
    /\ Ends(m) /\ UNCHANGED faults

(* releaseForwardLease *)
ReleaseForwardLease(m) ==
    /\ m.result = "failed"
    /\ queue' = [e \in Events |-> IF queue[e] # None /\ queue[e].lease = m.lease THEN Free ELSE queue[e]]
    /\ Ends(m) /\ UNCHANGED faults

(* The second unit fails: the lease runs out on its own. *)
SecondUnitFails(m) ==
    /\ m.result # "none"
    /\ faults < MaxFaults /\ faults' = faults + 1
    /\ Ends(m) /\ UNCHANGED queue

---------------------------------------------------------------------------
(* Time, servers and what comes from outside *)

Expire ==
    /\ cutoff < MaxEvents
    /\ cutoff' = cutoff + 1
    /\ UNCHANGED <<chain, forwarding, unit, faults, history>>

(* No send takes longer than SendTime. *)
Tick ==
    /\ \A m \in sends : m.left > 0
    /\ \E e \in Queued : queue[e].left > 0
    /\ sends' = {[m EXCEPT !.left = @ - 1] : m \in sends}
    /\ queue' = [e \in Events |-> IF Held(e) THEN [queue[e] EXCEPT !.left = @ - 1] ELSE queue[e]]
    /\ UNCHANGED <<chain, unit, cutoff, faults, history>>

(* A server dies with its units and its send. *)
Crash(p) ==
    /\ unit[p] # None \/ \E m \in sends : m.server = p
    /\ faults < MaxFaults /\ faults' = faults + 1
    /\ unit' = [unit EXCEPT ![p] = None]
    /\ sends' = {m \in sends : m.server # p}
    /\ UNCHANGED <<chain, queue, cutoff, history>>

(* Someone removes a sealed row behind the server's back, its queue entry  *)
(* with it.                                                                *)
RemoveRow(e) ==
    /\ e \in Sealed /\ LockFree
    /\ Cardinality(removed) < MaxRemovals
    /\ row' = [row EXCEPT ![e] = None]
    /\ queue' = [queue EXCEPT ![e] = None]
    /\ removed' = removed \cup {e}
    /\ UNCHANGED <<anchor, unit, sends, cutoff, faults, gone, received>>

SendStep(m) ==
    \/ \E taken \in BOOLEAN, result \in {"sent", "failed"} : Send(m, taken, result)
    \/ DeleteForwarded(m) \/ ReleaseForwardLease(m)
Sealing(p) == SealBegins(p) \/ SealCommits(p)
Retaining(p) == RetentionBegins(p) \/ RetentionCommits(p)

Next ==
    \/ \E e \in Events : Record(e) \/ RemoveRow(e)
    \/ \E p \in Servers : Sealing(p) \/ Retaining(p) \/ UnitFails(p) \/ Claim(p) \/ Crash(p)
    \/ \E m \in sends : SendStep(m) \/ SecondUnitFails(m)
    \/ Tick \/ Expire

Spec == Init /\ [][Next]_vars

---------------------------------------------------------------------------
(* Properties *)

SendType == [server : Servers, lease : Leases, events : SUBSET Events, left : Nat, result : {"none", "sent", "failed"}]

TypeOK ==
    /\ row \in [Events -> LinkType \cup {None}]
    /\ anchor \in AnchorType \cup {None}
    /\ queue \in [Events -> QueueType \cup {None}]
    /\ unit \in [Servers -> SealUnit \cup RetentionUnit \cup {None}]
    /\ sends \in SUBSET SendType
    /\ cutoff \in Nat
    /\ faults \in Nat
    /\ gone \in SUBSET Events /\ removed \in SUBSET Events /\ received \in SUBSET Events

(* walkChain: the sealed rows in chain order are the anchor's next ones,   *)
(* each linked to the one before, up to head_seq.                          *)
Walk(a) ==
    LET top == a.seq + Cardinality(Sealed)
    IN  /\ \A s \in a.seq + 1 .. top : \E e \in RowAt(s) : row[e] = Link(At(a, s - 1), s, e)
        /\ top >= a.headSeq
Intact == IF anchor = None THEN Sealed = {} ELSE Walk(anchor)

(* Verify says `intact` exactly as long as nobody has removed a sealed     *)
(* row: passes and retention batches of several servers, failed units and  *)
(* crashes never break the chain, and neither later seals nor retention    *)
(* close a gap or cover it up.                                             *)
VerifyIsRight == Intact <=> removed = {}

(* "the batch never deletes an event while it is being sent" *)
SentEventsStay == \A m \in sends : m.events \cap gone = {}

(* "Delivery is at least once": an event that was to be forwarded leaves   *)
(* the queue only after the sink has taken it, or with its row.            *)
AtLeastOnce ==
    [][\A e \in Queued : queue'[e] = None => e \in received \/ row'[e] = None]_vars

(* "A live lease is what keeps two servers (or two passes) from sending    *)
(* one event twice": no event is out twice at a time.                      *)
OneSend == \A m, n \in sends : m # n => m.events \cap n.events = {}
=============================================================================
