-------------------------- MODULE AuditChainProofs --------------------------
(***************************************************************************)
(* Verify is right about the chain, and an event that is being sent is     *)
(* sent once, stays in the log and leaves the queue only when the sink has *)
(* taken it: for any number of servers, events, leases, removals and       *)
(* faults, any batch sizes and any lease longer than a send.               *)
(***************************************************************************)
EXTENDS AuditChain, FiniteSetTheorems, TLAPS

(* The anchor, or the genesis the first sealing inserts. *)
Base == IF anchor = None THEN Genesis ELSE anchor
LinksAt(s) == IF s = Base.seq THEN {[seq |-> Base.seq, hash |-> Base.hash]} ELSE {row[e] : e \in RowAt(s)}

(* Every seq is some row's only, above the anchor and up to head_seq. *)
SeqsUnique == \A d, e \in Sealed : row[d].seq = row[e].seq => d = e
SeqsBounded ==
    /\ anchor = None => Sealed = {}
    /\ Base.seq <= Base.headSeq
    /\ \A e \in Sealed : Base.seq < row[e].seq /\ row[e].seq <= Base.headSeq
(* Untouched, the chain has each of these seqs, linked to the one before; *)
(* a removed row leaves one of them without a row for good.               *)
Whole ==
    removed = {} =>
        \A s \in Base.seq + 1 .. Base.headSeq :
            \E e \in RowAt(s) : \E h \in LinksAt(s - 1) : row[e] = Link(h, s, e)
GapStays ==
    removed # {} => anchor # None /\ \E s \in Base.seq + 1 .. Base.headSeq : RowAt(s) = {}
ChainInv == SeqsUnique /\ SeqsBounded /\ Whole /\ GapStays

(* What a unit has read stays true while it is open: it has the lock. *)
OneUnit == \A p, q \in Servers : unit[p] # None /\ unit[q] # None => p = q
SealTrue(u) ==
    /\ u.anchor = Base
    /\ u.head.seq = Base.headSeq
    /\ removed = {} => u.head \in LinksAt(Base.headSeq)
    /\ u.batch \subseteq Unsealed
RetentionTrue(u) ==
    /\ anchor # None /\ u.anchor = anchor
    /\ u.old # {} /\ u.old \subseteq Sealed
    /\ \A e \in u.old : \A s \in Base.seq + 1 .. row[e].seq : RowAt(s) # {} /\ RowAt(s) \subseteq u.old
    /\ \A m \in sends : m.events \cap u.old = {}
UnitTrue(u) == (u.job = "seal" => SealTrue(u)) /\ (u.job = "retention" => RetentionTrue(u))
UnitsTrue == \A p \in Servers : unit[p] # None => UnitTrue(unit[p])
UnitInv == OneUnit /\ UnitsTrue

(* An event that is being sent is queued under its send's lease for longer *)
(* than the send may last, unless its row was removed from outside.        *)
RowsKnown ==
    /\ \A e \in Queued : row[e] # None
    /\ \A e \in gone \cup removed : row[e] = None
SendTrue(m) ==
    /\ m.result = "sent" => m.events \subseteq received
    /\ \A e \in m.events :
         \/ queue[e] # None /\ queue[e].lease = m.lease /\ m.left < queue[e].left
         \/ e \in removed
SendsTrue == \A m \in sends : SendTrue(m)
LeasesApart == \A m, n \in sends : m.lease = n.lease => m = n
ForwardInv == RowsKnown /\ SendsTrue /\ LeasesApart /\ OneSend /\ SentEventsStay

AuditInv == TypeOK /\ ChainInv /\ UnitInv /\ ForwardInv

---------------------------------------------------------------------------
(* Batches, places and links *)

(* Sets of events are finite. *)
LEMMA EventSets ==
    ASSUME NEW S \in SUBSET Events
    PROVE  IsFiniteSet(S) /\ Cardinality(S) \in Nat
<1>1. IsFiniteSet(Events)
  BY FS_Interval, BatchAssumption DEF Events
<1>2. IsFiniteSet(S)
  BY <1>1, FS_Subset
<1> QED
  BY <1>2, FS_CardinalityType

(* The places of a finite set are 1, 2, ... in its order. *)
LEMMA Places ==
    ASSUME NEW batch \in SUBSET Nat, IsFiniteSet(batch)
    PROVE  /\ \A e \in batch : Place(batch, e) \in 1 .. Cardinality(batch)
           /\ \A d, e \in batch : d < e => Place(batch, d) < Place(batch, e)
           /\ \A d, e \in batch : Place(batch, d) = Place(batch, e) => d = e
           /\ \A i \in 1 .. Cardinality(batch) : \E e \in batch : Place(batch, e) = i
<1> DEFINE upTo(e) == {c \in batch : c <= e}
<1>0. IsFiniteSet(batch) /\ Cardinality(batch) \in Nat /\ \A e \in batch : e \in Nat
  BY FS_CardinalityType
<1>1. ASSUME NEW e \in batch
      PROVE  Place(batch, e) \in 1 .. Cardinality(batch)
  <2>1. upTo(e) \in SUBSET batch /\ e \in upTo(e)
    BY <1>0
  <2>2. IsFiniteSet(upTo(e)) /\ Cardinality(upTo(e)) <= Cardinality(batch)
    BY <1>0, <2>1, FS_Subset
  <2>3. Cardinality(upTo(e)) \in Nat /\ Cardinality(upTo(e)) # 0
    BY <2>1, <2>2, FS_CardinalityType, FS_EmptySet
  <2> QED
    BY <1>0, <2>2, <2>3 DEF Place
<1>2. ASSUME NEW d \in batch, NEW e \in batch, d < e
      PROVE  Place(batch, d) < Place(batch, e)
  <2>1. upTo(d) \in SUBSET upTo(e) /\ upTo(d) # upTo(e)
    <3>1. e \in upTo(e) /\ e \notin upTo(d) /\ \A c \in batch : c <= d => c <= e
      BY <1>0, <1>2
    <3> QED
      BY <3>1
  <2>2. IsFiniteSet(upTo(e))
    BY <1>0, FS_Subset
  <2>3. Cardinality(upTo(d)) <= Cardinality(upTo(e)) /\ Cardinality(upTo(d)) # Cardinality(upTo(e))
    BY <2>1, <2>2, FS_Subset
  <2>4. Place(batch, d) \in Nat /\ Place(batch, e) \in Nat
    BY <1>0, <1>1
  <2> QED
    BY <2>3, <2>4 DEF Place
<1>3. ASSUME NEW d \in batch, NEW e \in batch, Place(batch, d) = Place(batch, e)
      PROVE  d = e
  <2>1. d \in Nat /\ e \in Nat /\ Place(batch, d) \in Nat
    BY <1>0, <1>1
  <2>2. ~(d < e) /\ ~(e < d)
    BY <1>2, <1>3, <2>1
  <2> QED
    BY <2>1, <2>2
<1>4. \A i \in 1 .. Cardinality(batch) : \E e \in batch : Place(batch, e) = i
  <2> DEFINE n == Cardinality(batch)
             f == [e \in batch |-> Place(batch, e)]
  <2>1. f \in Injection(batch, 1 .. n)
    BY <1>1, <1>3 DEF Injection, IsInjective
  <2>2. IsFiniteSet(1 .. n) /\ Cardinality(1 .. n) = n
    BY <1>0, FS_Interval
  <2>3. f \in Surjection(batch, 1 .. n)
    BY <2>1, <2>2, FS_Injection
  <2> QED
    BY <2>3 DEF Surjection
<1> QED
  BY <1>1, <1>2, <1>3, <1>4

(* Up to an event of a batch: the events up to the one before it, and it. *)
LEMMA Before ==
    ASSUME NEW batch \in SUBSET Events, NEW e \in batch
    PROVE  /\ Place(batch, e) = 1 => {c \in batch : c <= e} = {e}
           /\ \A f \in batch : Place(batch, e) = Place(batch, f) + 1 =>
                 {c \in batch : c <= e} = {c \in batch : c <= f} \cup {e}
<1>a. batch \in SUBSET Nat /\ IsFiniteSet(batch) /\ Cardinality(batch) \in Nat
  BY EventSets, BatchAssumption DEF Events
<1>0. \A c \in batch : c \in Nat /\ Place(batch, c) \in Nat /\ Place(batch, c) >= 1
  BY <1>a, Places
<1>1. \A c, d \in batch : c < d => Place(batch, c) < Place(batch, d)
  BY <1>a, Places
<1>2. ASSUME Place(batch, e) = 1
      PROVE  {c \in batch : c <= e} = {e}
  <2>1. \A c \in batch : c <= e => c = e
    BY <1>0, <1>1, <1>2
  <2> QED
    BY <1>0, <2>1
<1>3. ASSUME NEW f \in batch, Place(batch, e) = Place(batch, f) + 1
      PROVE  {c \in batch : c <= e} = {c \in batch : c <= f} \cup {e}
  <2>1. f < e
    BY <1>0, <1>1, <1>3
  <2>2. ASSUME NEW c \in batch, c <= e, c # e
        PROVE  c <= f
    <3>1. Place(batch, c) < Place(batch, e)
      BY <1>0, <1>1, <2>2
    <3> QED
      BY <1>0, <1>1, <1>3, <3>1
  <2> QED
    BY <1>0, <2>1, <2>2
<1> QED
  BY <1>2, <1>3

(* seal's loop: each link is linked to the one before it, the first to the *)
(* head.                                                                   *)
LEMMA LinksChain ==
    ASSUME NEW head \in LinkType, NEW batch \in SUBSET Events, NEW e \in batch
    PROVE  LET links == Links(head, batch)
           IN  /\ links[e] \in LinkType /\ links[e].seq = head.seq + Place(batch, e)
               /\ Place(batch, e) = 1 => links[e] = Link(head, head.seq + 1, e)
               /\ \A f \in batch : Place(batch, e) = Place(batch, f) + 1 =>
                     links[e] = Link(links[f], head.seq + Place(batch, e), e)
<1> DEFINE hashed(x) == {<<head.seq + Place(batch, d), d>> : d \in {c \in batch : c <= x}}
           made(x) == [seq |-> head.seq + Place(batch, x), hash |-> head.hash \cup hashed(x)]
<1>0. \A x \in batch : Links(head, batch)[x] = made(x)
  BY DEF Links
<1>1. \A c \in batch : head.seq + Place(batch, c) \in Nat /\ c \in Events
  <2>1. /\ batch \in SUBSET Nat /\ IsFiniteSet(batch)
        /\ Cardinality(batch) \in Nat /\ head.seq \in Nat
    BY EventSets, BatchAssumption DEF LinkType, Events
  <2>2. \A c \in batch : Place(batch, c) \in 1 .. Cardinality(batch)
    BY <2>1, Places
  <2> QED
    BY <2>1, <2>2
<1>2. made(e) \in LinkType
  <2>1. hashed(e) \subseteq Nat \X Events
    BY <1>1
  <2> QED
    BY <1>1, <2>1 DEF LinkType, Hashes
<1>3. ASSUME Place(batch, e) = 1
      PROVE  made(e) = Link(head, head.seq + 1, e)
  <2>1. hashed(e) = {<<head.seq + 1, e>>}
    BY <1>3, Before
  <2> QED
    BY <1>3, <2>1 DEF Link
<1>4. ASSUME NEW f \in batch, Place(batch, e) = Place(batch, f) + 1
      PROVE  made(e) = Link(made(f), head.seq + Place(batch, e), e)
  <2>1. hashed(e) = hashed(f) \cup {<<head.seq + Place(batch, e), e>>}
    <3>1. {c \in batch : c <= e} = {c \in batch : c <= f} \cup {e}
      BY <1>4, Before
    <3> QED
      BY <3>1
  <2> QED
    BY <2>1 DEF Link
<1>5. made(e).seq = head.seq + Place(batch, e)
  OBVIOUS
<1> HIDE DEF made
<1> QED
  BY <1>0, <1>2, <1>3, <1>4, <1>5

---------------------------------------------------------------------------
(* What verify sees *)

(* Where seqs are unique, the chain at a seq is what LinksAt says. *)
LEMMA AtIs ==
    ASSUME SeqsUnique, anchor # None, NEW s, NEW h \in LinksAt(s)
    PROVE  At(anchor, s) = h
<1>1. CASE s = anchor.seq
  BY <1>1 DEF At, LinksAt, Base
<1>2. CASE s # anchor.seq
  <2>1. PICK e \in RowAt(s) : h = row[e]
    BY <1>2 DEF LinksAt, Base
  <2>2. \A d \in RowAt(s) : d = e
    BY <2>1 DEF RowAt, SeqsUnique
  <2>3. (CHOOSE d \in RowAt(s) : TRUE) = e
    BY <2>1, <2>2
  <2> QED
    BY <1>2, <2>1, <2>3 DEF At
<1> QED
  BY <1>1, <1>2

(* An untouched chain is intact, and a gap is seen. *)
LEMMA IntactIff ==
    ASSUME TypeOK, ChainInv
    PROVE  VerifyIsRight
<1>0. SeqsUnique /\ SeqsBounded /\ Whole /\ GapStays
  BY DEF ChainInv
<1>1. CASE anchor = None
  BY <1>0, <1>1 DEF VerifyIsRight, Intact, SeqsBounded, GapStays
<1>2. CASE anchor # None
  <2>0. /\ Base = anchor /\ anchor.seq \in Nat /\ anchor.headSeq \in Nat
        /\ IsFiniteSet(Sealed) /\ Cardinality(Sealed) \in Nat
        /\ \A e \in Sealed : row[e].seq \in Nat
    BY <1>2, EventSets DEF Base, TypeOK, AnchorType, Sealed, LinkType
  <2> DEFINE seqs == anchor.seq + 1 .. anchor.headSeq
             top == anchor.seq + Cardinality(Sealed)
  <2>1. ASSUME removed = {} PROVE Walk(anchor)
    <3>1. \A s \in seqs : \E e \in RowAt(s) : row[e] = Link(At(anchor, s - 1), s, e)
      BY <1>0, <1>2, <2>0, <2>1, AtIs DEF Whole
    <3>2. top = anchor.headSeq
      <4> DEFINE f == [e \in Sealed |-> row[e].seq]
      <4>1. f \in [Sealed -> seqs]
        BY <1>0, <2>0 DEF SeqsBounded
      <4>2. f \in Injection(Sealed, seqs)
        BY <1>0, <4>1 DEF SeqsUnique, Injection, IsInjective
      <4>3. f \in Surjection(Sealed, seqs)
        BY <3>1, <4>1 DEF RowAt, Surjection
      <4>4. IsFiniteSet(seqs) /\ Cardinality(seqs) = anchor.headSeq - anchor.seq
        <5>1. anchor.seq <= anchor.headSeq
          BY <1>0, <2>0 DEF SeqsBounded
        <5>2. anchor.seq + 1 \in Int /\ anchor.headSeq \in Int
          BY <2>0
        <5>3. IsFiniteSet(seqs)
          BY <5>2, FS_Interval
        <5>4. Cardinality(seqs) = (IF anchor.seq + 1 > anchor.headSeq THEN 0 ELSE anchor.headSeq - (anchor.seq + 1) + 1)
          BY <5>2, FS_Interval
        <5> QED
          BY <2>0, <5>1, <5>3, <5>4
      <4>5. Cardinality(Sealed) = Cardinality(seqs)
        BY <4>2, <4>3, <4>4, FS_Injection
      <4> QED
        BY <2>0, <4>4, <4>5
    <3> QED
      BY <2>0, <3>1, <3>2 DEF Walk
  <2>2. ASSUME removed # {}, Walk(anchor) PROVE FALSE
    <3>1. PICK s \in seqs : RowAt(s) = {}
      BY <1>0, <2>0, <2>2 DEF GapStays
    <3>2. s \in anchor.seq + 1 .. top
      BY <2>0, <2>2 DEF Walk
    <3> QED
      BY <2>2, <3>1, <3>2 DEF Walk
  <2> QED
    BY <1>2, <2>1, <2>2 DEF VerifyIsRight, Intact
<1> QED
  BY <1>1, <1>2

---------------------------------------------------------------------------
(* What a unit reads *)

LEMMA Bases == TypeOK => Base \in AnchorType
  BY DEF TypeOK, Base, Genesis, AnchorType, Hashes

(* Among sealed rows one is last. *)
LEMMA LastRow ==
    ASSUME TypeOK, SeqsBounded, NEW R \in SUBSET Sealed, R # {}
    PROVE  \E e \in R : \A d \in R : row[d].seq <= row[e].seq
<1> DEFINE S == {row[e].seq : e \in R}
<1>1. Base.headSeq \in Nat /\ \A e \in Sealed : row[e].seq \in Nat /\ row[e].seq <= Base.headSeq
  BY Bases DEF TypeOK, AnchorType, LinkType, Sealed, SeqsBounded
<1>2. S \in SUBSET (0 .. Base.headSeq) /\ S \in SUBSET Nat /\ S # {}
  BY <1>1
<1>3. IsFiniteSet(0 .. Base.headSeq)
  BY <1>1, FS_Interval
<1>4. IsFiniteSet(S)
  BY <1>2, <1>3, FS_Subset
<1>5. Cardinality(S) \in Nat /\ Cardinality(S) # 0
  BY <1>2, <1>4, FS_CardinalityType, FS_EmptySet
<1> HIDE DEF S
<1>6. PICK s \in S : Place(S, s) = Cardinality(S)
  BY <1>2, <1>4, <1>5, Places
<1>7. ASSUME NEW t \in S PROVE t <= s
  <2>1. Place(S, t) <= Cardinality(S) /\ Place(S, t) \in Nat
    BY <1>2, <1>4, <1>5, Places
  <2>2. s < t => Place(S, s) < Place(S, t)
    BY <1>2, <1>4, Places
  <2> QED
    BY <1>2, <1>5, <1>6, <2>1, <2>2
<1> QED
  BY <1>6, <1>7 DEF S

(* seal goes on from head_seq, with the hash of the chain's end. *)
LEMMA NextHeadTrue ==
    ASSUME TypeOK, ChainInv
    PROVE  /\ NextHead(Base) \in LinkType
           /\ NextHead(Base).seq = Base.headSeq
           /\ removed = {} => NextHead(Base) \in LinksAt(Base.headSeq)
<1>0. SeqsUnique /\ SeqsBounded /\ Whole /\ Base \in AnchorType
  BY Bases DEF ChainInv
<1>1. Base.seq \in Nat /\ Base.headSeq \in Nat /\ Base.hash \in Hashes /\ Base.seq <= Base.headSeq
  BY <1>0 DEF AnchorType, SeqsBounded
<1>2. removed = {} /\ Base.seq # Base.headSeq => \E e \in Sealed : row[e].seq = Base.headSeq
  BY <1>0, <1>1 DEF Whole, RowAt
<1> DEFINE h == ChainHead(Base)
<1>3. /\ h \in LinkType /\ h.seq <= Base.headSeq
      /\ removed = {} => h.seq = Base.headSeq /\ h \in LinksAt(Base.headSeq)
  <2>1. CASE Sealed = {}
    <3>1. h = [seq |-> Base.seq, hash |-> Base.hash]
      BY <2>1 DEF ChainHead
    <3> QED
      BY <1>1, <1>2, <2>1, <3>1 DEF LinkType, LinksAt
  <2>2. CASE Sealed # {}
    <3> DEFINE last == CHOOSE e \in Sealed : \A d \in Sealed : row[d].seq <= row[e].seq
    <3>1. last \in Sealed /\ \A d \in Sealed : row[d].seq <= row[last].seq
      BY <1>0, <2>2, LastRow
    <3>2. h = row[last]
      BY <2>2 DEF ChainHead
    <3> HIDE DEF h, last
    <3>a. h \in LinkType /\ h.seq \in Nat /\ \A d \in Sealed : row[d].seq \in Nat
      BY <3>1, <3>2 DEF Sealed, TypeOK, LinkType
    <3>3. Base.seq < h.seq /\ h.seq <= Base.headSeq
      BY <1>0, <3>1, <3>2 DEF SeqsBounded
    <3>4. removed = {} => h.seq = Base.headSeq
      BY <1>1, <1>2, <3>1, <3>2, <3>a, <3>3
    <3>5. removed = {} => h \in LinksAt(Base.headSeq)
      BY <1>1, <3>1, <3>2, <3>a, <3>3, <3>4 DEF LinksAt, RowAt
    <3> QED
      BY <3>a, <3>3, <3>4, <3>5
  <2> QED
    BY <2>1, <2>2
<1>4. NextHead(Base) = [h EXCEPT !.seq = Base.headSeq]
  <2>1. h.seq \in Nat
    BY <1>3 DEF LinkType
  <2>2. (IF h.seq > Base.headSeq THEN h.seq ELSE Base.headSeq) = Base.headSeq
    BY <1>1, <1>3, <2>1
  <2> HIDE DEF h
  <2>3. [h EXCEPT !.seq = IF @ > Base.headSeq THEN @ ELSE Base.headSeq] = [h EXCEPT !.seq = Base.headSeq]
    BY <1>3, <2>2 DEF LinkType
  <2> QED
    BY <2>3 DEF NextHead, h
<1> HIDE DEF h
<1>5. [h EXCEPT !.seq = Base.headSeq] \in LinkType /\ [h EXCEPT !.seq = Base.headSeq].seq = Base.headSeq
  BY <1>1, <1>3 DEF LinkType
<1>6. h.seq = Base.headSeq => [h EXCEPT !.seq = Base.headSeq] = h
  BY <1>3 DEF LinkType
<1> QED
  BY <1>3, <1>4, <1>5, <1>6

(* The units after a step, one by one. *)
LEMMA UnitsTrueNext ==
    ASSUME \A p \in Servers : \A u : u = unit'[p] /\ u # None => UnitTrue(u)'
    PROVE  UnitsTrue'
  BY DEF UnitsTrue, UnitTrue, SealTrue, RetentionTrue

(* Steps that leave the chain alone. *)
LEMMA SameChain ==
    ASSUME UNCHANGED <<row, anchor, removed>>, NEW u
    PROVE  /\ ChainInv => ChainInv'
           /\ SealTrue(u) => SealTrue(u)'
           /\ RetentionTrue(u) /\ (\A m \in sends' : m.events \cap u.old = {}) => RetentionTrue(u)'
<1>1. Sealed' = Sealed /\ Unsealed' = Unsealed /\ Base' = Base
  BY DEF Sealed, Unsealed, Base
<1>2. \A s : RowAt(s)' = RowAt(s) /\ LinksAt(s)' = LinksAt(s)
  BY <1>1 DEF RowAt, LinksAt
<1>3. ChainInv => ChainInv'
  BY <1>1, <1>2 DEF ChainInv, SeqsUnique, SeqsBounded, Whole, GapStays
<1>4. SealTrue(u) => SealTrue(u)'
  BY <1>1, <1>2 DEF SealTrue
<1>5. RetentionTrue(u) /\ (\A m \in sends' : m.events \cap u.old = {}) => RetentionTrue(u)'
  BY <1>1, <1>2 DEF RetentionTrue
<1> QED
  BY <1>3, <1>4, <1>5

---------------------------------------------------------------------------
(* The steps *)

LEMMA InitInv == Init => AuditInv
<1> SUFFICES ASSUME Init PROVE AuditInv
  OBVIOUS
<1>1. TypeOK
  BY DEF Init, TypeOK
<1>2. Sealed = {} /\ Queued = {} /\ Base = Genesis
  BY DEF Init, Sealed, Queued, Base
<1>3. ChainInv
  BY <1>2 DEF Init, ChainInv, SeqsUnique, SeqsBounded, Whole, GapStays, Genesis
<1>4. UnitInv /\ ForwardInv
  BY <1>2 DEF Init, UnitInv, OneUnit, UnitsTrue, ForwardInv, RowsKnown, SendsTrue, LeasesApart, OneSend, SentEventsStay
<1> QED
  BY <1>1, <1>3, <1>4 DEF AuditInv

(* A unit opens or ends without a write, or time passes for the retention. *)
LEMMA UnitsAlone ==
    ASSUME AuditInv, UNCHANGED <<chain, forwarding, history>>, cutoff' \in Nat, faults' \in Nat,
           unit' \in [Servers -> SealUnit \cup RetentionUnit \cup {None}],
           OneUnit', \A p \in Servers : unit'[p] # None /\ unit'[p] # unit[p] => UnitTrue(unit'[p])
    PROVE  AuditInv'
<1>0. TypeOK /\ ChainInv /\ UnitsTrue /\ ForwardInv
  BY DEF AuditInv, UnitInv
<1>1. UNCHANGED <<row, anchor, queue, sends, gone, removed, received>>
  BY DEF chain, forwarding, history
<1>2. TypeOK'
  BY <1>0, <1>1 DEF TypeOK
<1>3. ChainInv'
  BY <1>0, <1>1, SameChain
<1>4. UnitsTrue'
  <2>0. UNCHANGED <<row, anchor, removed>>
    BY <1>1
  <2>1. ASSUME NEW p \in Servers, NEW u, u = unit'[p], u # None
        PROVE  UnitTrue(u)'
    <3>1. UnitTrue(u)
      BY <1>0, <2>1 DEF UnitsTrue
    <3>2. SealTrue(u) => SealTrue(u)'
      BY <2>0, SameChain
    <3>3. RetentionTrue(u) => \A m \in sends' : m.events \cap u.old = {}
      BY <1>1 DEF RetentionTrue
    <3>4. RetentionTrue(u) => RetentionTrue(u)'
      BY <2>0, <3>3, SameChain
    <3> QED
      BY <3>1, <3>2, <3>4 DEF UnitTrue
  <2> QED
    BY <2>1, UnitsTrueNext
<1>5. ForwardInv'
  BY <1>0, <1>1 DEF ForwardInv, RowsKnown, Queued, SendsTrue, SendTrue, LeasesApart, OneSend, SentEventsStay
<1> QED
  BY <1>2, <1>3, <1>4, <1>5 DEF AuditInv, UnitInv

LEMMA SealBeginsKeeps ==
    ASSUME AuditInv, NEW p \in Servers, SealBegins(p)
    PROVE  AuditInv'
<1> DEFINE u == [job |-> "seal", anchor |-> Base, head |-> NextHead(Base), batch |-> FirstOf(Unsealed, SealBatch)]
<1>0. TypeOK /\ ChainInv
  BY DEF AuditInv
<1>1. /\ unit' = [unit EXCEPT ![p] = u] /\ LockFree
      /\ UNCHANGED <<chain, forwarding, cutoff, faults, history>>
  BY DEF SealBegins, Base
<1>2. u \in SealUnit
  BY <1>0, Bases, NextHeadTrue DEF SealUnit, FirstOf, Unsealed
<1>3. UnitTrue(u)
  <2>1. SealTrue(u)
    BY <1>0, NextHeadTrue DEF SealTrue, FirstOf
  <2> QED
    BY <2>1 DEF UnitTrue
<1> HIDE DEF u
<1>4. \A q \in Servers : unit[q] = None /\ unit'[q] = (IF q = p THEN u ELSE None)
  BY <1>0, <1>1 DEF TypeOK, LockFree
<1>5. unit' \in [Servers -> SealUnit \cup RetentionUnit \cup {None}] /\ OneUnit'
  BY <1>0, <1>1, <1>2, <1>4 DEF TypeOK, OneUnit
<1> QED
  BY <1>0, <1>1, <1>3, <1>4, <1>5, UnitsAlone DEF TypeOK

(* Retention takes a checked prefix without events that are being sent. *)
LEMMA RetentionBeginsKeeps ==
    ASSUME AuditInv, NEW p \in Servers, RetentionBegins(p)
    PROVE  AuditInv'
<1> DEFINE C == Checked(anchor, SweepBatch)
           old == UnheldByForwarder(C)
           u == [job |-> "retention", anchor |-> anchor, old |-> old]
<1>0. TypeOK /\ ChainInv /\ ForwardInv
  BY DEF AuditInv
<1>1. /\ unit' = [unit EXCEPT ![p] = u] /\ LockFree /\ anchor # None /\ old # {}
      /\ UNCHANGED <<chain, forwarding, cutoff, faults, history>>
  BY DEF RetentionBegins
<1>2. C \subseteq Sealed /\ old \subseteq C /\ C \subseteq Events
  BY DEF Checked, UnheldByForwarder, Sealed
<1>3. u \in RetentionUnit
  BY <1>0, <1>1, <1>2 DEF TypeOK, RetentionUnit
<1>4. Base = anchor /\ anchor.seq \in Nat /\ \A e \in Sealed : row[e].seq \in Nat
  BY <1>0, <1>1 DEF Base, TypeOK, AnchorType, Sealed, LinkType
<1>5. ASSUME NEW e \in old, NEW s \in Base.seq + 1 .. row[e].seq
      PROVE  RowAt(s) # {} /\ RowAt(s) \subseteq old
  <2>0. /\ e \in C /\ e \in Sealed /\ row[e].seq <= anchor.seq + SweepBatch /\ anchor.seq < row[e].seq
        /\ s \in Nat /\ row[e].seq \in Nat
    BY <1>2, <1>4 DEF Checked
  <2>1. RowAt(s) # {}
    BY <1>2, <1>4 DEF Checked
  <2>2. ASSUME NEW d \in RowAt(s) PROVE d \in old
    <3>1. d \in Sealed /\ row[d].seq = s /\ s <= row[e].seq /\ anchor.seq < s
      BY <1>4, <2>0 DEF RowAt
    <3>2. \A t \in anchor.seq + 1 .. s : t \in anchor.seq + 1 .. row[e].seq
      BY <1>4, <2>0, <3>1
    <3>3. s <= anchor.seq + SweepBatch
      BY <1>4, <2>0, <3>1, BatchAssumption
    <3>4. d \in C
      BY <2>0, <3>1, <3>2, <3>3 DEF Checked
    <3>5. ASSUME NEW c \in C, row[c].seq <= row[d].seq PROVE ~Held(c)
      <4>1. row[c].seq \in Nat /\ row[c].seq <= row[e].seq
        BY <1>2, <1>4, <2>0, <3>1, <3>5
      <4> QED
        BY <4>1 DEF UnheldByForwarder
    <3> QED
      BY <3>4, <3>5 DEF UnheldByForwarder
  <2> QED
    BY <2>1, <2>2
<1>6. ASSUME NEW m \in sends, NEW e \in old, e \in m.events PROVE FALSE
  <2>1. row[e] # None /\ row[e].seq \in Nat /\ e \in Events
    BY <1>2, <1>4 DEF Sealed
  <2>2. ~Held(e)
    BY <1>2, <2>1 DEF UnheldByForwarder
  <2>3. e \notin removed /\ m.left \in Nat
    BY <1>0, <2>1 DEF ForwardInv, RowsKnown, TypeOK, SendType
  <2>4. queue[e] # None /\ m.left < queue[e].left /\ queue[e].left \in Nat
    BY <1>0, <1>6, <2>1, <2>3 DEF ForwardInv, SendsTrue, SendTrue, TypeOK, QueueType
  <2> QED
    BY <2>2, <2>3, <2>4 DEF Held
<1>7. UnitTrue(u)
  <2>1. u.old = old /\ u.anchor = anchor /\ u.job = "retention"
    OBVIOUS
  <2>2. old \subseteq Sealed
    BY <1>2
  <2> HIDE DEF old, u
  <2> QED
    BY <1>1, <1>5, <1>6, <2>1, <2>2 DEF UnitTrue, RetentionTrue
<1> HIDE DEF u
<1>8. \A q \in Servers : unit[q] = None /\ unit'[q] = (IF q = p THEN u ELSE None)
  BY <1>0, <1>1 DEF TypeOK, LockFree
<1>9. unit' \in [Servers -> SealUnit \cup RetentionUnit \cup {None}] /\ OneUnit'
  BY <1>0, <1>1, <1>3, <1>8 DEF TypeOK, OneUnit
<1> QED
  BY <1>0, <1>1, <1>7, <1>8, <1>9, UnitsAlone DEF TypeOK

LEMMA UnitFailsKeeps ==
    ASSUME AuditInv, NEW p \in Servers, UnitFails(p)
    PROVE  AuditInv'
<1>0. TypeOK /\ OneUnit
  BY DEF AuditInv, UnitInv
<1>1. /\ unit' = [unit EXCEPT ![p] = None] /\ faults' \in Nat
      /\ UNCHANGED <<chain, forwarding, cutoff, history>>
  BY <1>0 DEF UnitFails, TypeOK
<1>2. /\ unit' \in [Servers -> SealUnit \cup RetentionUnit \cup {None}]
      /\ \A q \in Servers : unit'[q] = unit[q] \/ unit'[q] = None
  BY <1>0, <1>1 DEF TypeOK
<1>3. OneUnit'
  BY <1>0, <1>2 DEF OneUnit
<1> QED
  BY <1>0, <1>1, <1>2, <1>3, UnitsAlone DEF TypeOK

LEMMA ExpireKeeps ==
    ASSUME AuditInv, Expire
    PROVE  AuditInv'
<1>1. TypeOK /\ OneUnit
  BY DEF AuditInv, UnitInv
<1>2. cutoff' \in Nat /\ UNCHANGED <<chain, forwarding, unit, faults, history>>
  BY <1>1 DEF Expire, TypeOK
<1>3. OneUnit'
  BY <1>1, <1>2 DEF OneUnit
<1> QED
  BY <1>1, <1>2, <1>3, UnitsAlone DEF TypeOK

(* Steps of the forwarder, which leave the log and what units have read   *)
(* alone, as long as no event a retention is about to delete is sent.      *)
LEMMA ForwardStep ==
    ASSUME AuditInv, UNCHANGED <<chain, gone, removed, cutoff>>, faults' \in Nat,
           queue' \in [Events -> QueueType \cup {None}], sends' \in SUBSET SendType, received' \in SUBSET Events,
           unit' \in [Servers -> SealUnit \cup RetentionUnit \cup {None}],
           \A p \in Servers : unit'[p] = unit[p] \/ unit'[p] = None,
           \A m \in sends' : (\E n \in sends : n.events = m.events) \/ (\A e \in m.events : ~LockedByRetention(e)),
           ForwardInv'
    PROVE  AuditInv'
<1>0. TypeOK /\ ChainInv /\ OneUnit /\ UnitsTrue
  BY DEF AuditInv, UnitInv
<1>1. UNCHANGED <<row, anchor, removed>>
  BY DEF chain
<1>2. TypeOK'
  BY <1>0, <1>1 DEF TypeOK
<1>3. ChainInv'
  BY <1>0, <1>1, SameChain
<1>4. UnitsTrue'
  <2>1. ASSUME NEW p \in Servers, NEW u, u = unit'[p], u # None
        PROVE  UnitTrue(u)'
    <3>1. UnitTrue(u) /\ u = unit[p]
      BY <1>0, <2>1 DEF UnitsTrue
    <3>2. SealTrue(u) => SealTrue(u)'
      BY <1>1, SameChain
    <3>3. ASSUME u.job = "retention", RetentionTrue(u), NEW m \in sends' PROVE m.events \cap u.old = {}
      <4>1. CASE \E n \in sends : n.events = m.events
        BY <3>3, <4>1 DEF RetentionTrue
      <4>2. CASE \A e \in m.events : ~LockedByRetention(e)
        BY <2>1, <3>1, <3>3, <4>2 DEF LockedByRetention
      <4> QED
        BY <4>1, <4>2
    <3>4. u.job = "retention" /\ RetentionTrue(u) => RetentionTrue(u)'
      BY <1>1, <3>3, SameChain
    <3> QED
      BY <3>1, <3>2, <3>4 DEF UnitTrue
  <2> QED
    BY <2>1, UnitsTrueNext
<1>5. OneUnit'
  BY <1>0 DEF OneUnit
<1> QED
  BY <1>2, <1>3, <1>4, <1>5 DEF AuditInv, UnitInv

(* Events being sent are not claimable: their lease runs, or their row is  *)
(* gone.                                                                   *)
LEMMA ClaimKeeps ==
    ASSUME AuditInv, NEW p \in Servers, Claim(p)
    PROVE  AuditInv'
<1> DEFINE batch == FirstOf(Claimable, ForwardBatch)
           l == CHOOSE k \in Leases : ~LeaseInUse(k)
           leased == [lease |-> l, left |-> LeaseTime]
           begun == [server |-> p, lease |-> l, events |-> batch, left |-> SendTime, result |-> "none"]
<1>0. TypeOK /\ ForwardInv
  BY DEF AuditInv
<1>1. /\ queue' = [e \in Events |-> IF e \in batch THEN leased ELSE queue[e]]
      /\ sends' = sends \cup {begun}
      /\ UNCHANGED <<chain, unit, cutoff, faults, history>>
  BY DEF Claim
<1>2. l \in Leases /\ ~LeaseInUse(l)
  BY DEF Claim
<1>3. batch \subseteq Claimable
  BY DEF FirstOf
<1> HIDE DEF batch, l
<1>4. leased \in QueueType /\ leased # None /\ begun \in SendType
  <2>1. batch \subseteq Events
    BY <1>3 DEF Claimable, Queued
  <2>2. leased \in QueueType /\ begun \in SendType
    BY <1>2, <2>1, TimeAssumption DEF QueueType, SendType
  <2> QED
    BY <2>2, AbsentAssumption
<1>5. \A e \in batch : e \in Events /\ queue[e] # None /\ queue[e].left = 0 /\ ~LockedByRetention(e)
  BY <1>3 DEF Claimable, Queued
<1>6. \A e \in Events : queue'[e] = (IF e \in batch THEN leased ELSE queue[e])
  BY <1>1
<1>7. UNCHANGED <<row, gone, removed, received>>
  BY <1>1 DEF chain, history
<1>8. RowsKnown'
  BY <1>0, <1>5, <1>6, <1>7 DEF ForwardInv, RowsKnown, Queued
<1>9. ASSUME NEW m \in sends, NEW e \in m.events
      PROVE  e \in Events /\ e \notin batch
  <2>1. e \in Events /\ m.left \in Nat
    BY <1>0 DEF TypeOK, SendType
  <2>2. CASE e \in removed
    BY <1>0, <1>5, <2>1, <2>2 DEF ForwardInv, RowsKnown, Queued
  <2>3. CASE m.left < queue[e].left
    BY <1>5, <2>1, <2>3
  <2> QED
    BY <1>0, <2>1, <2>2, <2>3 DEF ForwardInv, SendsTrue, SendTrue
<1>10. SendsTrue'
  <2>1. ASSUME NEW m \in sends PROVE SendTrue(m)'
    BY <1>0, <1>6, <1>7, <1>9 DEF ForwardInv, SendsTrue, SendTrue
  <2>2. ASSUME NEW b, b = begun PROVE SendTrue(b)'
    <3>1. /\ b.result = "none" /\ b.events = batch /\ b.lease = l /\ b.left = SendTime
          /\ leased.lease = l /\ leased.left = LeaseTime
      BY <2>2
    <3> HIDE DEF begun, leased
    <3>2. \A e \in batch : queue'[e] = leased
      BY <1>5, <1>6
    <3> QED
      BY <1>4, <3>1, <3>2, TimeAssumption DEF SendTrue
  <2> QED
    BY <1>1, <2>1, <2>2 DEF SendsTrue
<1>11. LeasesApart'
  BY <1>0, <1>1, <1>2 DEF ForwardInv, LeasesApart, LeaseInUse
<1>12. OneSend'
  BY <1>0, <1>1, <1>9 DEF ForwardInv, OneSend
<1>13. SentEventsStay'
  <2>1. batch \cap gone = {}
    BY <1>0, <1>5 DEF ForwardInv, RowsKnown, Queued
  <2> QED
    BY <1>0, <1>1, <1>7, <2>1 DEF ForwardInv, SentEventsStay
<1>14. ForwardInv'
  BY <1>8, <1>10, <1>11, <1>12, <1>13 DEF ForwardInv
<1>15. queue' \in [Events -> QueueType \cup {None}] /\ sends' \in SUBSET SendType
  BY <1>0, <1>1, <1>4 DEF TypeOK
<1>16. \A m \in sends' : (\E n \in sends : n.events = m.events) \/ (\A e \in m.events : ~LockedByRetention(e))
  BY <1>1, <1>5
<1> QED
  BY <1>0, <1>1, <1>7, <1>14, <1>15, <1>16, ForwardStep DEF TypeOK

(* The sink's answer. *)
LEMMA SendKeeps ==
    ASSUME AuditInv, NEW m \in sends, NEW taken \in BOOLEAN, NEW result \in {"sent", "failed"},
           Send(m, taken, result)
    PROVE  AuditInv'
<1> DEFINE answered == [m EXCEPT !.result = result]
<1>0. TypeOK /\ ForwardInv
  BY DEF AuditInv
<1>1. /\ sends' = (sends \ {m}) \cup {answered}
      /\ result = "sent" => taken
      /\ received' = (IF taken THEN received \cup m.events ELSE received)
      /\ UNCHANGED <<chain, queue, unit, cutoff, faults, gone, removed>>
  BY DEF Send
<1>2. m \in SendType /\ m.events \subseteq Events
  BY <1>0 DEF TypeOK, SendType
<1>3. /\ answered \in SendType /\ answered.events = m.events /\ answered.lease = m.lease
      /\ answered.left = m.left /\ answered.result = result
  BY <1>2 DEF SendType
<1> HIDE DEF answered
<1>4. received \subseteq received' /\ (result = "sent" => m.events \subseteq received') /\ row' = row
  BY <1>1 DEF chain
<1>5. SendsTrue'
  <2>1. ASSUME NEW n \in sends \ {m} PROVE SendTrue(n)'
    BY <1>0, <1>1, <1>4 DEF ForwardInv, SendsTrue, SendTrue
  <2>2. SendTrue(answered)'
    BY <1>0, <1>1, <1>3, <1>4 DEF ForwardInv, SendsTrue, SendTrue
  <2> QED
    BY <1>1, <2>1, <2>2 DEF SendsTrue
<1>6. RowsKnown'
  BY <1>0, <1>1, <1>4 DEF ForwardInv, RowsKnown, Queued
<1>7. LeasesApart' /\ OneSend' /\ SentEventsStay'
  BY <1>0, <1>1, <1>3 DEF ForwardInv, LeasesApart, OneSend, SentEventsStay
<1>8. sends' \in SUBSET SendType /\ received' \in SUBSET Events
  BY <1>0, <1>1, <1>2, <1>3 DEF TypeOK
<1>9. \A n \in sends' : \E k \in sends : k.events = n.events
  BY <1>1, <1>3
<1>10. ForwardInv'
  BY <1>5, <1>6, <1>7 DEF ForwardInv
<1> QED
  BY <1>0, <1>1, <1>8, <1>9, <1>10, ForwardStep DEF TypeOK

(* A send ends, or its server is gone: other sends' queue rows are left    *)
(* alone.                                                                  *)
LEMMA SendsEnd ==
    ASSUME AuditInv, sends' \subseteq sends, UNCHANGED <<chain, cutoff, history>>, faults' \in Nat,
           queue' \in [Events -> QueueType \cup {None}],
           \A e \in Events : queue'[e] = queue[e] \/ queue'[e] = None \/ queue[e] # None,
           \A m \in sends' : \A e \in m.events : queue[e] # None /\ queue[e].lease = m.lease => queue'[e] = queue[e],
           unit' \in [Servers -> SealUnit \cup RetentionUnit \cup {None}],
           \A p \in Servers : unit'[p] = unit[p] \/ unit'[p] = None
    PROVE  AuditInv'
<1>0. TypeOK /\ ForwardInv
  BY DEF AuditInv
<1>1. UNCHANGED <<row, gone, removed, received>>
  BY DEF chain, history
<1>2. SendsTrue'
  BY <1>0, <1>1 DEF ForwardInv, SendsTrue, SendTrue
<1>3. RowsKnown'
  BY <1>0, <1>1 DEF ForwardInv, RowsKnown, Queued
<1>4. LeasesApart' /\ OneSend' /\ SentEventsStay'
  BY <1>0, <1>1 DEF ForwardInv, LeasesApart, OneSend, SentEventsStay
<1>5. ForwardInv'
  BY <1>2, <1>3, <1>4 DEF ForwardInv
<1> QED
  BY <1>0, <1>1, <1>5, ForwardStep DEF TypeOK

(* deleteForwarded, releaseForwardLease, and neither. *)
LEMMA EndsKeep ==
    ASSUME AuditInv, NEW m \in sends,
           DeleteForwarded(m) \/ ReleaseForwardLease(m) \/ SecondUnitFails(m)
    PROVE  AuditInv'
<1>0. TypeOK /\ LeasesApart
  BY DEF AuditInv, ForwardInv
<1>1. sends' = sends \ {m} /\ UNCHANGED <<chain, unit, cutoff, history>> /\ faults' \in Nat
  BY <1>0 DEF DeleteForwarded, ReleaseForwardLease, SecondUnitFails, Ends, TypeOK
<1>2. Free \in QueueType
  BY DEF Free, QueueType
<1>3. queue' \in [Events -> QueueType \cup {None}]
  BY <1>0, <1>2 DEF DeleteForwarded, ReleaseForwardLease, SecondUnitFails, TypeOK
<1>4. ASSUME NEW e \in Events
      PROVE  /\ queue'[e] = queue[e] \/ queue'[e] = None \/ queue[e] # None
             /\ queue[e] # None /\ queue[e].lease # m.lease => queue'[e] = queue[e]
  BY <1>0 DEF DeleteForwarded, ReleaseForwardLease, SecondUnitFails, TypeOK
<1>5. \A n \in sends' : n.lease # m.lease /\ n.events \subseteq Events
  BY <1>0, <1>1 DEF LeasesApart, TypeOK, SendType
<1>6. \A n \in sends' : \A e \in n.events : queue[e] # None /\ queue[e].lease = n.lease => queue'[e] = queue[e]
  BY <1>4, <1>5
<1> QED
  BY <1>0, <1>1, <1>3, <1>4, <1>6, SendsEnd DEF TypeOK

LEMMA CrashKeeps ==
    ASSUME AuditInv, NEW p \in Servers, Crash(p)
    PROVE  AuditInv'
<1>0. TypeOK
  BY DEF AuditInv
<1>1. /\ sends' \subseteq sends /\ UNCHANGED <<chain, queue, cutoff, history>> /\ faults' \in Nat
      /\ unit' = [unit EXCEPT ![p] = None]
  BY <1>0 DEF Crash, TypeOK
<1> QED
  BY <1>0, <1>1, SendsEnd DEF TypeOK

(* Time passes for the sends and for their leases alike. *)
LEMMA TickKeeps ==
    ASSUME AuditInv, Tick
    PROVE  AuditInv'
<1> DEFINE later(m) == [m EXCEPT !.left = @ - 1]
<1>0. TypeOK /\ ForwardInv
  BY DEF AuditInv
<1>1. /\ \A m \in sends : m.left > 0
      /\ sends' = {later(m) : m \in sends}
      /\ queue' = [e \in Events |-> IF Held(e) THEN [queue[e] EXCEPT !.left = @ - 1] ELSE queue[e]]
      /\ UNCHANGED <<chain, unit, cutoff, faults, history>>
  BY DEF Tick
<1>2. ASSUME NEW m \in sends
      PROVE  /\ later(m) \in SendType
             /\ later(m).events = m.events /\ later(m).lease = m.lease
             /\ later(m).result = m.result /\ later(m).left = m.left - 1
             /\ m.events \subseteq Events /\ m.left \in Nat
  <2>1. m \in SendType /\ m.left > 0
    BY <1>0, <1>1 DEF TypeOK
  <2> QED
    BY <2>1 DEF SendType
<1> HIDE DEF later
<1>3. ASSUME NEW e \in Events
      PROVE  /\ queue'[e] \in QueueType \cup {None}
             /\ queue[e] = None <=> queue'[e] = None
             /\ queue[e] # None =>
                  /\ queue[e].left \in Nat
                  /\ queue[e].left > 0 => queue'[e].lease = queue[e].lease /\ queue'[e].left = queue[e].left - 1
  <2>1. CASE Held(e)
    <3>1. queue[e] # None /\ queue[e] \in QueueType /\ queue[e].left \in Nat /\ queue[e].left > 0
      BY <1>0, <2>1 DEF Held, TypeOK, QueueType
    <3>2. queue'[e] = [queue[e] EXCEPT !.left = queue[e].left - 1] /\ queue[e].left - 1 \in Nat
      BY <1>1, <2>1, <3>1
    <3>3. queue'[e] \in QueueType
      BY <3>1, <3>2 DEF QueueType
    <3>4. queue'[e].lease = queue[e].lease /\ queue'[e].left = queue[e].left - 1
      BY <3>1, <3>2 DEF QueueType
    <3> QED
      BY <3>1, <3>3, <3>4, AbsentAssumption
  <2>2. CASE ~Held(e)
    BY <1>0, <1>1, <2>2 DEF Held, TypeOK, QueueType
  <2> QED
    BY <2>1, <2>2
<1>4. UNCHANGED <<row, gone, removed, received>>
  BY <1>1 DEF chain, history
<1>5. \A n \in sends' : \E m \in sends : n = later(m) /\ n.events = m.events
  BY <1>1, <1>2
<1>6. SendsTrue'
  <2> SUFFICES ASSUME NEW n \in sends' PROVE SendTrue(n)'
    BY DEF SendsTrue
  <2>1. PICK m \in sends : n = later(m)
    BY <1>5
  <2>2. SendTrue(m)
    BY <1>0 DEF ForwardInv, SendsTrue
  <2>3. n.result = "sent" => n.events \subseteq received'
    BY <1>2, <1>4, <2>1, <2>2 DEF SendTrue
  <2>4. ASSUME NEW e \in n.events, e \notin removed
        PROVE  queue'[e] # None /\ queue'[e].lease = n.lease /\ n.left < queue'[e].left
    <3>1. e \in m.events /\ e \in Events
      BY <1>2, <2>1
    <3>2. queue[e] # None /\ queue[e].lease = m.lease /\ m.left < queue[e].left
      BY <2>2, <2>4, <3>1 DEF SendTrue
    <3>3. queue'[e] # None /\ queue'[e].lease = queue[e].lease /\ queue'[e].left = queue[e].left - 1
      BY <1>2, <1>3, <3>1, <3>2
    <3>4. queue[e].left \in Nat /\ m.left \in Nat
      BY <1>2, <1>3, <3>1, <3>2
    <3> QED
      BY <1>2, <2>1, <3>2, <3>3, <3>4
  <2> QED
    BY <1>4, <2>3, <2>4 DEF SendTrue
<1>7. RowsKnown'
  BY <1>0, <1>3, <1>4 DEF ForwardInv, RowsKnown, Queued
<1>8. LeasesApart' /\ OneSend'
  <2>1. \A a, b \in sends : later(a).lease = later(b).lease => a = b
    BY <1>0, <1>2 DEF ForwardInv, LeasesApart
  <2>2. \A a, b \in sends : a # b => later(a).events \cap later(b).events = {}
    BY <1>0, <1>2 DEF ForwardInv, OneSend
  <2> QED
    BY <1>1, <2>1, <2>2 DEF LeasesApart, OneSend
<1>9. SentEventsStay'
  BY <1>0, <1>4, <1>5 DEF ForwardInv, SentEventsStay
<1>10. queue' \in [Events -> QueueType \cup {None}] /\ sends' \in SUBSET SendType
  BY <1>1, <1>2, <1>3
<1>11. ForwardInv'
  BY <1>6, <1>7, <1>8, <1>9 DEF ForwardInv
<1> QED
  BY <1>0, <1>1, <1>4, <1>5, <1>10, <1>11, ForwardStep DEF TypeOK

(* A new event is in no send and no unit. *)
LEMMA RecordKeeps ==
    ASSUME AuditInv, NEW x \in Events, Record(x)
    PROVE  AuditInv'
<1>0. TypeOK /\ ChainInv /\ OneUnit /\ UnitsTrue /\ ForwardInv
  BY DEF AuditInv, UnitInv
<1>1. /\ row[x] = None /\ x \notin gone /\ x \notin removed
      /\ row' = [row EXCEPT ![x] = NoLink]
      /\ queue' = [queue EXCEPT ![x] = IF x \in Forwarded THEN Free ELSE None]
      /\ UNCHANGED <<anchor, unit, sends, cutoff, faults, gone, removed, received>>
  BY DEF Record, history
<1>2. NoLink \in LinkType /\ NoLink # None /\ NoLink.seq = 0 /\ Free \in QueueType
  BY AbsentAssumption DEF NoLink, LinkType, Hashes, Free, QueueType
<1>3. /\ row'[x] = NoLink
      /\ \A e \in Events \ {x} : row'[e] = row[e] /\ queue'[e] = queue[e]
  BY <1>0, <1>1 DEF TypeOK
<1>4. TypeOK'
  BY <1>0, <1>1, <1>2 DEF TypeOK
<1>5. Sealed' = Sealed /\ (\A e \in Sealed : row'[e] = row[e]) /\ Unsealed \subseteq Unsealed' /\ Base' = Base
  BY <1>1, <1>2, <1>3 DEF Sealed, Unsealed, Base
<1>6. \A s : RowAt(s)' = RowAt(s)
  BY <1>5 DEF RowAt
<1>7. \A s : LinksAt(s)' = LinksAt(s)
  <2> SUFFICES ASSUME NEW s PROVE {row[e] : e \in RowAt(s)}' = {row[e] : e \in RowAt(s)}
    BY <1>5 DEF LinksAt
  <2>1. \A e \in RowAt(s) : row'[e] = row[e]
    BY <1>5 DEF RowAt
  <2> QED
    BY <1>6, <2>1
<1>8. ChainInv'
  <2>1. SeqsUnique' /\ SeqsBounded' /\ GapStays'
    BY <1>0, <1>1, <1>5, <1>6 DEF ChainInv, SeqsUnique, SeqsBounded, GapStays
  <2>2. \A s : \A e \in RowAt(s) : row'[e] = row[e]
    BY <1>5 DEF RowAt
  <2>3. Whole'
    BY <1>0, <1>1, <1>5, <1>6, <1>7, <2>2 DEF ChainInv, Whole
  <2> QED
    BY <2>1, <2>3 DEF ChainInv
<1>9. UnitsTrue'
  <2>1. ASSUME NEW p \in Servers, NEW u, u = unit'[p], u # None
        PROVE  UnitTrue(u)'
    <3>1. UnitTrue(u)
      BY <1>0, <1>1, <2>1 DEF UnitsTrue
    <3>2. SealTrue(u) => SealTrue(u)'
      BY <1>1, <1>5, <1>7 DEF SealTrue
    <3>3. RetentionTrue(u) => RetentionTrue(u)'
      BY <1>1, <1>5, <1>6 DEF RetentionTrue
    <3> QED
      BY <3>1, <3>2, <3>3 DEF UnitTrue
  <2> QED
    BY <2>1, UnitsTrueNext
<1>10. OneUnit'
  BY <1>0, <1>1 DEF OneUnit
<1>11. ForwardInv'
  <2>1. ASSUME NEW m \in sends PROVE m.events \subseteq Events \ {x}
    <3>1. m.events \subseteq Events
      BY <1>0 DEF TypeOK, SendType
    <3>2. x \notin Queued
      BY <1>0, <1>1 DEF ForwardInv, RowsKnown
    <3> QED
      BY <1>0, <1>1, <3>1, <3>2 DEF ForwardInv, SendsTrue, SendTrue, Queued
  <2>2. SendsTrue'
    BY <1>0, <1>1, <1>3, <2>1 DEF ForwardInv, SendsTrue, SendTrue
  <2>3. RowsKnown'
    <3>1. \A e \in Queued' : row'[e] # None
      BY <1>0, <1>2, <1>3 DEF ForwardInv, RowsKnown, Queued
    <3>2. \A e \in gone \cup removed : e \in Events \ {x} /\ row[e] = None
      BY <1>0, <1>1 DEF TypeOK, ForwardInv, RowsKnown
    <3> QED
      BY <1>1, <1>3, <3>1, <3>2 DEF RowsKnown
  <2>4. LeasesApart' /\ OneSend' /\ SentEventsStay'
    BY <1>0, <1>1 DEF ForwardInv, LeasesApart, OneSend, SentEventsStay
  <2> QED
    BY <2>2, <2>3, <2>4 DEF ForwardInv
<1> QED
  BY <1>4, <1>8, <1>9, <1>10, <1>11 DEF AuditInv, UnitInv

(* A row removed from outside leaves a gap. *)
LEMMA RemoveRowKeeps ==
    ASSUME AuditInv, NEW x \in Events, RemoveRow(x)
    PROVE  AuditInv'
<1>0. TypeOK /\ ChainInv /\ ForwardInv /\ Base \in AnchorType
  BY Bases DEF AuditInv
<1>1. /\ x \in Sealed /\ LockFree
      /\ row' = [row EXCEPT ![x] = None]
      /\ queue' = [queue EXCEPT ![x] = None]
      /\ removed' = removed \cup {x}
      /\ UNCHANGED <<anchor, unit, sends, cutoff, faults, gone, received>>
  BY DEF RemoveRow
<1>2. /\ row'[x] = None /\ queue'[x] = None
      /\ \A e \in Events \ {x} : row'[e] = row[e] /\ queue'[e] = queue[e]
  BY <1>0, <1>1 DEF TypeOK
<1>3. TypeOK'
  BY <1>0, <1>1 DEF TypeOK
<1>4. Sealed' = Sealed \ {x} /\ (\A e \in Sealed \ {x} : row'[e] = row[e]) /\ Base' = Base
  BY <1>1, <1>2 DEF Sealed, Base
<1>5. ChainInv'
  <2>1. SeqsUnique' /\ SeqsBounded'
    BY <1>0, <1>1, <1>4 DEF ChainInv, SeqsUnique, SeqsBounded
  <2>2. Whole'
    BY <1>1 DEF Whole
  <2>3. row[x].seq \in Base.seq + 1 .. Base.headSeq
    BY <1>0, <1>1 DEF ChainInv, SeqsBounded, Sealed, TypeOK, LinkType, AnchorType
  <2>4. \A e \in Sealed' : row'[e].seq # row[x].seq
    BY <1>0, <1>1, <1>4 DEF ChainInv, SeqsUnique
  <2>5. anchor # None
    BY <1>0, <1>1 DEF ChainInv, SeqsBounded
  <2>6. GapStays'
    BY <1>1, <1>4, <2>3, <2>4, <2>5 DEF GapStays, RowAt
  <2> QED
    BY <2>1, <2>2, <2>6 DEF ChainInv
<1>6. UnitInv'
  BY <1>1 DEF LockFree, UnitInv, OneUnit, UnitsTrue
<1>7. ForwardInv'
  <2>1. SendsTrue'
    BY <1>0, <1>1, <1>2 DEF ForwardInv, SendsTrue, SendTrue, TypeOK, SendType
  <2>2. RowsKnown'
    BY <1>0, <1>1, <1>2 DEF ForwardInv, RowsKnown, Queued, TypeOK
  <2>3. LeasesApart' /\ OneSend' /\ SentEventsStay'
    BY <1>0, <1>1 DEF ForwardInv, LeasesApart, OneSend, SentEventsStay
  <2> QED
    BY <2>1, <2>2, <2>3 DEF ForwardInv
<1> QED
  BY <1>3, <1>5, <1>6, <1>7 DEF AuditInv

(* A batch is sealed: its seqs follow head_seq, each link the one before. *)
LEMMA SealCommitsKeeps ==
    ASSUME AuditInv, NEW p \in Servers, SealCommits(p)
    PROVE  AuditInv'
<1>0. TypeOK /\ ChainInv /\ OneUnit /\ ForwardInv /\ Base \in AnchorType
  BY Bases DEF AuditInv, UnitInv
<1>1. PICK u : u = unit[p]
  OBVIOUS
<1> DEFINE batch == u.batch
           n == Cardinality(batch)
           L == Links(u.head, batch)
<1>2. u \in SealUnit /\ SealTrue(u)
  <2>1. u # None /\ u.job = "seal"
    BY <1>1 DEF SealCommits
  <2>2. UnitTrue(u)
    BY <1>1, <2>1 DEF AuditInv, UnitInv, UnitsTrue
  <2> QED
    BY <1>0, <1>1, <2>1, <2>2 DEF UnitTrue, TypeOK, RetentionUnit
<1>3. /\ row' = [e \in Events |-> IF row[e] # None /\ e \in batch THEN L[e] ELSE row[e]]
      /\ anchor' = [u.anchor EXCEPT !.headSeq = IF batch = {} THEN @ ELSE u.head.seq + n]
      /\ unit' = [unit EXCEPT ![p] = None]
      /\ UNCHANGED <<queue, sends, cutoff, faults, gone, removed, received>>
  BY <1>1 DEF SealCommits, forwarding, history
<1>4. /\ batch \in SUBSET Events /\ batch \subseteq Unsealed /\ u.head \in LinkType
      /\ u.anchor = Base /\ u.head.seq = Base.headSeq
      /\ removed = {} => u.head \in LinksAt(Base.headSeq)
  BY <1>2 DEF SealUnit, SealTrue
<1>5. /\ n \in Nat /\ IsFiniteSet(batch) /\ batch \in SUBSET Nat
      /\ Base.seq \in Nat /\ Base.headSeq \in Nat /\ Base.seq <= Base.headSeq
  BY <1>0, <1>4, EventSets, BatchAssumption DEF Events, ChainInv, SeqsBounded, AnchorType
<1>6. batch = {} => n = 0
  BY FS_EmptySet
<1>7. /\ \A e \in batch : Place(batch, e) \in 1 .. n
      /\ \A d, e \in batch : Place(batch, d) = Place(batch, e) => d = e
      /\ \A i \in 1 .. n : \E e \in batch : Place(batch, e) = i
  BY <1>5, Places
<1>8. ASSUME NEW e \in batch
      PROVE  /\ L[e] \in LinkType /\ L[e].seq = Base.headSeq + Place(batch, e)
             /\ Place(batch, e) = 1 => L[e] = Link(u.head, Base.headSeq + 1, e)
             /\ \A f \in batch : Place(batch, e) = Place(batch, f) + 1 =>
                   L[e] = Link(L[f], Base.headSeq + Place(batch, e), e)
  BY <1>4, LinksChain
<1> HIDE DEF n, L, batch
<1>9. \A e \in batch : e \in Events /\ row[e] = NoLink /\ row[e] # None /\ e \notin Sealed /\ row'[e] = L[e]
  <2>1. NoLink # None /\ NoLink.seq = 0
    BY AbsentAssumption DEF NoLink, LinkType, Hashes
  <2> QED
    BY <1>3, <1>4, <2>1 DEF Unsealed, Sealed
<1>10. \A e \in Events \ batch : row'[e] = row[e]
  BY <1>3
<1>11. /\ anchor' \in AnchorType /\ anchor' # None /\ Base' = anchor'
       /\ anchor'.seq = Base.seq /\ anchor'.hash = Base.hash /\ anchor'.headSeq = Base.headSeq + n
  <2>1. anchor' = [Base EXCEPT !.headSeq = Base.headSeq + n]
    <3>1. CASE batch = {}
      BY <1>0, <1>3, <1>4, <1>5, <1>6, <3>1 DEF AnchorType
    <3>2. CASE batch # {}
      BY <1>3, <1>4, <3>2
    <3> QED
      BY <3>1, <3>2
  <2>2. anchor' \in AnchorType
    BY <1>0, <1>5, <2>1 DEF AnchorType
  <2>3. anchor'.seq = Base.seq /\ anchor'.hash = Base.hash /\ anchor'.headSeq = Base.headSeq + n
    BY <1>0, <2>1 DEF AnchorType
  <2>4. anchor' # None
    BY <2>2, AbsentAssumption
  <2> QED
    BY <2>2, <2>3, <2>4 DEF Base
<1>12. /\ \A e \in batch : row'[e].seq \in Base.headSeq + 1 .. Base.headSeq + n
       /\ \A e \in Sealed : row'[e] = row[e] /\ row[e].seq \in Base.seq + 1 .. Base.headSeq
  <2>1. \A e \in Sealed : row[e].seq \in Nat
    BY <1>0 DEF Sealed, TypeOK, LinkType
  <2>2. \A e \in Sealed : e \in Events /\ e \notin batch
    BY <1>9 DEF Sealed
  <2>3. \A e \in batch : row'[e].seq = Base.headSeq + Place(batch, e)
    BY <1>8, <1>9
  <2> QED
    BY <1>0, <1>5, <1>7, <1>10, <2>1, <2>2, <2>3 DEF ChainInv, SeqsBounded
<1>13. Sealed' = Sealed \cup batch
  <2>1. ASSUME NEW e \in Sealed' PROVE e \in Sealed \cup batch
    BY <1>10 DEF Sealed
  <2>2. ASSUME NEW e \in Sealed PROVE e \in Sealed'
    BY <1>12 DEF Sealed
  <2>3. ASSUME NEW e \in batch PROVE e \in Sealed'
    <3>1. row'[e] # None
      BY <1>8, <1>9, AbsentAssumption
    <3>2. row'[e].seq > 0
      BY <1>5, <1>12
    <3> QED
      BY <1>9, <3>1, <3>2 DEF Sealed
  <2> QED
    BY <2>1, <2>2, <2>3
<1>14. TypeOK'
  <2>1. \A e \in Events : row'[e] \in LinkType \cup {None}
    BY <1>0, <1>8, <1>9, <1>10 DEF TypeOK
  <2>2. row' \in [Events -> LinkType \cup {None}]
    BY <1>3, <2>1
  <2> QED
    BY <1>0, <1>3, <1>11, <2>2 DEF TypeOK
<1>15. \A s \in Nat : s <= Base.headSeq => RowAt(s)' = RowAt(s)
  <2> SUFFICES ASSUME NEW s \in Nat, s <= Base.headSeq PROVE RowAt(s)' = RowAt(s)
    OBVIOUS
  <2>1. \A e \in batch : row'[e].seq # s
    BY <1>5, <1>12
  <2> QED
    BY <1>12, <1>13, <2>1 DEF RowAt
<1>16. ASSUME NEW s \in Nat, s <= Base.headSeq, NEW h \in LinksAt(s) PROVE h \in LinksAt(s)'
  <2>1. CASE s = Base.seq
    BY <1>11, <1>16, <2>1 DEF LinksAt
  <2>2. CASE s # Base.seq
    <3>1. PICK e \in RowAt(s) : h = row[e]
      BY <1>16, <2>2 DEF LinksAt
    <3>2. e \in RowAt(s)' /\ row'[e] = h
      BY <1>12, <1>15, <1>16, <3>1 DEF RowAt
    <3> QED
      BY <1>11, <2>2, <3>2 DEF LinksAt
  <2> QED
    BY <2>1, <2>2
<1>17. SeqsUnique'
  <2> SUFFICES ASSUME NEW d \in Sealed \cup batch, NEW e \in Sealed \cup batch, row'[d].seq = row'[e].seq
               PROVE  d = e
    BY <1>13 DEF SeqsUnique
  <2>1. CASE d \in Sealed /\ e \in Sealed
    BY <1>0, <1>12, <2>1 DEF ChainInv, SeqsUnique
  <2>2. CASE d \in batch /\ e \in batch
    <3>1. Base.headSeq + Place(batch, d) = Base.headSeq + Place(batch, e)
      BY <1>8, <1>9, <2>2
    <3> QED
      BY <1>5, <1>7, <2>2, <3>1
  <2>3. CASE (d \in Sealed /\ e \in batch) \/ (d \in batch /\ e \in Sealed)
    <3>1. \A x \in Sealed, y \in batch : row'[x].seq # row'[y].seq
      <4> SUFFICES ASSUME NEW x \in Sealed, NEW y \in batch PROVE row'[x].seq # row'[y].seq
        OBVIOUS
      <4>1. row'[x].seq \in Base.seq + 1 .. Base.headSeq /\ row'[y].seq \in Base.headSeq + 1 .. Base.headSeq + n
        BY <1>12
      <4> QED
        BY <1>5, <4>1
    <3> QED
      BY <2>3, <3>1
  <2> QED
    BY <2>1, <2>2, <2>3
<1>18. SeqsBounded'
  <2>1. ASSUME NEW e \in Sealed' PROVE Base.seq < row'[e].seq /\ row'[e].seq <= Base.headSeq + n
    <3>1. row'[e].seq \in Base.seq + 1 .. Base.headSeq \/ row'[e].seq \in Base.headSeq + 1 .. Base.headSeq + n
      BY <1>12, <1>13
    <3> QED
      BY <1>5, <3>1
  <2> QED
    BY <1>5, <1>11, <2>1 DEF SeqsBounded
<1>19. Whole'
  <2> SUFFICES ASSUME removed = {}, NEW s \in Base.seq + 1 .. Base.headSeq + n
               PROVE  \E e \in RowAt(s)' : \E h \in LinksAt(s - 1)' : row'[e] = Link(h, s, e)
    BY <1>3, <1>11 DEF Whole
  <2>0. s \in Nat /\ s - 1 \in Nat
    BY <1>5
  <2>1. CASE s <= Base.headSeq
    <3>1. PICK e \in RowAt(s) : \E h \in LinksAt(s - 1) : row[e] = Link(h, s, e)
      BY <1>0, <1>5, <2>0, <2>1 DEF ChainInv, Whole
    <3>2. e \in RowAt(s)' /\ row'[e] = row[e]
      BY <1>12, <1>15, <2>0, <2>1, <3>1 DEF RowAt
    <3>3. s - 1 <= Base.headSeq
      BY <1>5, <2>0, <2>1
    <3> QED
      BY <1>16, <2>0, <3>1, <3>2, <3>3
  <2>2. CASE s > Base.headSeq
    <3> DEFINE i == s - Base.headSeq
    <3>1. i \in 1 .. n /\ s = Base.headSeq + i
      BY <1>5, <2>0, <2>2
    <3> HIDE DEF i
    <3>2. PICK e \in batch : Place(batch, e) = i
      BY <1>7, <3>1
    <3>3. e \in RowAt(s)' /\ row'[e] = L[e]
      <4>1. row'[e] = L[e] /\ row'[e].seq = s
        BY <1>8, <1>9, <3>1, <3>2
      <4> QED
        BY <1>13, <4>1 DEF RowAt
    <3>4. CASE i = 1
      <4>1. s - 1 = Base.headSeq /\ s = Base.headSeq + 1
        BY <1>5, <3>1, <3>4
      <4>2. u.head \in LinksAt(s - 1)'
        BY <1>4, <1>5, <1>16, <4>1
      <4>3. L[e] = Link(u.head, s, e)
        BY <1>8, <3>2, <3>4, <4>1
      <4> QED
        BY <3>3, <4>2, <4>3
    <3>5. CASE i # 1
      <4>1. i - 1 \in 1 .. n /\ s - 1 = Base.headSeq + (i - 1) /\ i = (i - 1) + 1
        BY <1>5, <3>1, <3>5
      <4>2. PICK f \in batch : Place(batch, f) = i - 1
        BY <1>7, <4>1
      <4>3. row'[f] = L[f] /\ row'[f].seq = s - 1
        BY <1>8, <1>9, <4>1, <4>2
      <4>4. L[f] \in LinksAt(s - 1)'
        <5>1. f \in RowAt(s - 1)'
          BY <1>13, <4>3 DEF RowAt
        <5>2. s - 1 # Base'.seq
          BY <1>5, <1>11, <3>1, <4>1
        <5> QED
          BY <4>3, <5>1, <5>2 DEF LinksAt
      <4>5. L[e] = Link(L[f], s, e)
        BY <1>8, <3>1, <3>2, <4>1, <4>2
      <4> QED
        BY <3>3, <4>4, <4>5
    <3> QED
      BY <3>4, <3>5
  <2> QED
    BY <1>5, <2>0, <2>1, <2>2
<1>20. GapStays'
  <2> SUFFICES ASSUME removed # {}
               PROVE  \E s \in Base.seq + 1 .. Base.headSeq + n : RowAt(s)' = {}
    BY <1>3, <1>11 DEF GapStays
  <2>1. PICK s \in Base.seq + 1 .. Base.headSeq : RowAt(s) = {}
    BY <1>0 DEF ChainInv, GapStays
  <2>2. s \in Nat /\ s <= Base.headSeq /\ s \in Base.seq + 1 .. Base.headSeq + n
    BY <1>5
  <2> QED
    BY <1>15, <2>1, <2>2
<1>21. UnitInv'
  BY <1>0, <1>1, <1>3 DEF OneUnit, UnitInv, UnitsTrue, SealCommits, TypeOK
<1>22. ForwardInv'
  <2>1. SendsTrue' /\ LeasesApart' /\ OneSend' /\ SentEventsStay'
    BY <1>0, <1>3 DEF ForwardInv, SendsTrue, SendTrue, LeasesApart, OneSend, SentEventsStay
  <2>2. \A e \in Events : row[e] # None <=> row'[e] # None
    BY <1>8, <1>9, <1>10, AbsentAssumption
  <2>3. RowsKnown'
    BY <1>0, <1>3, <2>2 DEF ForwardInv, RowsKnown, Queued, TypeOK
  <2> QED
    BY <2>1, <2>3 DEF ForwardInv
<1> QED
  BY <1>14, <1>17, <1>18, <1>19, <1>20, <1>21, <1>22 DEF AuditInv, ChainInv

(* A prefix without a gap is deleted: the anchor moves to its end, and     *)
(* what is left is linked to it as before.                                 *)
LEMMA RetentionCommitsKeeps ==
    ASSUME AuditInv, NEW p \in Servers, RetentionCommits(p)
    PROVE  AuditInv'
<1>0. TypeOK /\ ChainInv /\ OneUnit /\ ForwardInv /\ Base \in AnchorType
  BY Bases DEF AuditInv, UnitInv
<1>1. PICK u : u = unit[p]
  OBVIOUS
<1>2. u \in RetentionUnit /\ RetentionTrue(u)
  <2>1. u # None /\ u.job = "retention"
    BY <1>1 DEF RetentionCommits
  <2>2. UnitTrue(u)
    BY <1>1, <2>1 DEF AuditInv, UnitInv, UnitsTrue
  <2> QED
    BY <1>0, <1>1, <2>1, <2>2 DEF UnitTrue, TypeOK, SealUnit
<1> DEFINE last == CHOOSE e \in u.old : \A d \in u.old : row[d].seq <= row[e].seq
<1>3. /\ anchor' = [u.anchor EXCEPT !.seq = row[last].seq, !.hash = row[last].hash]
      /\ row' = [e \in Events |-> IF e \in u.old THEN None ELSE row[e]]
      /\ queue' = [e \in Events |-> IF e \in u.old THEN None ELSE queue[e]]
      /\ gone' = gone \cup u.old
      /\ unit' = [unit EXCEPT ![p] = None]
      /\ UNCHANGED <<sends, cutoff, faults, removed, received>>
  BY <1>1 DEF RetentionCommits
<1>4. last \in u.old /\ \A d \in u.old : row[d].seq <= row[last].seq
  BY <1>0, <1>2, LastRow DEF RetentionTrue, ChainInv
<1>5. PICK b \in u.old : b = last
  BY <1>4
<1> HIDE DEF last
<1>6. /\ u.old \subseteq Sealed /\ u.old \subseteq Events /\ u.anchor = anchor /\ anchor # None /\ Base = anchor
      /\ \A e \in u.old : \A s \in Base.seq + 1 .. row[e].seq : RowAt(s) # {} /\ RowAt(s) \subseteq u.old
      /\ \A m \in sends : m.events \cap u.old = {}
  BY <1>2 DEF RetentionTrue, RetentionUnit, Base
<1>7. /\ Base.seq \in Nat /\ Base.headSeq \in Nat
      /\ \A e \in Sealed : e \in Events /\ row[e] \in LinkType /\ row[e].seq \in Nat
      /\ \A e \in Sealed : Base.seq < row[e].seq /\ row[e].seq <= Base.headSeq
  BY <1>0 DEF AnchorType, Sealed, TypeOK, LinkType, ChainInv, SeqsBounded
<1>8. /\ anchor' \in AnchorType /\ anchor' # None /\ Base' = anchor'
      /\ anchor'.seq = row[b].seq /\ anchor'.hash = row[b].hash /\ anchor'.headSeq = Base.headSeq
  <2>1. anchor' = [Base EXCEPT !.seq = row[b].seq, !.hash = row[b].hash]
    BY <1>3, <1>5, <1>6
  <2>2. row[b] \in LinkType
    BY <1>6, <1>7
  <2>3. anchor' \in AnchorType
    BY <1>0, <2>1, <2>2 DEF AnchorType, LinkType
  <2>4. anchor'.seq = row[b].seq /\ anchor'.hash = row[b].hash /\ anchor'.headSeq = Base.headSeq
    BY <1>0, <2>1 DEF AnchorType
  <2> QED
    BY <2>3, <2>4, AbsentAssumption DEF Base
<1>9. ASSUME NEW e \in Sealed PROVE e \in u.old <=> row[e].seq <= row[b].seq
  <2>1. ASSUME row[e].seq <= row[b].seq PROVE e \in u.old
    <3>1. row[e].seq \in Base.seq + 1 .. row[b].seq
      BY <1>6, <1>7, <2>1
    <3> QED
      BY <1>6, <3>1 DEF RowAt
  <2> QED
    BY <1>4, <1>5, <2>1
<1>10. /\ \A e \in u.old : row'[e] = None /\ queue'[e] = None
       /\ \A e \in Events \ u.old : row'[e] = row[e] /\ queue'[e] = queue[e]
  BY <1>3, <1>6
<1>11. Sealed' = Sealed \ u.old
  BY <1>10 DEF Sealed
<1>12. TypeOK'
  <2>1. row' \in [Events -> LinkType \cup {None}] /\ queue' \in [Events -> QueueType \cup {None}]
    BY <1>0, <1>3 DEF TypeOK
  <2> QED
    BY <1>0, <1>3, <1>6, <1>8, <2>1 DEF TypeOK
<1>13. SeqsUnique'
  BY <1>0, <1>7, <1>10, <1>11 DEF ChainInv, SeqsUnique
<1>14. SeqsBounded'
  <2>1. ASSUME NEW e \in Sealed' PROVE row[b].seq < row'[e].seq /\ row'[e].seq <= Base.headSeq
    <3>1. e \in Sealed /\ row'[e] = row[e] /\ ~(row[e].seq <= row[b].seq)
      BY <1>7, <1>9, <1>10, <1>11
    <3> QED
      BY <1>6, <1>7, <3>1
  <2>2. row[b].seq <= Base.headSeq
    BY <1>6, <1>7
  <2> QED
    BY <1>8, <2>1, <2>2 DEF SeqsBounded
<1>15. ASSUME NEW s \in Nat, row[b].seq < s PROVE RowAt(s)' = RowAt(s)
  <2>1. \A e \in RowAt(s) : e \in Sealed' /\ row'[e] = row[e]
    <3> SUFFICES ASSUME NEW e \in RowAt(s) PROVE e \in Sealed' /\ row'[e] = row[e]
      OBVIOUS
    <3>1. e \in Sealed /\ row[e].seq = s /\ row[b].seq \in Nat
      BY <1>6, <1>7 DEF RowAt
    <3>2. e \notin u.old
      BY <1>9, <1>15, <3>1
    <3> QED
      BY <1>7, <1>10, <1>11, <3>1, <3>2
  <2>2. \A e \in Sealed' : e \in Sealed /\ row'[e] = row[e]
    BY <1>7, <1>10, <1>11
  <2> QED
    BY <2>1, <2>2 DEF RowAt
<1>16. Whole'
  <2> SUFFICES ASSUME removed = {}, NEW s \in row[b].seq + 1 .. Base.headSeq
               PROVE  \E e \in RowAt(s)' : \E h \in LinksAt(s - 1)' : row'[e] = Link(h, s, e)
    BY <1>3, <1>8 DEF Whole
  <2>0. /\ s \in Nat /\ s - 1 \in Nat /\ row[b].seq \in Nat /\ row[b].seq < s
        /\ s \in Base.seq + 1 .. Base.headSeq /\ Base.seq < row[b].seq /\ row[b].seq <= s - 1
    BY <1>6, <1>7
  <2>1. PICK e \in RowAt(s), h \in LinksAt(s - 1) : row[e] = Link(h, s, e)
    BY <1>0, <2>0 DEF ChainInv, Whole
  <2>2. e \in RowAt(s)' /\ row'[e] = row[e]
    BY <1>7, <1>10, <1>11, <1>15, <2>0, <2>1 DEF RowAt
  <2>3. PICK d \in RowAt(s - 1) : h = row[d]
    BY <2>0, <2>1 DEF LinksAt
  <2>4. h \in LinksAt(s - 1)'
    <3>1. CASE s - 1 = row[b].seq
      <4>1. d = b
        BY <1>0, <1>6, <2>3, <3>1 DEF ChainInv, SeqsUnique, RowAt
      <4>2. h = [seq |-> row[b].seq, hash |-> row[b].hash]
        BY <1>6, <1>7, <2>3, <4>1 DEF LinkType
      <4> QED
        BY <1>8, <3>1, <4>2 DEF LinksAt
    <3>2. CASE s - 1 # row[b].seq
      <4>1. row[b].seq < s - 1
        BY <2>0, <3>2
      <4>2. d \in RowAt(s - 1)' /\ row'[d] = row[d]
        BY <1>7, <1>10, <1>11, <1>15, <2>0, <2>3, <4>1 DEF RowAt
      <4> QED
        BY <1>8, <2>3, <3>2, <4>2 DEF LinksAt
    <3> QED
      BY <3>1, <3>2
  <2> QED
    BY <2>1, <2>2, <2>4
<1>17. GapStays'
  <2> SUFFICES ASSUME removed # {}
               PROVE  \E s \in row[b].seq + 1 .. Base.headSeq : RowAt(s)' = {}
    BY <1>3, <1>8 DEF GapStays
  <2>1. PICK s \in Base.seq + 1 .. Base.headSeq : RowAt(s) = {}
    BY <1>0 DEF ChainInv, GapStays
  <2>2. s \in Nat /\ row[b].seq \in Nat /\ s \notin Base.seq + 1 .. row[b].seq
    BY <1>6, <1>7, <2>1
  <2>3. row[b].seq < s /\ s \in row[b].seq + 1 .. Base.headSeq
    BY <1>7, <2>1, <2>2
  <2> QED
    BY <1>15, <2>1, <2>2, <2>3
<1>18. UnitInv'
  BY <1>0, <1>1, <1>3 DEF OneUnit, UnitInv, UnitsTrue, RetentionCommits, TypeOK
<1>19. ForwardInv'
  <2>1. SendsTrue'
    BY <1>0, <1>3, <1>6, <1>10 DEF ForwardInv, SendsTrue, SendTrue, TypeOK, SendType
  <2>2. LeasesApart' /\ OneSend' /\ SentEventsStay'
    BY <1>0, <1>3, <1>6 DEF ForwardInv, LeasesApart, OneSend, SentEventsStay
  <2>3. RowsKnown'
    <3>1. \A e \in Queued' : row'[e] # None
      BY <1>0, <1>10 DEF ForwardInv, RowsKnown, Queued
    <3>2. \A e \in gone \cup removed : e \in Events /\ row[e] = None
      BY <1>0 DEF ForwardInv, RowsKnown, TypeOK
    <3>3. \A e \in gone' \cup removed' : row'[e] = None
      BY <1>3, <1>10, <3>2
    <3> QED
      BY <3>1, <3>3 DEF RowsKnown
  <2> QED
    BY <2>1, <2>2, <2>3 DEF ForwardInv
<1> QED
  BY <1>12, <1>13, <1>14, <1>16, <1>17, <1>18, <1>19 DEF AuditInv, ChainInv

---------------------------------------------------------------------------
(* The theorems *)

(* Every step of the recorders, sealers, retention, forwarders, servers    *)
(* and outsiders keeps AuditInv.                                           *)
LEMMA StepInv == AuditInv /\ [Next]_vars => AuditInv'
<1> SUFFICES ASSUME AuditInv, [Next]_vars PROVE AuditInv'
  OBVIOUS
<1>1. CASE \E e \in Events : Record(e) \/ RemoveRow(e)
  BY <1>1, RecordKeeps, RemoveRowKeeps
<1>2. CASE \E p \in Servers : Sealing(p) \/ Retaining(p)
  BY <1>2, SealBeginsKeeps, SealCommitsKeeps, RetentionBeginsKeeps, RetentionCommitsKeeps DEF Sealing, Retaining
<1>3. CASE \E p \in Servers : UnitFails(p) \/ Claim(p) \/ Crash(p)
  BY <1>3, UnitFailsKeeps, ClaimKeeps, CrashKeeps
<1>4. CASE \E m \in sends : SendStep(m) \/ SecondUnitFails(m)
  BY <1>4, SendKeeps, EndsKeep DEF SendStep
<1>5. CASE Tick \/ Expire
  BY <1>5, TickKeeps, ExpireKeeps
<1>6. CASE UNCHANGED vars
  <2>1. TypeOK /\ OneUnit
    BY DEF AuditInv, UnitInv
  <2>2. UNCHANGED <<chain, forwarding, history, unit, cutoff, faults>>
    BY <1>6 DEF vars, chain, forwarding, history
  <2>3. OneUnit'
    BY <2>1, <2>2 DEF OneUnit
  <2> QED
    BY <2>1, <2>2, <2>3, UnitsAlone DEF TypeOK
<1> QED
  BY <1>1, <1>2, <1>3, <1>4, <1>5, <1>6 DEF Next

(* The inductive invariant of the chain, of the units that have its lock   *)
(* and of the events that are being sent.                                  *)
THEOREM Inductive == Spec => []AuditInv
  BY InitInv, StepInv, PTL DEF Spec

(* The tables, units and sends keep their types. *)
THEOREM TypeCorrect == Spec => []TypeOK
<1>1. AuditInv => TypeOK
  BY DEF AuditInv
<1> QED
  BY <1>1, Inductive, PTL

(* Verify says `intact` exactly as long as no sealed row was removed from  *)
(* outside (walkChain): seals are numbered past head_seq and linked to the *)
(* chain's end, and retention stops at a gap (seal, deleteSealedBefore).   *)
THEOREM VerifyTellsTheTruth == Spec => []VerifyIsRight
<1>1. AuditInv => VerifyIsRight
  BY IntactIff DEF AuditInv
<1> QED
  BY <1>1, Inductive, PTL

(* Retention never deletes an event while it is being sent                 *)
(* (unheldByForwarder).                                                    *)
THEOREM SentEventsAreKept == Spec => []SentEventsStay
<1>1. AuditInv => SentEventsStay
  BY DEF AuditInv, ForwardInv
<1> QED
  BY <1>1, Inductive, PTL

(* No event is out twice at a time (claimForwardBatch). *)
THEOREM EventsAreSentOnce == Spec => []OneSend
<1>1. AuditInv => OneSend
  BY DEF AuditInv, ForwardInv
<1> QED
  BY <1>1, Inductive, PTL

(* An event leaves the queue only after the sink has taken it, or with its *)
(* row (deleteForwarded).                                                  *)
THEOREM EventsReachTheSink == Spec => AtLeastOnce
<1> DEFINE Taken == \A e \in Queued : queue'[e] = None => e \in received \/ row'[e] = None
<1>1. ASSUME AuditInv, [Next]_vars PROVE [Taken]_vars
  <2> SUFFICES ASSUME Next, NEW e \in Queued, queue'[e] = None
               PROVE  e \in received \/ row'[e] = None
    BY <1>1
  <2>0. TypeOK /\ ForwardInv /\ e \in Events /\ queue[e] # None
    BY <1>1 DEF AuditInv, Queued
  <2>1. CASE \E x \in Events : Record(x) \/ RemoveRow(x)
    <3>1. PICK x \in Events : Record(x) \/ RemoveRow(x)
      BY <2>1
    <3>2. CASE Record(x)
      <4>1. e # x
        BY <2>0, <3>2 DEF Record, ForwardInv, RowsKnown
      <4> QED
        BY <2>0, <3>2, <4>1 DEF Record, TypeOK
    <3>3. CASE RemoveRow(x)
      BY <2>0, <3>3 DEF RemoveRow, TypeOK
    <3> QED
      BY <3>1, <3>2, <3>3
  <2>2. CASE \E p \in Servers : RetentionCommits(p)
    BY <2>0, <2>2 DEF RetentionCommits
  <2>3. CASE \E p \in Servers : Claim(p)
    <3>1. PICK p \in Servers : Claim(p)
      BY <2>3
    <3> DEFINE l == CHOOSE k \in Leases : ~LeaseInUse(k)
    <3>2. l \in Leases
      BY <3>1 DEF Claim
    <3>3. queue'[e] = [lease |-> l, left |-> LeaseTime] \/ queue'[e] = queue[e]
      BY <2>0, <3>1 DEF Claim
    <3> HIDE DEF l
    <3>4. [lease |-> l, left |-> LeaseTime] # None
      BY <3>2, TimeAssumption, AbsentAssumption DEF QueueType
    <3> QED
      BY <2>0, <3>3, <3>4
  <2>4. CASE \E m \in sends : DeleteForwarded(m)
    <3>1. PICK m \in sends : DeleteForwarded(m)
      BY <2>4
    <3>2. e \in m.events
      BY <2>0, <3>1 DEF DeleteForwarded
    <3> QED
      BY <2>0, <3>1, <3>2 DEF DeleteForwarded, ForwardInv, SendsTrue, SendTrue
  <2>5. CASE \E m \in sends : ReleaseForwardLease(m)
    <3>1. Free # None
      BY AbsentAssumption DEF Free, QueueType
    <3> QED
      BY <2>0, <2>5, <3>1 DEF ReleaseForwardLease
  <2>6. CASE Tick
    <3>1. queue[e] \in QueueType
      BY <2>0 DEF TypeOK
    <3>2. queue[e].left > 0 => [queue[e] EXCEPT !.left = @ - 1] \in QueueType
      BY <3>1 DEF QueueType
    <3> QED
      BY <2>0, <2>6, <3>1, <3>2, AbsentAssumption DEF Tick, Held
  <2>7. CASE queue' = queue
    BY <2>0, <2>7
  <2> QED
    <3>1. ASSUME NEW p \in Servers, Sealing(p) \/ RetentionBegins(p) \/ UnitFails(p) \/ Crash(p) PROVE queue' = queue
      BY <3>1 DEF Sealing, SealBegins, SealCommits, RetentionBegins, UnitFails, Crash, forwarding
    <3>2. ASSUME NEW m \in sends, NEW taken \in BOOLEAN, NEW result \in {"sent", "failed"}, Send(m, taken, result)
          PROVE  queue' = queue
      BY <3>2 DEF Send
    <3>3. ASSUME NEW m \in sends, SecondUnitFails(m) PROVE queue' = queue
      BY <3>3 DEF SecondUnitFails
    <3>4. Expire => queue' = queue
      BY DEF Expire, forwarding
    <3> QED
      BY <2>1, <2>2, <2>3, <2>4, <2>5, <2>6, <2>7, <3>1, <3>2, <3>3, <3>4 DEF Next, Retaining, SendStep
<1>2. Spec => [][Taken]_vars
  BY <1>1, Inductive, PTL DEF Spec
<1> QED
  BY <1>2 DEF AtLeastOnce
=============================================================================
