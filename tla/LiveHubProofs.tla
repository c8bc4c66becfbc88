--------------------------- MODULE LiveHubProofs ---------------------------
(***************************************************************************)
(* Presence and roles agree once the bus is quiet, for any number of       *)
(* processes, users and sockets, any queue and inbox limits, and any       *)
(* number of faults, role changes and resyncs.                             *)
(* The argument looks at two processes at a time: at what x has queued for *)
(* the bus, what y has not handled yet, and what y believes.  Operators    *)
(* and lemmas take the two buses as values, so that a step that sends      *)
(* twice is two uses of a lemma.                                           *)
(***************************************************************************)
EXTENDS LiveHub, SequenceTheorems, TLAPS

---------------------------------------------------------------------------
(* What a queue says of a process *)

(* m gives the users of x. *)
About(m, x) == m.kind \in {"list", "reset"} /\ m.holder = x
Says(m) == IF m.kind = "list" THEN m.users ELSE {}

Contains(q, m) == \E i \in DOMAIN q : q[i] = m
Silent(q, x) == \A i \in DOMAIN q : ~About(q[i], x)
(* The last that q says of x, at i. *)
LastAbout(q, i, x) == i \in DOMAIN q /\ About(q[i], x) /\ \A j \in DOMAIN q : j > i => ~About(q[j], x)
(* Whoever hears all of q believes U of x. *)
Tells(q, x, U) == \E i \in DOMAIN q : LastAbout(q, i, x) /\ Says(q[i]) = U
(* After the last marker of q, only U is said of x in the end. *)
MarkerAfter(q, i) == \E j \in DOMAIN q : j > i /\ q[j] = Marker
Fresh(q, x, U) ==
    \A i \in DOMAIN q : About(q[i], x) =>
        MarkerAfter(q, i) \/ \E j \in DOMAIN q : j >= i /\ LastAbout(q, j, x) /\ Says(q[j]) = U

---------------------------------------------------------------------------
(* Lemmas on queues *)

LEMMA AppendFacts ==
    ASSUME NEW q \in Seq(MessageType), NEW m \in MessageType
    PROVE  /\ Append(q, m) \in Seq(MessageType)
           /\ DOMAIN Append(q, m) = 1..Len(q) + 1 /\ DOMAIN q = 1..Len(q)
           /\ Len(q) \in Nat /\ Len(Append(q, m)) = Len(q) + 1
           /\ \A i \in 1..Len(q) : Append(q, m)[i] = q[i]
           /\ Append(q, m)[Len(q) + 1] = m
<1>1. /\ Append(q, m) \in Seq(MessageType)
      /\ Len(Append(q, m)) = Len(q) + 1
      /\ \A i \in 1..Len(q) : Append(q, m)[i] = q[i]
      /\ Append(q, m)[Len(q) + 1] = m
  BY AppendProperties
<1>2. DOMAIN Append(q, m) = 1..Len(Append(q, m)) /\ DOMAIN q = 1..Len(q) /\ Len(q) \in Nat
  BY <1>1, LenProperties
<1> QED
  BY <1>1, <1>2

(* A queue that took m has it at its end, within the limit; it is the old  *)
(* queue and m, or something was dropped.                                  *)
LEMMA NewestFacts ==
    ASSUME NEW q \in Seq(MessageType), NEW m \in MessageType, NEW n \in Nat \ {0}, Len(q) <= n,
           NEW p, p = Newest(Append(q, m), n)
    PROVE  /\ p \in Seq(MessageType) /\ DOMAIN p = 1..Len(p)
           /\ Len(p) \in 1..n /\ Len(p) <= n /\ Len(p) > 0 /\ p[Len(p)] = m
           /\ Contains(p, m)
           /\ p = IF Len(q) < n THEN Append(q, m) ELSE Tail(Append(q, m))
<1> DEFINE a == Append(q, m)
<1>1. /\ a \in Seq(MessageType) /\ Len(a) = Len(q) + 1 /\ Len(q) \in Nat
      /\ DOMAIN a = 1..Len(q) + 1 /\ DOMAIN q = 1..Len(q)
      /\ \A i \in 1..Len(q) : a[i] = q[i]
      /\ a[Len(q) + 1] = m
  BY AppendFacts
<1>0. p = Newest(a, n)
  OBVIOUS
<1> HIDE DEF a
<1>2. ASSUME Len(q) < n
      PROVE  p = Append(q, m) /\ p \in Seq(MessageType) /\ DOMAIN p = 1..Len(p) /\ Len(p) \in 1..n /\ p[Len(p)] = m
  <2>1. p = a
    BY <1>0, <1>1, <1>2 DEF Newest
  <2>2. Len(a) \in 1..n /\ a[Len(a)] = m
    BY <1>1, <1>2
  <2> QED
    BY <1>1, <1>2, <2>1, <2>2 DEF a
<1>3. ASSUME Len(q) = n
      PROVE  p = Tail(Append(q, m)) /\ p \in Seq(MessageType) /\ DOMAIN p = 1..Len(p) /\ Len(p) \in 1..n /\ p[Len(p)] = m
  <2>1. p = SubSeq(a, 2, n + 1)
    BY <1>0, <1>1, <1>3 DEF Newest
  <2>2. /\ SubSeq(a, 2, n + 1) \in Seq(MessageType)
        /\ Len(SubSeq(a, 2, n + 1)) = n
        /\ \A i \in 1..n : SubSeq(a, 2, n + 1)[i] = a[i + 1]
    <3>1. \A i \in 2..n + 1 : a[i] \in MessageType
      BY <1>1, <1>3, ElementOfSeq
    <3>2. /\ SubSeq(a, 2, n + 1) \in Seq(MessageType)
          /\ Len(SubSeq(a, 2, n + 1)) = IF 2 <= n + 1 THEN n + 1 - 2 + 1 ELSE 0
          /\ \A i \in 1..n + 1 - 2 + 1 : SubSeq(a, 2, n + 1)[i] = a[2 + i - 1]
      BY <3>1, SubSeqProperties
    <3> QED
      BY <3>2
  <2>3. p \in Seq(MessageType) /\ Len(p) = n /\ DOMAIN p = 1..n /\ \A i \in 1..n : p[i] = a[i + 1]
    BY <2>1, <2>2, LenProperties
  <2>4. p[n] = m
    BY <1>1, <1>3, <2>3
  <2>5. p = Tail(a)
    <3>1. a # <<>>
      BY <1>1, EmptySeq
    <3> QED
      BY <1>1, <1>3, <2>1, <3>1, TailIsSubSeq
  <2> QED
    BY <1>3, <2>3, <2>4, <2>5 DEF a
<1>4. ASSUME p \in Seq(MessageType), DOMAIN p = 1..Len(p), Len(p) \in 1..n, p[Len(p)] = m
      PROVE  Len(p) <= n /\ Len(p) > 0 /\ Contains(p, m)
  <2>1. Len(p) \in DOMAIN p
    BY <1>4
  <2> QED
    BY <1>4, <2>1 DEF Contains
<1>5. Len(q) < n \/ Len(q) = n
  <2>1. Len(q) \in Nat /\ n \in Nat
    BY LenProperties
  <2> QED
    BY <2>1
<1>6. p \in Seq(MessageType) /\ DOMAIN p = 1..Len(p) /\ Len(p) \in 1..n /\ p[Len(p)] = m
  BY <1>2, <1>3, <1>5
<1>7. p = IF Len(q) < n THEN Append(q, m) ELSE Tail(Append(q, m))
  BY <1>2, <1>3, <1>5
<1> QED
  BY <1>4, <1>6, <1>7

LEMMA TailFacts ==
    ASSUME NEW q \in Seq(MessageType), q # <<>>
    PROVE  /\ Head(q) \in MessageType /\ Tail(q) \in Seq(MessageType)
           /\ Head(q) = q[1] /\ Len(q) \in Nat \ {0} /\ DOMAIN q = 1..Len(q)
           /\ DOMAIN Tail(q) = 1..Len(q) - 1 /\ Len(Tail(q)) = Len(q) - 1
           /\ \A i \in 1..Len(q) - 1 : Tail(q)[i] = q[i + 1]
<1>1. /\ Head(q) \in MessageType /\ Tail(q) \in Seq(MessageType)
      /\ Len(Tail(q)) = Len(q) - 1
      /\ \A i \in 1..Len(Tail(q)) : Tail(q)[i] = q[i + 1]
  BY HeadTailProperties
<1>2. DOMAIN Tail(q) = 1..Len(Tail(q)) /\ DOMAIN q = 1..Len(q) /\ Len(q) \in Nat \ {0}
  BY <1>1, LenProperties, EmptySeq
<1>3. Head(q) = q[1]
  OBVIOUS
<1> QED
  BY <1>1, <1>2, <1>3

LEMMA EmptyFacts ==
    ASSUME NEW x, NEW U
    PROVE  Silent(<<>>, x) /\ ~Tells(<<>>, x, U) /\ Fresh(<<>>, x, U) /\ \A m : ~Contains(<<>>, m)
<1>1. DOMAIN <<>> = {}
  <2>1. <<>> \in Seq(MessageType) /\ Len(<<>>) = 0
    BY EmptySeq
  <2> QED
    BY <2>1, LenProperties
<1> QED
  BY <1>1 DEF Silent, Tells, Fresh, Contains, LastAbout

(* Whatever came before, the last message counts. *)
LEMMA LastTold ==
    ASSUME NEW q \in Seq(MessageType), Len(q) > 0, NEW x, About(q[Len(q)], x)
    PROVE  Tells(q, x, Says(q[Len(q)])) /\ ~Silent(q, x) /\ Fresh(q, x, Says(q[Len(q)]))
<1>1. Len(q) \in DOMAIN q /\ DOMAIN q = 1..Len(q) /\ Len(q) \in Nat
  BY LenProperties
<1>2. LastAbout(q, Len(q), x)
  BY <1>1 DEF LastAbout
<1>3. \A i \in DOMAIN q : Len(q) >= i
  BY <1>1
<1> QED
  BY <1>1, <1>2, <1>3 DEF Tells, Silent, Fresh

(* A message that says nothing of x. *)
LEMMA AppendOther ==
    ASSUME NEW q \in Seq(MessageType), NEW m \in MessageType, NEW x, ~About(m, x), NEW U
    PROVE  /\ Silent(q, x) <=> Silent(Append(q, m), x)
           /\ Tells(q, x, U) => Tells(Append(q, m), x, U)
           /\ Fresh(q, x, U) => Fresh(Append(q, m), x, U)
<1> DEFINE a == Append(q, m)
<1>1. /\ DOMAIN a = 1..Len(q) + 1 /\ DOMAIN q = 1..Len(q) /\ Len(q) \in Nat
      /\ \A i \in 1..Len(q) : a[i] = q[i]
      /\ a[Len(q) + 1] = m
  BY AppendFacts
<1> HIDE DEF a
<1>2. \A i \in DOMAIN a : (i \in DOMAIN q /\ a[i] = q[i]) \/ (i = Len(q) + 1 /\ a[i] = m)
  BY <1>1
<1>3. \A i \in DOMAIN q : i \in DOMAIN a /\ a[i] = q[i]
  BY <1>1
<1>4. Silent(q, x) <=> Silent(a, x)
  BY <1>2, <1>3 DEF Silent
<1>5. ASSUME NEW i, LastAbout(q, i, x)
      PROVE  LastAbout(a, i, x) /\ a[i] = q[i]
  BY <1>2, <1>3, <1>5 DEF LastAbout
<1>6. Tells(q, x, U) => Tells(a, x, U)
  BY <1>3, <1>5 DEF Tells
<1>7. ASSUME Fresh(q, x, U) PROVE Fresh(a, x, U)
  <2> SUFFICES ASSUME NEW i \in DOMAIN a, About(a[i], x), ~MarkerAfter(a, i)
               PROVE  \E j \in DOMAIN a : j >= i /\ LastAbout(a, j, x) /\ Says(a[j]) = U
    BY DEF Fresh
  <2>1. i \in DOMAIN q /\ a[i] = q[i]
    BY <1>2
  <2>2. ~MarkerAfter(q, i)
    BY <1>3 DEF MarkerAfter
  <2>3. PICK j \in DOMAIN q : j >= i /\ LastAbout(q, j, x) /\ Says(q[j]) = U
    BY <1>7, <2>1, <2>2 DEF Fresh
  <2> QED
    BY <1>3, <1>5, <2>3
<1> QED
  BY <1>4, <1>6, <1>7 DEF a

(* What a message that is added makes of the queue. *)
LEMMA AppendNew ==
    ASSUME NEW q \in Seq(MessageType), NEW m \in MessageType, NEW x
    PROVE  /\ \A n : Contains(q, n) => Contains(Append(q, m), n)
           /\ Contains(Append(q, m), m)
           /\ \A n : Contains(Append(q, m), n) => Contains(q, n) \/ n = m
           /\ About(m, x) => /\ Tells(Append(q, m), x, Says(m))
                             /\ ~Silent(Append(q, m), x)
                             /\ Fresh(Append(q, m), x, Says(m))
           /\ m = Marker => \A U : Fresh(Append(q, m), x, U)
<1> DEFINE a == Append(q, m)
<1>1. /\ a \in Seq(MessageType) /\ Len(a) = Len(q) + 1
      /\ DOMAIN a = 1..Len(q) + 1 /\ DOMAIN q = 1..Len(q) /\ Len(q) \in Nat
      /\ \A i \in 1..Len(q) : a[i] = q[i]
      /\ a[Len(q) + 1] = m
  BY AppendFacts
<1> HIDE DEF a
<1>2. /\ \A n : Contains(q, n) => Contains(a, n)
      /\ Contains(a, m)
      /\ \A n : Contains(a, n) => Contains(q, n) \/ n = m
  BY <1>1 DEF Contains
<1>3. About(m, x) => Tells(a, x, Says(m)) /\ ~Silent(a, x) /\ Fresh(a, x, Says(m))
  BY <1>1, LastTold
<1>4. ASSUME m = Marker, NEW U PROVE Fresh(a, x, U)
  <2> SUFFICES ASSUME NEW i \in DOMAIN a, About(a[i], x) PROVE MarkerAfter(a, i)
    BY DEF Fresh
  <2>1. i # Len(q) + 1
    BY <1>1, <1>4 DEF About, Marker
  <2> QED
    BY <1>1, <1>4, <2>1 DEF MarkerAfter
<1> QED
  BY <1>2, <1>3, <1>4 DEF a

(* What is left of a queue when its first message is taken. *)
LEMMA TailTells ==
    ASSUME NEW q \in Seq(MessageType), q # <<>>, NEW x, NEW U
    PROVE  /\ Silent(q, x) <=> Silent(Tail(q), x) /\ ~About(Head(q), x)
           /\ Tells(q, x, U) =>
                 Tells(Tail(q), x, U) \/ (Silent(Tail(q), x) /\ About(Head(q), x) /\ Says(Head(q)) = U)
           /\ Fresh(q, x, U) => Fresh(Tail(q), x, U)
           /\ \A n : Contains(q, n) <=> Contains(Tail(q), n) \/ n = Head(q)
<1> DEFINE t == Tail(q)
           h == Head(q)
<1>1. /\ h = q[1] /\ Len(q) \in Nat \ {0} /\ DOMAIN q = 1..Len(q)
      /\ DOMAIN t = 1..Len(q) - 1
      /\ \A i \in 1..Len(q) - 1 : t[i] = q[i + 1]
  BY TailFacts
<1> HIDE DEF t, h
<1>2. \A i \in DOMAIN q : (i = 1 /\ q[i] = h) \/ (i - 1 \in DOMAIN t /\ q[i] = t[i - 1])
  BY <1>1
<1>3. \A i \in DOMAIN t : i + 1 \in DOMAIN q /\ t[i] = q[i + 1]
  BY <1>1
<1>3a. 1 \in DOMAIN q /\ q[1] = h
  BY <1>1
<1>4. Silent(q, x) <=> Silent(t, x) /\ ~About(h, x)
  BY <1>2, <1>3, <1>3a DEF Silent
<1>5. \A n : Contains(q, n) <=> Contains(t, n) \/ n = h
  BY <1>2, <1>3, <1>3a DEF Contains
<1>6. ASSUME NEW i \in DOMAIN t, LastAbout(q, i + 1, x) PROVE LastAbout(t, i, x) /\ t[i] = q[i + 1]
  <2>1. t[i] = q[i + 1] /\ About(t[i], x)
    BY <1>3, <1>6 DEF LastAbout
  <2>2. ASSUME NEW j \in DOMAIN t, j > i PROVE ~About(t[j], x)
    <3>1. j + 1 \in DOMAIN q /\ t[j] = q[j + 1] /\ j + 1 > i + 1
      BY <1>1, <1>3, <2>2
    <3> QED
      BY <1>6, <3>1 DEF LastAbout
  <2> QED
    BY <2>1, <2>2 DEF LastAbout
<1>7. ASSUME Tells(q, x, U)
      PROVE  Tells(t, x, U) \/ (Silent(t, x) /\ About(h, x) /\ Says(h) = U)
  <2>1. PICK i \in DOMAIN q : LastAbout(q, i, x) /\ Says(q[i]) = U
    BY <1>7 DEF Tells
  <2>2. CASE i = 1
    <3>1. About(h, x) /\ Says(h) = U
      BY <1>1, <2>1, <2>2 DEF LastAbout
    <3>2. ASSUME NEW j \in DOMAIN t PROVE ~About(t[j], x)
      <4>1. j + 1 \in DOMAIN q /\ t[j] = q[j + 1] /\ j + 1 > 1
        BY <1>1, <1>3
      <4> QED
        BY <2>1, <2>2, <4>1 DEF LastAbout
    <3> QED
      BY <3>1, <3>2 DEF Silent
  <2>3. CASE i # 1
    <3>1. i - 1 \in DOMAIN t /\ (i - 1) + 1 = i
      BY <1>1, <2>3
    <3>2. LastAbout(t, i - 1, x) /\ t[i - 1] = q[i]
      BY <1>6, <2>1, <3>1
    <3> QED
      BY <2>1, <3>1, <3>2 DEF Tells
  <2> QED
    BY <2>2, <2>3
<1>8. ASSUME Fresh(q, x, U) PROVE Fresh(t, x, U)
  <2> SUFFICES ASSUME NEW i \in DOMAIN t, About(t[i], x), ~MarkerAfter(t, i)
               PROVE  \E j \in DOMAIN t : j >= i /\ LastAbout(t, j, x) /\ Says(t[j]) = U
    BY DEF Fresh
  <2>1. i + 1 \in DOMAIN q /\ t[i] = q[i + 1] /\ i \in Nat
    BY <1>1, <1>3
  <2>2. ~MarkerAfter(q, i + 1)
    <3> SUFFICES ASSUME NEW j \in DOMAIN q, j > i + 1, q[j] = Marker PROVE FALSE
      BY DEF MarkerAfter
    <3>1. j - 1 \in DOMAIN t /\ q[j] = t[j - 1] /\ j - 1 > i
      BY <1>1, <1>2, <2>1
    <3> QED
      BY <3>1 DEF MarkerAfter
  <2>3. PICK j \in DOMAIN q : j >= i + 1 /\ LastAbout(q, j, x) /\ Says(q[j]) = U
    BY <1>8, <2>1, <2>2 DEF Fresh
  <2>4. j - 1 \in DOMAIN t /\ (j - 1) + 1 = j /\ j - 1 >= i
    BY <1>1, <2>1, <2>3
  <2>5. LastAbout(t, j - 1, x) /\ t[j - 1] = q[j]
    BY <1>6, <2>3, <2>4
  <2> QED
    BY <2>3, <2>4, <2>5
<1> QED
  BY <1>4, <1>5, <1>7, <1>8 DEF t, h

(* Without a marker, what is fresh is all there is. *)
LEMMA FreshIsTold ==
    ASSUME NEW q, NEW x, NEW U, Fresh(q, x, U), ~Contains(q, Marker)
    PROVE  Silent(q, x) \/ Tells(q, x, U)
  BY DEF Fresh, MarkerAfter, Contains, Silent, Tells

---------------------------------------------------------------------------
(* A bus *)

GoodBus ==
    {b \in BusType : Len(b.out) <= QueueLimit /\ Len(b.inbox) <= InboxLimit /\ (b.marking => b.missed)}

(* b still owes the others a marker, or dropped something it told nobody   *)
(* of; b may have missed what others sent, and will resync.                *)
Owes(b) == b.raced \/ (b.missed /\ ~b.marking)
Deaf(b) == b.lost \/ ~b.connected
Troubled(b) == Owes(b) \/ Deaf(b) \/ Contains(b.inbox, Marker)

(* What is queued about x itself says U in the end. *)
OutTells(b, x, U) == Silent(b.out, x) \/ Tells(b.out, x, U)

LEMMA BusFields ==
    ASSUME NEW b \in GoodBus
    PROVE  /\ b.out \in Seq(MessageType) /\ b.inbox \in Seq(MessageType)
           /\ b.missed \in BOOLEAN /\ b.marking \in BOOLEAN /\ b.lost \in BOOLEAN
           /\ b.connected \in BOOLEAN /\ b.raced \in BOOLEAN
           /\ Len(b.out) <= QueueLimit /\ Len(b.inbox) <= InboxLimit
           /\ b.marking => b.missed
  BY DEF GoodBus, BusType

LEMMA MessageFacts ==
    /\ \A x \in Hubs :
          /\ Reset(x) \in MessageType /\ Reset(x) # Marker
          /\ About(Reset(x), x) /\ Says(Reset(x)) = {}
          /\ \A y : y # x => ~About(Reset(x), y)
    /\ \A x \in Hubs, U \in SUBSET Users :
          /\ List(x, U) \in MessageType /\ List(x, U) # Marker
          /\ About(List(x, U), x) /\ Says(List(x, U)) = U
          /\ \A y : y # x => ~About(List(x, U), y)
    /\ \A u \in Users :
          /\ Access(u) \in MessageType /\ Access(u) # Marker
          /\ \A y : ~About(Access(u), y)
    /\ Marker \in MessageType
    /\ \A y : ~About(Marker, y)
  BY DEF List, Reset, Access, Marker, MessageType, About, Says

(* send: m is queued; what was queued still is, or b owes a marker.        *)
LEMMA SendFacts ==
    ASSUME NEW b \in GoodBus, NEW m \in MessageType, NEW d, d = Send(b, m)
    PROVE  /\ d \in GoodBus
           /\ d.inbox = b.inbox /\ d.lost = b.lost /\ d.connected = b.connected /\ d.marking = b.marking
           /\ b.raced => d.raced
           /\ Owes(b) => Owes(d)
           /\ Owes(d) \/ (d.out = Append(b.out, m) /\ d.missed = b.missed /\ d.raced = b.raced)
           /\ Contains(d.out, m)
           /\ \A n : Contains(b.out, n) => Owes(d) \/ Contains(d.out, n)
           /\ \A n : Contains(d.out, n) => Contains(b.out, n) \/ n = m
           /\ \A x : About(m, x) => Tells(d.out, x, Says(m)) /\ ~Silent(d.out, x)
           /\ \A x, U : ~About(m, x) /\ OutTells(b, x, U) => OutTells(d, x, U)
           /\ \A x : ~About(m, x) => Owes(d) \/ (Silent(b.out, x) <=> Silent(d.out, x))
           /\ \A x, U : ~About(m, x) /\ Tells(b.out, x, U) => Owes(d) \/ Tells(d.out, x, U)
<1>0. /\ b.out \in Seq(MessageType) /\ b.inbox \in Seq(MessageType)
      /\ b.missed \in BOOLEAN /\ b.marking \in BOOLEAN /\ b.raced \in BOOLEAN
      /\ Len(b.out) <= QueueLimit /\ Len(b.inbox) <= InboxLimit
      /\ b.marking => b.missed
  BY BusFields
<1>1. PICK p : p = Newest(Append(b.out, m), QueueLimit)
  OBVIOUS
<1>2. /\ p \in Seq(MessageType) /\ Len(p) <= QueueLimit /\ Len(p) > 0 /\ p[Len(p)] = m
      /\ Contains(p, m)
      /\ p = IF Len(b.out) < QueueLimit THEN Append(b.out, m) ELSE Tail(Append(b.out, m))
  <2>1. PICK q : q = b.out
    OBVIOUS
  <2>2. q \in Seq(MessageType) /\ Len(q) <= QueueLimit /\ QueueLimit \in Nat \ {0} /\ p = Newest(Append(q, m), QueueLimit)
    BY <1>0, <1>1, <2>1, LimitAssumption
  <2>3. /\ p \in Seq(MessageType) /\ Len(p) <= QueueLimit /\ Len(p) > 0 /\ p[Len(p)] = m
        /\ Contains(p, m)
        /\ p = IF Len(q) < QueueLimit THEN Append(q, m) ELSE Tail(Append(q, m))
    BY <2>2, NewestFacts
  <2> QED
    BY <2>1, <2>3
<1>3. /\ d = [b EXCEPT !.out = p, !.missed = b.missed \/ Len(b.out) >= QueueLimit,
                     !.raced = b.raced \/ (b.marking /\ Len(b.out) >= QueueLimit)]
  BY <1>1 DEF Send
<1>4. Len(b.out) \in Nat /\ QueueLimit \in Nat \ {0}
  BY <1>0, LenProperties, LimitAssumption
<1>5. /\ d \in BusType /\ d.out = p
      /\ d.missed <=> b.missed \/ Len(b.out) >= QueueLimit
      /\ d.raced <=> b.raced \/ (b.marking /\ Len(b.out) >= QueueLimit)
      /\ d.inbox = b.inbox /\ d.lost = b.lost /\ d.connected = b.connected /\ d.marking = b.marking
      /\ d.missed \in BOOLEAN /\ d.raced \in BOOLEAN
  BY <1>2, <1>3, <1>0 DEF GoodBus, BusType
<1>6. d \in GoodBus
  BY <1>0, <1>2, <1>4, <1>5 DEF GoodBus
<1>7. Owes(b) => Owes(d)
  BY <1>0, <1>5 DEF Owes
<1>8. Owes(d) \/ (d.out = Append(b.out, m) /\ d.missed = b.missed /\ d.raced = b.raced)
  <2>1. CASE Len(b.out) < QueueLimit
    <3>1. ~(Len(b.out) >= QueueLimit)
      BY <1>4, <2>1
    <3> QED
      BY <1>0, <1>2, <1>5, <2>1, <3>1
  <2>2. CASE Len(b.out) >= QueueLimit
    BY <1>0, <1>5, <2>2 DEF Owes
  <2> QED
    BY <1>4, <2>1, <2>2
<1>9. Contains(d.out, m)
  BY <1>2, <1>5
<1>10. ASSUME NEW x, About(m, x) PROVE Tells(d.out, x, Says(m)) /\ ~Silent(d.out, x)
  <2>1. Len(p) > 0
    BY <1>2
  <2> QED
    BY <1>2, <1>5, <1>10, <2>1, LastTold
<1>11. ASSUME NEW x, NEW U, ~About(m, x), OutTells(b, x, U) PROVE OutTells(d, x, U)
  <2>1. PICK a : a = Append(b.out, m)
    OBVIOUS
  <2>2. a \in Seq(MessageType) /\ a # <<>>
    BY <1>0, <2>1, AppendProperties
  <2>3. Silent(a, x) \/ Tells(a, x, U)
    BY <1>0, <1>11, <2>1, AppendOther DEF OutTells
  <2>4. Silent(Tail(a), x) \/ Tells(Tail(a), x, U)
    BY <2>2, <2>3, TailTells
  <2> QED
    BY <1>2, <1>5, <2>1, <2>3, <2>4 DEF OutTells
<1>12. PICK q \in Seq(MessageType) : q = b.out
  BY <1>0
<1>13. /\ \A n : Contains(q, n) => Contains(Append(q, m), n)
       /\ \A n : Contains(Append(q, m), n) => Contains(q, n) \/ n = m
  BY AppendNew
<1>14. \A n : Contains(d.out, n) => Contains(b.out, n) \/ n = m
  <2>1. PICK a \in Seq(MessageType) : a = Append(q, m) /\ a # <<>>
    BY AppendProperties
  <2>2. \A n : Contains(Tail(a), n) => Contains(a, n)
    BY <2>1, TailTells
  <2> QED
    BY <1>2, <1>5, <1>12, <1>13, <2>1, <2>2
<1>15. \A n : Contains(b.out, n) => Owes(d) \/ Contains(d.out, n)
  BY <1>8, <1>12, <1>13
<1>16. ASSUME NEW x, NEW U, ~About(m, x)
       PROVE  /\ Owes(d) \/ (Silent(b.out, x) <=> Silent(d.out, x))
              /\ Tells(b.out, x, U) => Owes(d) \/ Tells(d.out, x, U)
  <2>1. /\ Silent(q, x) <=> Silent(Append(q, m), x)
        /\ Tells(q, x, U) => Tells(Append(q, m), x, U)
    BY <1>16, AppendOther
  <2> QED
    BY <1>8, <1>12, <2>1
<1> QED
  BY <1>5, <1>6, <1>7, <1>8, <1>9, <1>10, <1>11, <1>14, <1>15, <1>16

(* #heard: m is in the inbox; what was in it still is, or something is     *)
(* known to be lost.                                                       *)
LEMMA HeardFacts ==
    ASSUME NEW b \in GoodBus, NEW m \in MessageType, NEW d, d = Heard(b, m)
    PROVE  /\ d \in GoodBus
           /\ d.out = b.out /\ d.missed = b.missed /\ d.marking = b.marking
           /\ d.connected = b.connected /\ d.raced = b.raced
           /\ b.lost => d.lost
           /\ Owes(d) = Owes(b) /\ (Deaf(b) => Deaf(d))
           /\ Contains(d.inbox, m)
           /\ \A n : Contains(b.inbox, n) => d.lost \/ Contains(d.inbox, n)
           /\ \A x : About(m, x) => d.lost \/ (Tells(d.inbox, x, Says(m)) /\ Fresh(d.inbox, x, Says(m)))
           /\ m = Marker => \A x, U : d.lost \/ Fresh(d.inbox, x, U)
           /\ \A x : ~About(m, x) => d.lost \/ (Silent(b.inbox, x) <=> Silent(d.inbox, x))
           /\ \A x, U : ~About(m, x) /\ Tells(b.inbox, x, U) => d.lost \/ Tells(d.inbox, x, U)
           /\ \A x, U : ~About(m, x) /\ Fresh(b.inbox, x, U) => d.lost \/ Fresh(d.inbox, x, U)
<1>0. /\ b.out \in Seq(MessageType) /\ b.inbox \in Seq(MessageType) /\ b.lost \in BOOLEAN
      /\ Len(b.out) <= QueueLimit /\ Len(b.inbox) <= InboxLimit
      /\ b.marking => b.missed
  BY BusFields
<1>1. PICK p : p = Newest(Append(b.inbox, m), InboxLimit)
  OBVIOUS
<1>2. /\ p \in Seq(MessageType) /\ Len(p) <= InboxLimit /\ Len(p) > 0 /\ p[Len(p)] = m
      /\ Contains(p, m)
      /\ p = IF Len(b.inbox) < InboxLimit THEN Append(b.inbox, m) ELSE Tail(Append(b.inbox, m))
  <2>1. PICK q : q = b.inbox
    OBVIOUS
  <2>2. q \in Seq(MessageType) /\ Len(q) <= InboxLimit /\ InboxLimit \in Nat \ {0} /\ p = Newest(Append(q, m), InboxLimit)
    BY <1>0, <1>1, <2>1, LimitAssumption
  <2>3. /\ p \in Seq(MessageType) /\ Len(p) <= InboxLimit /\ Len(p) > 0 /\ p[Len(p)] = m
        /\ Contains(p, m)
        /\ p = IF Len(q) < InboxLimit THEN Append(q, m) ELSE Tail(Append(q, m))
    BY <2>2, NewestFacts
  <2> QED
    BY <2>1, <2>3
<1>3. d = [b EXCEPT !.inbox = p, !.lost = b.lost \/ Len(b.inbox) >= InboxLimit]
  BY <1>1 DEF Heard
<1>4. Len(b.inbox) \in Nat /\ InboxLimit \in Nat \ {0}
  BY <1>0, LenProperties, LimitAssumption
<1>5. /\ d \in BusType /\ d.inbox = p
      /\ d.lost <=> b.lost \/ Len(b.inbox) >= InboxLimit
      /\ d.out = b.out /\ d.missed = b.missed /\ d.marking = b.marking
      /\ d.connected = b.connected /\ d.raced = b.raced
      /\ d.lost \in BOOLEAN
  BY <1>0, <1>2, <1>3 DEF GoodBus, BusType
<1>6. d \in GoodBus
  BY <1>0, <1>2, <1>4, <1>5 DEF GoodBus
<1>7. d.lost \/ (d.inbox = Append(b.inbox, m) /\ d.lost = b.lost)
  BY <1>0, <1>2, <1>4, <1>5
<1>8. Contains(d.inbox, m)
  BY <1>2, <1>5
<1>9. PICK q \in Seq(MessageType) : q = b.inbox
  BY <1>0
<1>10. d.lost \/ d.inbox = Append(q, m)
  BY <1>7, <1>9
<1>11. /\ \A n : Contains(q, n) => Contains(Append(q, m), n)
       /\ \A x : About(m, x) => Tells(Append(q, m), x, Says(m)) /\ Fresh(Append(q, m), x, Says(m))
       /\ m = Marker => \A x, U : Fresh(Append(q, m), x, U)
  BY AppendNew
<1>13. /\ \A n : Contains(b.inbox, n) => d.lost \/ Contains(d.inbox, n)
       /\ \A x : About(m, x) => d.lost \/ (Tells(d.inbox, x, Says(m)) /\ Fresh(d.inbox, x, Says(m)))
       /\ m = Marker => \A x, U : d.lost \/ Fresh(d.inbox, x, U)
  BY <1>9, <1>10, <1>11
<1>14. ASSUME NEW x, NEW U, ~About(m, x)
       PROVE  /\ d.lost \/ (Silent(b.inbox, x) <=> Silent(d.inbox, x))
              /\ Tells(b.inbox, x, U) => d.lost \/ Tells(d.inbox, x, U)
              /\ Fresh(b.inbox, x, U) => d.lost \/ Fresh(d.inbox, x, U)
  <2>1. /\ Silent(q, x) <=> Silent(Append(q, m), x)
        /\ Tells(q, x, U) => Tells(Append(q, m), x, U)
        /\ Fresh(q, x, U) => Fresh(Append(q, m), x, U)
    BY <1>14, AppendOther
  <2> QED
    BY <1>9, <1>10, <2>1
<1>15. Owes(d) = Owes(b) /\ (Deaf(b) => Deaf(d)) /\ (b.lost => d.lost)
  BY <1>5 DEF Owes, Deaf
<1> QED
  BY <1>5, <1>6, <1>7, <1>8, <1>13, <1>14, <1>15

---------------------------------------------------------------------------
(* One direction of a pair: x, with bus b and users U, as y, with bus c,   *)
(* knows it                                                                *)

(* Whoever knows `known` of x and hears first q, then o, believes U.       *)
Believes(known, q, o, x, U) ==
    \/ Tells(o, x, U)
    \/ Silent(o, x) /\ Tells(q, x, U)
    \/ Silent(o, x) /\ Silent(q, x) /\ known = U

(* A reset of y is on its way to x, which will answer with its users. *)
Asked(c, b, y) == Contains(c.out, Reset(y)) \/ Contains(b.inbox, Reset(y))

(* What y has not handled yet, after the last marker, is what x says now:  *)
(* no list from before a loss survives the resync that the loss leads to.  *)
Current(x, b, U, c) ==
    Owes(b) \/ c.raced \/ Deaf(c) \/ ~Silent(b.out, x) \/ Fresh(c.inbox, x, U)

(* Either y will believe U, or it has forgotten x and asked for its users, *)
(* or one of the two owes or waits for a resync.                           *)
Agrees(x, b, U, y, c, known) ==
    \/ Troubled(b) \/ Troubled(c)
    \/ Believes(known, c.inbox, b.out, x, U)
    \/ Asked(c, b, y) /\ Believes(known, c.inbox, b.out, x, {})

(* x says something of itself. *)
LEMMA SaysItself ==
    ASSUME NEW b \in GoodBus, NEW m \in MessageType, NEW x, About(m, x), NEW d, d = Send(b, m),
           NEW c, NEW y, NEW known
    PROVE  Current(x, d, Says(m), c) /\ Agrees(x, d, Says(m), y, c, known)
<1>1. /\ Owes(d) \/ d.out = Append(b.out, m)
      /\ ~Silent(d.out, x)
  BY SendFacts
<1>2. Tells(d.out, x, Says(m))
  BY SendFacts
<1> QED
  BY <1>1, <1>2 DEF Current, Agrees, Believes, Troubled

(* x says something else. *)
LEMMA SaysOther ==
    ASSUME NEW b \in GoodBus, NEW m \in MessageType, NEW x, ~About(m, x), NEW d, d = Send(b, m),
           NEW c, NEW y, NEW U, NEW known
    PROVE  /\ Current(x, b, U, c) => Current(x, d, U, c)
           /\ Agrees(x, b, U, y, c, known) => Agrees(x, d, U, y, c, known)
<1>1. /\ Owes(b) => Owes(d)
      /\ Owes(d) \/ d.out = Append(b.out, m)
      /\ d.inbox = b.inbox /\ d.lost = b.lost /\ d.connected = b.connected
  BY SendFacts
<1>3. /\ Owes(d) \/ (Silent(b.out, x) <=> Silent(d.out, x))
      /\ Tells(b.out, x, U) => Owes(d) \/ Tells(d.out, x, U)
      /\ Tells(b.out, x, {}) => Owes(d) \/ Tells(d.out, x, {})
  BY SendFacts
<1>4. Current(x, b, U, c) => Current(x, d, U, c)
  BY <1>1, <1>3 DEF Current
<1>5. Troubled(b) => Troubled(d)
  BY <1>1 DEF Troubled, Deaf
<1>6. \A V : V \in {U, {}} /\ Believes(known, c.inbox, b.out, x, V) =>
        Owes(d) \/ Believes(known, c.inbox, d.out, x, V)
  BY <1>3 DEF Believes
<1>7. Asked(c, b, y) => Asked(c, d, y)
  BY <1>1 DEF Asked
<1>8. Agrees(x, b, U, y, c, known) => Agrees(x, d, U, y, c, known)
  BY <1>5, <1>6, <1>7 DEF Agrees, Troubled
<1> QED
  BY <1>4, <1>8

(* x sends anything: y's direction. *)
LEMMA SendsBack ==
    ASSUME NEW b \in GoodBus, NEW m \in MessageType, NEW d, d = Send(b, m),
           NEW x, NEW c, NEW y, NEW U, NEW known
    PROVE  /\ Current(y, c, U, b) => Current(y, c, U, d)
           /\ Agrees(y, c, U, x, b, known) => Agrees(y, c, U, x, d, known)
<1>1. /\ Owes(b) => Owes(d)
      /\ b.raced => d.raced
      /\ Owes(d) \/ d.out = Append(b.out, m)
      /\ d.inbox = b.inbox /\ d.lost = b.lost /\ d.connected = b.connected
  BY SendFacts
<1>2. Current(y, c, U, b) => Current(y, c, U, d)
  BY <1>1 DEF Current, Deaf
<1>3. Troubled(b) => Troubled(d)
  BY <1>1 DEF Troubled, Deaf
<1>4. Owes(d) \/ (Asked(b, c, x) => Asked(d, c, x))
  BY SendFacts DEF Asked
<1>5. Agrees(y, c, U, x, b, known) => Agrees(y, c, U, x, d, known)
  BY <1>1, <1>3, <1>4 DEF Agrees, Troubled
<1> QED
  BY <1>2, <1>5

(* x handles a message that is no marker: what it knows of y ...           *)
LEMMA Handles ==
    ASSUME NEW b \in GoodBus, b.inbox # <<>>, Head(b.inbox) # Marker,
           NEW d, d = [b EXCEPT !.inbox = Tail(b.inbox)],
           NEW x, NEW c, NEW y, NEW U, NEW known, NEW learnt,
           learnt = IF About(Head(b.inbox), y) THEN Says(Head(b.inbox)) ELSE known
    PROVE  /\ d \in GoodBus
           /\ Current(y, c, U, b) => Current(y, c, U, d)
           /\ Agrees(y, c, U, x, b, known) => Agrees(y, c, U, x, d, learnt)
<1>1. PICK q \in Seq(MessageType) : q = b.inbox
  BY BusFields
<1>2. PICK t : t = Tail(q)
  OBVIOUS
<1>3. /\ d.inbox = t /\ d.out = b.out /\ d.missed = b.missed /\ d.marking = b.marking
      /\ d.lost = b.lost /\ d.connected = b.connected /\ d.raced = b.raced
      /\ b.inbox = q
  BY <1>1, <1>2 DEF GoodBus, BusType
<1>4. /\ Silent(q, y) <=> Silent(t, y) /\ ~About(Head(q), y)
      /\ \A V : Tells(q, y, V) =>
            Tells(t, y, V) \/ (Silent(t, y) /\ About(Head(q), y) /\ Says(Head(q)) = V)
      /\ \A V : Fresh(q, y, V) => Fresh(t, y, V)
      /\ \A n : Contains(q, n) <=> Contains(t, n) \/ n = Head(q)
  BY <1>1, <1>2, TailTells
<1>5. d \in GoodBus
  <2>1. t \in Seq(MessageType) /\ Len(t) = Len(q) - 1 /\ Len(q) \in Nat
    BY <1>1, <1>2, TailFacts
  <2>2. d = [b EXCEPT !.inbox = t]
    BY <1>1, <1>2
  <2>3. d \in BusType
    BY <2>1, <2>2 DEF GoodBus, BusType
  <2>4. Len(t) <= InboxLimit
    <3>1. Len(q) <= InboxLimit /\ InboxLimit \in Nat
      BY <1>1, BusFields, LimitAssumption
    <3> QED
      BY <2>1, <3>1
  <2> QED
    BY <1>3, <2>3, <2>4 DEF GoodBus
<1>6. Current(y, c, U, b) => Current(y, c, U, d)
  BY <1>3, <1>4 DEF Current, Deaf
<1>7. Owes(d) = Owes(b) /\ Deaf(d) = Deaf(b)
  BY <1>3 DEF Owes, Deaf
<1>8. Troubled(b) => Troubled(d)
  BY <1>1, <1>3, <1>4, <1>7 DEF Troubled
<1>9. \A V : Believes(known, q, c.out, y, V) => Believes(learnt, t, c.out, y, V)
  <2>1. learnt = IF About(Head(q), y) THEN Says(Head(q)) ELSE known
    BY <1>1
  <2> QED
    BY <1>4, <2>1 DEF Believes
<1>10. Agrees(y, c, U, x, b, known) => Agrees(y, c, U, x, d, learnt)
  BY <1>3, <1>8, <1>9 DEF Agrees, Asked
<1> QED
  BY <1>5, <1>6, <1>10

(* ... and what y knows of x.                                              *)
LEMMA HandlesBack ==
    ASSUME NEW b \in GoodBus, b.inbox # <<>>, Head(b.inbox) # Marker,
           NEW d, d = [b EXCEPT !.inbox = Tail(b.inbox)],
           NEW x, NEW c, NEW y, NEW U, NEW known
    PROVE  /\ Current(x, b, U, c) => Current(x, d, U, c)
           /\ Agrees(x, b, U, y, c, known) =>
                 \/ Agrees(x, d, U, y, c, known)
                 \/ Head(b.inbox) = Reset(y) /\ Believes(known, c.inbox, d.out, x, {})
<1>1. PICK q \in Seq(MessageType) : q = b.inbox
  BY BusFields
<1>2. PICK t : t = Tail(q)
  OBVIOUS
<1>3. /\ d.inbox = t /\ d.out = b.out /\ d.missed = b.missed /\ d.marking = b.marking
      /\ d.lost = b.lost /\ d.connected = b.connected /\ d.raced = b.raced
      /\ b.inbox = q
  BY <1>1, <1>2 DEF GoodBus, BusType
<1>4. \A n : Contains(q, n) <=> Contains(t, n) \/ n = Head(q)
  BY <1>1, <1>2, TailTells
<1>5. Owes(d) = Owes(b) /\ Deaf(d) = Deaf(b)
  BY <1>3 DEF Owes, Deaf
<1>6. Troubled(b) => Troubled(d)
  BY <1>1, <1>3, <1>4, <1>5 DEF Troubled
<1>7. Asked(c, b, y) => Asked(c, d, y) \/ Head(q) = Reset(y)
  BY <1>3, <1>4 DEF Asked
<1> QED
  BY <1>1, <1>3, <1>5, <1>6, <1>7 DEF Current, Agrees

(* x has forgotten y and asks for its users. *)
LEMMA Asks ==
    ASSUME NEW b \in GoodBus, NEW x \in Hubs, NEW d, d = Send(b, Reset(x)),
           NEW c, NEW y, NEW U, OutTells(c, y, U), Current(y, c, U, b)
    PROVE  Current(y, c, U, d) /\ Agrees(y, c, U, x, d, {})
<1>0. Reset(x) \in MessageType
  BY MessageFacts
<1>1. /\ b.raced => d.raced
      /\ d.inbox = b.inbox /\ d.lost = b.lost /\ d.connected = b.connected
      /\ Contains(d.out, Reset(x))
  BY <1>0, SendFacts
<1>2. Current(y, c, U, d)
  BY <1>0, SendsBack
<1>3. CASE Owes(c) \/ b.raced \/ Deaf(b) \/ Contains(b.inbox, Marker)
  <2>1. Troubled(c) \/ Troubled(d)
    BY <1>1, <1>3 DEF Troubled, Owes, Deaf
  <2> QED
    BY <1>2, <2>1 DEF Agrees
<1>4. CASE ~(Owes(c) \/ b.raced \/ Deaf(b) \/ Contains(b.inbox, Marker))
  <2>1. CASE ~Silent(c.out, y)
    BY <1>2, <2>1 DEF OutTells, Agrees, Believes
  <2>2. CASE Silent(c.out, y)
    <3>1. Fresh(b.inbox, y, U)
      BY <1>4, <2>2 DEF Current
    <3>2. Silent(b.inbox, y) \/ Tells(b.inbox, y, U)
      BY <1>4, <3>1, FreshIsTold
    <3> QED
      BY <1>1, <1>2, <2>2, <3>2 DEF Agrees, Believes, Asked
  <2> QED
    BY <2>1, <2>2
<1> QED
  BY <1>3, <1>4

(* A bus whose queues stay, and that owes or waits for as much as before.  *)
LEMMA NothingSettled ==
    ASSUME NEW b, NEW d, d.out = b.out, d.inbox = b.inbox,
           Owes(b) => Owes(d), b.raced => d.raced, Deaf(b) => Deaf(d),
           NEW x, NEW c, NEW y, NEW U, NEW known
    PROVE  /\ Current(x, b, U, c) => Current(x, d, U, c)
           /\ Agrees(x, b, U, y, c, known) => Agrees(x, d, U, y, c, known)
           /\ Current(y, c, U, b) => Current(y, c, U, d)
           /\ Agrees(y, c, U, x, b, known) => Agrees(y, c, U, x, d, known)
<1>1. Troubled(b) => Troubled(d)
  BY DEF Troubled
<1>2. Current(x, b, U, c) => Current(x, d, U, c)
  BY DEF Current
<1>3. Current(y, c, U, b) => Current(y, c, U, d)
  BY DEF Current
<1>4. Agrees(x, b, U, y, c, known) => Agrees(x, d, U, y, c, known)
  BY <1>1 DEF Agrees, Asked
<1>5. Agrees(y, c, U, x, b, known) => Agrees(y, c, U, x, d, known)
  BY <1>1 DEF Agrees, Asked
<1> QED
  BY <1>2, <1>3, <1>4, <1>5

(* Another process is heard, by the one that knows or the one it knows.    *)
LEMMA HearsAnother ==
    ASSUME NEW c \in GoodBus, NEW m \in MessageType, NEW e, e = Heard(c, m),
           NEW x, NEW b, NEW y, NEW U, NEW known
    PROVE  /\ ~About(m, x) /\ Current(x, b, U, c) => Current(x, b, U, e)
           /\ ~About(m, x) /\ Agrees(x, b, U, y, c, known) => Agrees(x, b, U, y, e, known)
           /\ Current(y, c, U, b) => Current(y, e, U, b)
           /\ Agrees(y, c, U, x, b, known) => Agrees(y, e, U, x, b, known)
<1>1. /\ e.out = c.out /\ e.missed = c.missed /\ e.marking = c.marking
      /\ e.connected = c.connected /\ e.raced = c.raced
      /\ c.lost => e.lost
      /\ \A n : Contains(c.inbox, n) => e.lost \/ Contains(e.inbox, n)
  BY HeardFacts
<1>2. Owes(e) = Owes(c) /\ (Deaf(c) => Deaf(e))
  BY <1>1 DEF Owes, Deaf
<1>3. Troubled(c) => Troubled(e)
  BY <1>1, <1>2 DEF Troubled, Deaf
<1>4. ASSUME ~About(m, x)
      PROVE  /\ e.lost \/ (Silent(c.inbox, x) <=> Silent(e.inbox, x))
             /\ \A V : Tells(c.inbox, x, V) => e.lost \/ Tells(e.inbox, x, V)
             /\ \A V : Fresh(c.inbox, x, V) => e.lost \/ Fresh(e.inbox, x, V)
  BY <1>4, HeardFacts
<1>5. ASSUME ~About(m, x), Current(x, b, U, c) PROVE Current(x, b, U, e)
  BY <1>1, <1>2, <1>4, <1>5 DEF Current, Deaf
<1>6. ASSUME ~About(m, x), Agrees(x, b, U, y, c, known) PROVE Agrees(x, b, U, y, e, known)
  <2>1. \A V : Believes(known, c.inbox, b.out, x, V) => e.lost \/ Believes(known, e.inbox, b.out, x, V)
    BY <1>4, <1>6 DEF Believes
  <2> QED
    BY <1>1, <1>3, <1>6, <2>1 DEF Agrees, Asked, Troubled, Deaf
<1>7. Current(y, c, U, b) => Current(y, e, U, b)
  BY <1>1, <1>2 DEF Current
<1>8. Agrees(y, c, U, x, b, known) => Agrees(y, e, U, x, b, known)
  <2>1. Asked(b, c, x) => Asked(b, e, x) \/ e.lost
    BY <1>1 DEF Asked
  <2> QED
    BY <1>1, <1>3, <2>1 DEF Agrees, Troubled, Deaf
<1> QED
  BY <1>5, <1>6, <1>7, <1>8

(* The next payload of x reaches y, if y listens; neither believes         *)
(* anything else in the end.                                               *)
LEMMA Pumps ==
    ASSUME NEW b \in GoodBus, NEW c \in GoodBus, b.out # <<>>,
           NEW d, d = [b EXCEPT !.out = Tail(b.out)],
           NEW e, e = IF c.connected THEN Heard(c, Head(b.out)) ELSE c,
           NEW x, NEW y, NEW U, NEW known, OutTells(b, x, U)
    PROVE  /\ d \in GoodBus /\ OutTells(d, x, U)
           /\ Current(x, b, U, c) => Current(x, d, U, e)
           /\ Agrees(x, b, U, y, c, known) => Agrees(x, d, U, y, e, known)
<1>1. PICK q \in Seq(MessageType) : q = b.out
  BY BusFields
<1>2. PICK t : t = Tail(q)
  OBVIOUS
<1>3. PICK m \in MessageType : m = Head(q)
  BY <1>1, TailFacts
<1>4. /\ d.out = t /\ d.inbox = b.inbox /\ d.missed = b.missed /\ d.marking = b.marking
      /\ d.lost = b.lost /\ d.connected = b.connected /\ d.raced = b.raced
  BY <1>1, <1>2 DEF GoodBus, BusType
<1>5. d \in GoodBus
  <2>1. t \in Seq(MessageType) /\ Len(t) = Len(q) - 1 /\ Len(q) \in Nat
    BY <1>1, <1>2, TailFacts
  <2>2. d = [b EXCEPT !.out = t]
    BY <1>1, <1>2
  <2>3. d \in BusType
    BY <2>1, <2>2 DEF GoodBus, BusType
  <2>4. Len(t) <= QueueLimit
    <3>1. Len(q) <= QueueLimit /\ QueueLimit \in Nat
      BY <1>1, BusFields, LimitAssumption
    <3> QED
      BY <2>1, <3>1
  <2> QED
    BY <1>4, <2>3, <2>4 DEF GoodBus
<1>6. /\ Silent(q, x) <=> Silent(t, x) /\ ~About(m, x)
      /\ \A V : Tells(q, x, V) => Tells(t, x, V) \/ (Silent(t, x) /\ About(m, x) /\ Says(m) = V)
      /\ \A n : Contains(q, n) <=> Contains(t, n) \/ n = m
  BY <1>1, <1>2, <1>3, TailTells
<1>7. OutTells(d, x, U)
  BY <1>1, <1>4, <1>6 DEF OutTells
<1>8. Owes(d) = Owes(b) /\ Deaf(d) = Deaf(b) /\ Troubled(d) = Troubled(b)
  BY <1>4 DEF Owes, Deaf, Troubled
<1>9. CASE ~c.connected
  BY <1>5, <1>7, <1>9 DEF Current, Agrees, Troubled, Deaf
<1>10. CASE c.connected
  <2>1. e = Heard(c, m)
    BY <1>1, <1>3, <1>10
  <2>2. /\ e.raced = c.raced /\ (Deaf(c) => Deaf(e))
        /\ Owes(e) = Owes(c)
        /\ \A n : Contains(c.inbox, n) => e.lost \/ Contains(e.inbox, n)
        /\ About(m, x) => e.lost \/ (Tells(e.inbox, x, Says(m)) /\ Fresh(e.inbox, x, Says(m)))
        /\ e.out = c.out
    BY <2>1, HeardFacts, ZenonT(40)
  <2>3. ASSUME ~About(m, x)
        PROVE  /\ e.lost \/ (Silent(c.inbox, x) <=> Silent(e.inbox, x))
               /\ \A V : Tells(c.inbox, x, V) => e.lost \/ Tells(e.inbox, x, V)
               /\ \A V : Fresh(c.inbox, x, V) => e.lost \/ Fresh(e.inbox, x, V)
    BY <2>1, <2>3, HeardFacts
  <2>4. About(m, x) /\ Silent(t, x) => Says(m) = U
    <3>1. ASSUME About(m, x), Silent(t, x) PROVE Says(m) = U
      <4>1. Tells(q, x, U)
        BY <1>1, <1>6, <3>1 DEF OutTells
      <4>2. ~Tells(t, x, U)
        BY <3>1 DEF Tells, Silent, LastAbout
      <4> QED
        BY <1>6, <4>1, <4>2
    <3> QED
      BY <3>1
  <2>5. Current(x, b, U, c) => Current(x, d, U, e)
    BY <1>1, <1>4, <1>6, <1>8, <2>2, <2>3, <2>4 DEF Current, Deaf
  <2>6. ASSUME NEW V, Believes(known, c.inbox, b.out, x, V)
        PROVE  e.lost \/ Believes(known, e.inbox, d.out, x, V)
    <3>1. CASE About(m, x)
      <4>1. Tells(q, x, V)
        BY <1>1, <1>6, <2>6, <3>1 DEF Believes
      <4> QED
        BY <1>4, <1>6, <2>2, <3>1, <4>1 DEF Believes
    <3>2. CASE ~About(m, x)
      BY <1>1, <1>4, <1>6, <2>3, <2>6, <3>2 DEF Believes
    <3> QED
      BY <3>1, <3>2
  <2>7. Troubled(c) => Troubled(e)
    BY <2>2 DEF Troubled, Deaf
  <2>8. Agrees(x, b, U, y, c, known) => Agrees(x, d, U, y, e, known)
    <3>1. Asked(c, b, y) = Asked(e, d, y)
      BY <1>4, <2>2 DEF Asked
    <3> QED
      BY <1>8, <2>6, <2>7, <3>1 DEF Agrees, Troubled, Deaf
  <2> QED
    BY <1>5, <1>7, <2>5, <2>8
<1> QED
  BY <1>9, <1>10

(* ... and what x believes of y. *)
LEMMA PumpsBack ==
    ASSUME NEW b \in GoodBus, NEW c \in GoodBus, b.out # <<>>,
           NEW d, d = [b EXCEPT !.out = Tail(b.out)],
           NEW e, e = IF c.connected THEN Heard(c, Head(b.out)) ELSE c,
           NEW x, NEW y, NEW U, NEW known
    PROVE  /\ Current(y, c, U, b) => Current(y, e, U, d)
           /\ Agrees(y, c, U, x, b, known) => Agrees(y, e, U, x, d, known)
<1>1. PICK q \in Seq(MessageType) : q = b.out
  BY BusFields
<1>2. PICK t : t = Tail(q)
  OBVIOUS
<1>3. PICK m \in MessageType : m = Head(q)
  BY <1>1, TailFacts
<1>4. /\ d.out = t /\ d.inbox = b.inbox /\ d.missed = b.missed /\ d.marking = b.marking
      /\ d.lost = b.lost /\ d.connected = b.connected /\ d.raced = b.raced
  BY <1>1, <1>2 DEF GoodBus, BusType
<1>5. \A n : Contains(q, n) => Contains(t, n) \/ n = m
  BY <1>1, <1>2, <1>3, TailTells
<1>6. Owes(d) = Owes(b) /\ Deaf(d) = Deaf(b) /\ Troubled(d) = Troubled(b)
  BY <1>4 DEF Owes, Deaf, Troubled
<1>7. CASE ~c.connected
  BY <1>4, <1>6, <1>7 DEF Current, Agrees, Troubled, Deaf
<1>8. CASE c.connected
  <2>1. e = Heard(c, m)
    BY <1>1, <1>3, <1>8
  <2>2. /\ e.out = c.out /\ (Deaf(c) => Deaf(e)) /\ Owes(e) = Owes(c)
        /\ \A n : Contains(c.inbox, n) => e.lost \/ Contains(e.inbox, n)
        /\ Contains(e.inbox, m)
    BY <2>1, HeardFacts, ZenonT(40)
  <2>3. Current(y, c, U, b) => Current(y, e, U, d)
    BY <1>4, <1>6, <2>2 DEF Current
  <2>4. Troubled(c) => Troubled(e)
    BY <2>2 DEF Troubled, Deaf
  <2>5. Asked(b, c, x) => Asked(d, e, x) \/ e.lost
    BY <1>1, <1>4, <1>5, <2>2 DEF Asked
  <2>6. Agrees(y, c, U, x, b, known) => Agrees(y, e, U, x, d, known)
    BY <1>4, <1>6, <2>2, <2>4, <2>5 DEF Agrees, Troubled, Deaf
  <2> QED
    BY <2>3, <2>6
<1> QED
  BY <1>7, <1>8

(* The marker of x reaches y, if y listens: from here on y waits for a     *)
(* resync, not x for its marker.                                           *)
LEMMA Marks ==
    ASSUME NEW b \in GoodBus, NEW c \in GoodBus,
           NEW d, d = [b EXCEPT !.marking = TRUE],
           NEW e, e = IF c.connected THEN Heard(c, Marker) ELSE c,
           NEW x, NEW y, NEW U, NEW V, NEW knownX, NEW knownY
    PROVE  /\ Current(x, d, U, e) /\ Agrees(x, d, U, y, e, knownX)
           /\ Current(y, c, V, b) => Current(y, e, V, d)
           /\ Agrees(y, e, V, x, d, knownY)
<1>1. d.out = b.out /\ d.inbox = b.inbox /\ d.raced = b.raced /\ Deaf(d) = Deaf(b)
  BY DEF GoodBus, BusType, Deaf
<1>2. CASE ~c.connected
  BY <1>1, <1>2 DEF Current, Agrees, Troubled, Deaf
<1>3. CASE c.connected
  <2>1. e = Heard(c, Marker) /\ Marker \in MessageType
    BY <1>3 DEF Marker, MessageType
  <2>2. /\ e.out = c.out /\ Owes(e) = Owes(c)
        /\ Contains(e.inbox, Marker)
        /\ e.lost \/ Fresh(e.inbox, x, U)
    BY <2>1, HeardFacts
  <2> QED
    BY <1>1, <2>2 DEF Current, Agrees, Troubled, Deaf
<1> QED
  BY <1>2, <1>3

---------------------------------------------------------------------------
(* The invariant *)

(* y knows x, in the end. *)
Knows(x, b, U, y, c, hc) == Current(x, b, U, c) /\ Agrees(x, b, U, y, c, hc.remote[x])

(* What h has queued is about nobody else, and true of h.                  *)
OwnOnly(h, b) == \A m, y : Contains(b.out, m) /\ About(m, y) => y = h
Honest(h, b, U) == OutTells(b, h, U) /\ OwnOnly(h, b)

MarkersOwed == \A h \in Hubs : bus[h].marking => bus[h].missed
NewIsNew == \A h \in Hubs : hub[h].mode = "new" => hub[h] = NewHub /\ bus[h] = NewBus
SocketsUp == \A s \in Sockets : sub[s] # None => Up(HubOf[s])
HubsHonest ==
    \A h \in Hubs : Up(h) => hub[h].announced = Local(sub, h) /\ Honest(h, bus[h], Local(sub, h))
OwnMessages == \A h \in Hubs : OwnOnly(h, bus[h])
PairsKnow ==
    \A x, y \in Hubs : x # y /\ Up(x) /\ Up(y) => Knows(x, bus[x], Local(sub, x), y, bus[y], hub[y])

PresenceInv == TypeOK /\ MarkersOwed /\ NewIsNew /\ SocketsUp /\ HubsHonest /\ OwnMessages /\ PairsKnow

LEMMA BusesGood ==
    ASSUME TypeOK, MarkersOwed, NEW h \in Hubs
    PROVE  bus[h] \in GoodBus
  BY DEF TypeOK, MarkersOwed, GoodBus

LEMMA LocalUsers ==
    ASSUME NEW sb, NEW h
    PROVE  Local(sb, h) \in SUBSET Users /\ (Subscribed(sb, h) = {} <=> Local(sb, h) = {})
  BY SocketAssumption DEF Local, Subscribed

---------------------------------------------------------------------------
(* What the hubs' own operations give *)

LEMMA HubUpdates ==
    ASSUME NEW hb \in HubType
    PROVE  /\ hb.mode \in {"new", "up", "closed", "gone"} /\ hb.announced \in SUBSET Users
           /\ hb.remote \in [Hubs -> SUBSET Users] /\ hb.rechecks \in Seq(SUBSET Users)
           /\ hb.run \in RunType \cup {None} /\ hb.resyncs \in Nat
           /\ \A U \in SUBSET Users : [hb EXCEPT !.announced = U] \in HubType
           /\ \A r \in [Hubs -> SUBSET Users] : [hb EXCEPT !.remote = r] \in HubType
           /\ \A q \in Seq(SUBSET Users) : [hb EXCEPT !.rechecks = q] \in HubType
           /\ \A r \in RunType \cup {None} : [hb EXCEPT !.run = r] \in HubType
           /\ \A n \in Nat : [hb EXCEPT !.resyncs = n] \in HubType
  BY DEF HubType

(* hd and hb differ in what was announced only. *)
SameButAnnounced(hd, hb) ==
    /\ hd.mode = hb.mode /\ hd.remote = hb.remote /\ hd.rechecks = hb.rechecks
    /\ hd.run = hb.run /\ hd.resyncs = hb.resyncs

LEMMA AnnounceFacts ==
    ASSUME NEW h \in Hubs, NEW hb \in HubType, NEW b \in GoodBus, NEW U \in SUBSET Users, NEW r,
           r = [hub |-> [hb EXCEPT !.announced = U], bus |-> Send(b, List(h, U))]
    PROVE  /\ r.hub \in HubType /\ r.bus \in GoodBus
           /\ r.hub.announced = U /\ SameButAnnounced(r.hub, hb)
           /\ r.bus = Send(b, List(h, U))
<1>1. PICK hd : hd = [hb EXCEPT !.announced = U]
  OBVIOUS
<1>2. hd \in HubType /\ hd.announced = U /\ SameButAnnounced(hd, hb)
  BY <1>1 DEF HubType, SameButAnnounced
<1>3. Send(b, List(h, U)) \in GoodBus
  BY MessageFacts, SendFacts
<1>4. r.hub = hd /\ r.bus = Send(b, List(h, U))
  BY <1>1
<1> QED
  BY <1>2, <1>3, <1>4

LEMMA AnnounceOwnFacts ==
    ASSUME NEW h \in Hubs, NEW hb \in HubType, NEW b \in GoodBus, NEW sb, NEW r,
           r = AnnounceOwn(h, hb, b, sb)
    PROVE  /\ r.hub \in HubType /\ r.bus \in GoodBus
           /\ r.hub.announced = Local(sb, h) /\ SameButAnnounced(r.hub, hb)
           /\ \/ r.bus = b /\ hb.announced = Local(sb, h)
              \/ r.bus = Send(b, List(h, Local(sb, h)))
<1>1. PICK U \in SUBSET Users : U = Local(sb, h)
  BY LocalUsers
<1>2. CASE U = hb.announced
  <2>1. r = [hub |-> hb, bus |-> b]
    BY <1>1, <1>2 DEF AnnounceOwn
  <2> QED
    BY <1>1, <1>2, <2>1 DEF SameButAnnounced
<1>3. CASE U # hb.announced
  <2>1. r = [hub |-> [hb EXCEPT !.announced = U], bus |-> Send(b, List(h, U))]
    BY <1>1, <1>3 DEF AnnounceOwn
  <2> QED
    BY <1>1, <2>1, AnnounceFacts
<1> QED
  BY <1>2, <1>3

LEMMA AnnounceAgainFacts ==
    ASSUME NEW h \in Hubs, NEW hb \in HubType, NEW b \in GoodBus, NEW r,
           r = AnnounceAgain(h, hb, b)
    PROVE  /\ r.hub \in HubType /\ r.bus \in GoodBus /\ SameButAnnounced(r.hub, hb)
           /\ Local(sub, h) = {} => r.hub = hb /\ r.bus = b
           /\ Local(sub, h) # {} =>
                 r.hub.announced = Local(sub, h) /\ r.bus = Send(b, List(h, Local(sub, h)))
<1>1. PICK U \in SUBSET Users : U = Local(sub, h)
  BY LocalUsers
<1>2. CASE U = {}
  <2>1. r = [hub |-> hb, bus |-> b]
    BY <1>1, <1>2 DEF AnnounceAgain
  <2> QED
    BY <1>1, <1>2, <2>1 DEF SameButAnnounced
<1>3. CASE U # {}
  <2>1. r = [hub |-> [hb EXCEPT !.announced = U], bus |-> Send(b, List(h, U))]
    BY <1>1, <1>3 DEF AnnounceAgain
  <2> QED
    BY <1>1, <1>3, <2>1, AnnounceFacts
<1> QED
  BY <1>2, <1>3

(* Whoever hears the list that h sends knows h. *)
LEMMA AnnouncesTo ==
    ASSUME NEW h \in Hubs, NEW b \in GoodBus, NEW V \in SUBSET Users, NEW d, d = Send(b, List(h, V))
    PROVE  \A y, c, hc : Knows(h, d, V, y, c, hc)
<1>1. PICK m \in MessageType : m = List(h, V) /\ About(m, h) /\ Says(m) = V
  BY MessageFacts
<1>2. d = Send(b, m)
  BY <1>1
<1>3. ASSUME NEW y, NEW c, NEW hc PROVE Knows(h, d, V, y, c, hc)
  BY <1>1, <1>2, SaysItself DEF Knows
<1> QED
  BY <1>3

(* h announces its users, if they have changed. *)
LEMMA Announces ==
    ASSUME NEW h \in Hubs, NEW b \in GoodBus, NEW U, Honest(h, b, U), NEW V \in SUBSET Users,
           NEW d, (d = b /\ U = V) \/ d = Send(b, List(h, V))
    PROVE  /\ Honest(h, d, V)
           /\ \A y, c, hc : U # V \/ Knows(h, b, U, y, c, hc) => Knows(h, d, V, y, c, hc)
           /\ \A y, c, W, hb, hd : Knows(y, c, W, h, b, hb) /\ hd.remote = hb.remote => Knows(y, c, W, h, d, hd)
<1>1. CASE d = b /\ U = V
  BY <1>1 DEF Knows
<1>2. CASE d = Send(b, List(h, V))
  <2>1. PICK m \in MessageType : m = List(h, V) /\ About(m, h) /\ Says(m) = V /\ \A z : About(m, z) => z = h
    BY MessageFacts
  <2>2. d = Send(b, m)
    BY <1>2, <2>1
  <2>3. Honest(h, d, V)
    BY <2>1, <2>2, SendFacts DEF Honest, OutTells, OwnOnly
  <2>4. \A y, c, hc : Knows(h, d, V, y, c, hc)
    BY <1>2, AnnouncesTo
  <2>5. ASSUME NEW y, NEW c, NEW W, NEW hb, NEW hd, Knows(y, c, W, h, b, hb), hd.remote = hb.remote
        PROVE  Knows(y, c, W, h, d, hd)
    BY <2>2, <2>5, SendsBack DEF Knows
  <2> QED
    BY <2>3, <2>4, <2>5
<1> QED
  BY <1>1, <1>2

(* start, and each resync: h says reset and its users. *)
LEMMA ListenedFacts ==
    ASSUME NEW h \in Hubs, hub[h] \in HubType, NEW b \in GoodBus, NEW reconnected \in BOOLEAN,
           NEW r, r = Listened(h, b, reconnected), NEW a, a = Send(b, Reset(h))
    PROVE  /\ r.hub \in HubType /\ r.bus \in GoodBus /\ a \in GoodBus
           /\ r.hub.mode = "up"
           /\ reconnected => \A g \in Hubs : r.hub.remote[g] = {}
           /\ ~reconnected => r.hub.remote = hub[h].remote
           /\ r.hub.rechecks = hub[h].rechecks /\ r.hub.run = hub[h].run
           /\ r.hub.resyncs >= hub[h].resyncs
           /\ reconnected /\ Local(sub, h) # {} => r.hub.resyncs > 0
           /\ Local(sub, h) = {} => r.hub.announced = hub[h].announced /\ r.bus = a
           /\ Local(sub, h) # {} => r.hub.announced = Local(sub, h) /\ r.bus = Send(a, List(h, Local(sub, h)))
<1>1. PICK m \in [Hubs -> SUBSET Users] : m = IF reconnected THEN [g \in Hubs |-> {}] ELSE hub[h].remote
  BY HubUpdates
<1>2. PICK n \in Nat : n = IF reconnected /\ Local(sub, h) # {} THEN hub[h].resyncs + 1 ELSE hub[h].resyncs
  <2>1. hub[h].resyncs \in Nat /\ hub[h].resyncs + 1 \in Nat
    BY HubUpdates
  <2> QED
    BY <2>1
<1>3. PICK hb : hb = [hub[h] EXCEPT !.mode = "up", !.remote = m, !.resyncs = n]
  OBVIOUS
<1>4. /\ hb \in HubType /\ hb.mode = "up" /\ hb.remote = m /\ hb.resyncs = n
      /\ hb.rechecks = hub[h].rechecks /\ hb.run = hub[h].run /\ hb.announced = hub[h].announced
  BY <1>3 DEF HubType
<1>5. a \in GoodBus
  BY MessageFacts, SendFacts
<1>9. n >= hub[h].resyncs /\ (reconnected /\ Local(sub, h) # {} => n > 0)
  BY <1>2, HubUpdates
<1>6. r = AnnounceAgain(h, hb, a)
  BY <1>1, <1>2, <1>3 DEF Listened
<1>7. /\ r.hub \in HubType /\ r.bus \in GoodBus /\ SameButAnnounced(r.hub, hb)
      /\ Local(sub, h) = {} => r.hub = hb /\ r.bus = a
      /\ Local(sub, h) # {} =>
            r.hub.announced = Local(sub, h) /\ r.bus = Send(a, List(h, Local(sub, h)))
  BY <1>4, <1>5, <1>6, AnnounceAgainFacts
<1> QED
  BY <1>1, <1>4, <1>5, <1>7, <1>9 DEF SameButAnnounced

(* h forgets what it knew, and asks: it will know the others again, and    *)
(* they know it.                                                           *)
LEMMA Listens ==
    ASSUME NEW h \in Hubs, hub[h] \in HubType, NEW b \in GoodBus, NEW reconnected \in BOOLEAN,
           NEW r, r = Listened(h, b, reconnected), OwnOnly(h, b),
           \A g \in Hubs : r.hub.remote[g] = {}
    PROVE  /\ Honest(h, r.bus, Local(sub, h))
           /\ \A y, c, hc : Knows(h, r.bus, Local(sub, h), y, c, hc)
           /\ \A y \in Hubs : \A c, W :
                 OutTells(c, y, W) /\ Current(y, c, W, b) => Knows(y, c, W, h, r.bus, r.hub)
<1>0. PICK a : a = Send(b, Reset(h))
  OBVIOUS
<1>1. /\ a \in GoodBus
      /\ Local(sub, h) = {} => r.bus = a
      /\ Local(sub, h) # {} => r.bus = Send(a, List(h, Local(sub, h)))
  BY <1>0, ListenedFacts
<1>2. PICK m \in MessageType : m = Reset(h) /\ About(m, h) /\ Says(m) = {} /\ \A z : About(m, z) => z = h
  BY MessageFacts
<1>3. Honest(h, a, {})
  <2>1. a = Send(b, m)
    BY <1>0, <1>2
  <2>2. \A x : About(m, x) => Tells(a.out, x, Says(m))
    BY <2>1, SendFacts
  <2>3. \A n : Contains(a.out, n) => Contains(b.out, n) \/ n = m
    BY <2>1, SendFacts
  <2> QED
    BY <1>2, <2>2, <2>3 DEF Honest, OutTells, OwnOnly
<1>4. \A y, c, hc : Knows(h, a, {}, y, c, hc)
  BY <1>0, <1>2, SaysItself DEF Knows
<1>5. ASSUME NEW y \in Hubs, NEW c, NEW W, OutTells(c, y, W), Current(y, c, W, b)
      PROVE  Knows(y, c, W, h, a, r.hub)
  BY <1>0, <1>5, Asks DEF Knows
<1>6. PICK U \in SUBSET Users : U = Local(sub, h)
  BY LocalUsers
<1>7. (r.bus = a /\ {} = U) \/ r.bus = Send(a, List(h, U))
  BY <1>1, <1>6
<1>8. /\ Honest(h, r.bus, U)
      /\ \A y, c, hc : {} # U \/ Knows(h, a, {}, y, c, hc) => Knows(h, r.bus, U, y, c, hc)
      /\ \A y, c, W, hb, hd :
            Knows(y, c, W, h, a, hb) /\ hd.remote = hb.remote => Knows(y, c, W, h, r.bus, hd)
  BY <1>1, <1>3, <1>7, Announces
<1> QED
  BY <1>4, <1>5, <1>6, <1>8

---------------------------------------------------------------------------
(* Steps of one process *)

LEMMA InitPresence == Init => PresenceInv
<1> SUFFICES ASSUME Init PROVE PresenceInv
  OBVIOUS
<1>1. NewHub \in HubType
  <2>1. <<>> \in Seq(SUBSET Users)
    BY EmptySeq
  <2> QED
    BY <2>1 DEF NewHub, HubType
<1>2. NewBus \in BusType /\ Len(NewBus.out) = 0 /\ Len(NewBus.inbox) = 0 /\ ~NewBus.marking
  <2>1. <<>> \in Seq(MessageType) /\ Len(<<>>) = 0
    BY EmptySeq
  <2> QED
    BY <2>1 DEF NewBus, BusType
<1>3. TypeOK
  BY <1>1, <1>2, LimitAssumption DEF Init, TypeOK, Roles
<1>4. MarkersOwed /\ NewIsNew /\ SocketsUp
  BY <1>2 DEF Init, MarkersOwed, NewIsNew, SocketsUp
<1>5. \A h \in Hubs : ~Up(h)
  BY DEF Init, Up, NewHub
<1>6. OwnMessages
  <2>1. \A h \in Hubs : bus[h].out = <<>>
    BY DEF Init, NewBus
  <2> QED
    BY <2>1, EmptyFacts DEF OwnMessages, OwnOnly
<1> QED
  BY <1>3, <1>4, <1>5, <1>6 DEF PresenceInv, HubsHonest, PairsKnow

(* What a step of h has to show: of h's own part, and in each pair that h  *)
(* is in.                                                                  *)
LEMMA OwnStep ==
    ASSUME PresenceInv, NEW h \in Hubs, NEW hb \in HubType, NEW b \in GoodBus,
           hub' = [hub EXCEPT ![h] = hb], bus' = [bus EXCEPT ![h] = b],
           role' \in [Users -> Roles], unsure' \subseteq Sockets,
           sub' \in [Sockets -> SubscriptionType \cup {None}],
           \A s \in Sockets : HubOf[s] # h => sub'[s] = sub[s],
           hb.mode # "new",
           hb.mode = "up" \/ \A s \in Sockets : HubOf[s] = h => sub'[s] = None,
           OwnOnly(h, b),
           hb.mode = "up" => /\ hb.announced = Local(sub', h) /\ Honest(h, b, Local(sub', h))
                             /\ \A y \in Hubs : y # h /\ Up(y) =>
                                   /\ Knows(h, b, Local(sub', h), y, bus[y], hub[y])
                                   /\ Knows(y, bus[y], Local(sub, y), h, b, hb)
    PROVE  PresenceInv'
<1>0. TypeOK /\ MarkersOwed /\ NewIsNew /\ SocketsUp /\ HubsHonest /\ OwnMessages /\ PairsKnow
  BY DEF PresenceInv
<1>1. /\ hub \in [Hubs -> HubType] /\ bus \in [Hubs -> BusType]
      /\ hub'[h] = hb /\ bus'[h] = b
      /\ \A y \in Hubs : y # h => hub'[y] = hub[y] /\ bus'[y] = bus[y]
      /\ hub' \in [Hubs -> HubType] /\ bus' \in [Hubs -> BusType]
  BY <1>0 DEF TypeOK, GoodBus
<1>2. TypeOK'
  BY <1>0, <1>1 DEF TypeOK, GoodBus
<1>3. MarkersOwed' /\ OwnMessages'
  BY <1>0, <1>1 DEF MarkersOwed, OwnMessages, GoodBus
<1>4. NewIsNew'
  BY <1>0, <1>1 DEF NewIsNew
<1>5. SocketsUp'
  BY <1>0, <1>1, SocketAssumption DEF SocketsUp, Up
<1>6. ASSUME NEW y \in Hubs, y # h PROVE Local(sub', y) = Local(sub, y)
  BY <1>6 DEF Local, Subscribed
<1>7. HubsHonest'
  <2> SUFFICES ASSUME NEW y \in Hubs, Up(y)'
               PROVE  hub'[y].announced = Local(sub', y) /\ Honest(y, bus'[y], Local(sub', y))
    BY DEF HubsHonest
  <2>1. CASE y = h
    BY <1>1, <2>1 DEF Up
  <2>2. CASE y # h
    BY <1>0, <1>1, <1>6, <2>2 DEF Up, HubsHonest
  <2> QED
    BY <2>1, <2>2
<1>8. PairsKnow'
  <2> SUFFICES ASSUME NEW x \in Hubs, NEW y \in Hubs, x # y, Up(x)', Up(y)'
               PROVE  Knows(x, bus'[x], Local(sub', x), y, bus'[y], hub'[y])
    BY DEF PairsKnow
  <2>1. CASE x = h
    BY <1>1, <2>1 DEF Up
  <2>2. CASE y = h
    BY <1>1, <1>6, <2>2 DEF Up
  <2>3. CASE x # h /\ y # h
    BY <1>0, <1>1, <1>6, <2>3 DEF Up, PairsKnow
  <2> QED
    BY <2>1, <2>2, <2>3
<1> QED
  BY <1>2, <1>3, <1>4, <1>5, <1>7, <1>8 DEF PresenceInv

(* The facts of a process that is up. *)
LEMMA UpFacts ==
    ASSUME PresenceInv, NEW h \in Hubs, Up(h)
    PROVE  /\ hub[h] \in HubType /\ bus[h] \in GoodBus /\ hub[h].mode = "up"
           /\ hub[h].announced = Local(sub, h) /\ Honest(h, bus[h], Local(sub, h)) /\ OwnOnly(h, bus[h])
           /\ \A y \in Hubs : y # h /\ Up(y) =>
                 /\ bus[y] \in GoodBus /\ OutTells(bus[y], y, Local(sub, y))
                 /\ Knows(h, bus[h], Local(sub, h), y, bus[y], hub[y])
                 /\ Knows(y, bus[y], Local(sub, y), h, bus[h], hub[h])
<1>1. /\ TypeOK /\ MarkersOwed /\ HubsHonest /\ OwnMessages /\ PairsKnow
  BY DEF PresenceInv
<1>2. \A y \in Hubs : bus[y] \in GoodBus
  BY <1>1, BusesGood
<1> QED
  BY <1>1, <1>2 DEF TypeOK, Up, HubsHonest, Honest, OwnMessages, PairsKnow

(* A step that leaves the bus, and whom h has and knows, alone.            *)
LEMMA QuietStep ==
    ASSUME PresenceInv, NEW h \in Hubs, Up(h), NEW hb \in HubType,
           hub' = [hub EXCEPT ![h] = hb], bus' = bus,
           role' \in [Users -> Roles], unsure' \subseteq Sockets,
           sub' \in [Sockets -> SubscriptionType \cup {None}],
           \A s \in Sockets : HubOf[s] # h => sub'[s] = sub[s],
           Local(sub', h) = Local(sub, h),
           hb.mode = "up", hb.announced = hub[h].announced,
           \A y \in Hubs : Up(y) => hb.remote[y] = hub[h].remote[y]
    PROVE  PresenceInv'
<1>1. /\ bus[h] \in GoodBus /\ OwnOnly(h, bus[h])
      /\ hub[h].announced = Local(sub, h) /\ Honest(h, bus[h], Local(sub, h))
      /\ \A y \in Hubs : y # h /\ Up(y) =>
            /\ Knows(h, bus[h], Local(sub, h), y, bus[y], hub[y])
            /\ Knows(y, bus[y], Local(sub, y), h, bus[h], hub[h])
  BY UpFacts
<1>2. bus' = [bus EXCEPT ![h] = bus[h]]
  BY DEF PresenceInv, TypeOK
<1>3. \A y \in Hubs : y # h /\ Up(y) => Knows(y, bus[y], Local(sub, y), h, bus[h], hb)
  BY <1>1 DEF Knows
<1> QED
  BY <1>1, <1>2, <1>3, OwnStep

(* A step after which h announces whom it has.                             *)
LEMMA AnnouncingStep ==
    ASSUME PresenceInv, NEW h \in Hubs, Up(h), NEW hb \in HubType,
           Becomes(h, AnnounceOwn(h, hb, bus[h], sub')),
           role' \in [Users -> Roles], unsure' \subseteq Sockets,
           sub' \in [Sockets -> SubscriptionType \cup {None}],
           \A s \in Sockets : HubOf[s] # h => sub'[s] = sub[s],
           hb.mode = "up", hb.announced = hub[h].announced, hb.remote = hub[h].remote
    PROVE  PresenceInv'
<1>1. PICK sb : sb = sub'
  OBVIOUS
<1>2. PICK r : r = AnnounceOwn(h, hb, bus[h], sb)
  OBVIOUS
<1>3. hub' = [hub EXCEPT ![h] = r.hub] /\ bus' = [bus EXCEPT ![h] = r.bus]
  BY <1>1, <1>2 DEF Becomes
<1>4. /\ bus[h] \in GoodBus /\ OwnOnly(h, bus[h])
      /\ hub[h].announced = Local(sub, h) /\ Honest(h, bus[h], Local(sub, h))
      /\ \A y \in Hubs : y # h /\ Up(y) =>
            /\ Knows(h, bus[h], Local(sub, h), y, bus[y], hub[y])
            /\ Knows(y, bus[y], Local(sub, y), h, bus[h], hub[h])
  BY UpFacts
<1>5. PICK V \in SUBSET Users : V = Local(sb, h)
  BY LocalUsers
<1>6. /\ r.hub \in HubType /\ r.bus \in GoodBus
      /\ r.hub.announced = V /\ SameButAnnounced(r.hub, hb)
      /\ (r.bus = bus[h] /\ Local(sub, h) = V) \/ r.bus = Send(bus[h], List(h, V))
  <2>1. PICK b \in GoodBus : b = bus[h]
    BY <1>4
  <2>2. r = AnnounceOwn(h, hb, b, sb)
    BY <1>2, <2>1
  <2>3. /\ r.hub \in HubType /\ r.bus \in GoodBus
        /\ r.hub.announced = Local(sb, h) /\ SameButAnnounced(r.hub, hb)
        /\ \/ r.bus = b /\ hb.announced = Local(sb, h)
           \/ r.bus = Send(b, List(h, Local(sb, h)))
    BY <2>2, AnnounceOwnFacts
  <2> QED
    BY <1>4, <1>5, <2>1, <2>3
<1>7. /\ Honest(h, r.bus, V)
      /\ \A y, c, hc : Local(sub, h) # V \/ Knows(h, bus[h], Local(sub, h), y, c, hc) => Knows(h, r.bus, V, y, c, hc)
      /\ \A y, c, W, h1, hd : Knows(y, c, W, h, bus[h], h1) /\ hd.remote = h1.remote => Knows(y, c, W, h, r.bus, hd)
  <2>1. PICK b \in GoodBus : b = bus[h]
    BY <1>4
  <2>2. PICK U : U = Local(sub, h)
    OBVIOUS
  <2>3. PICK d : d = r.bus
    OBVIOUS
  <2>4. Honest(h, b, U) /\ ((d = b /\ U = V) \/ d = Send(b, List(h, V)))
    BY <1>4, <1>6, <2>1, <2>2, <2>3
  <2>5. /\ Honest(h, d, V)
        /\ \A y, c, hc : U # V \/ Knows(h, b, U, y, c, hc) => Knows(h, d, V, y, c, hc)
        /\ \A y, c, W, h1, hd : Knows(y, c, W, h, b, h1) /\ hd.remote = h1.remote => Knows(y, c, W, h, d, hd)
    BY <2>4, Announces
  <2> QED
    BY <2>1, <2>2, <2>3, <2>5
<1>8. \A y \in Hubs : y # h /\ Up(y) =>
        Knows(h, r.bus, V, y, bus[y], hub[y]) /\ Knows(y, bus[y], Local(sub, y), h, r.bus, r.hub)
  BY <1>4, <1>6, <1>7 DEF SameButAnnounced
<1>9. OwnOnly(h, r.bus) /\ r.hub.mode = "up"
  BY <1>6, <1>7 DEF Honest, SameButAnnounced
<1> QED
  BY <1>1, <1>3, <1>5, <1>6, <1>7, <1>8, <1>9, OwnStep

---------------------------------------------------------------------------
(* Subscriptions and re-checks *)

LEMMA SubscribeKnows ==
    ASSUME PresenceInv, NEW s \in Sockets, Subscribe(s)
    PROVE  PresenceInv'
<1>0. PICK h \in Hubs : h = HubOf[s]
  BY SocketAssumption
<1>1. /\ TypeOK /\ h \in Hubs /\ Up(h) /\ UserOf[s] \in Users /\ hub[h] \in HubType
  BY <1>0, SocketAssumption DEF Subscribe, PresenceInv, TypeOK
<1>2. /\ sub' = [sub EXCEPT ![s] = [state |-> "asking", role |-> role[UserOf[s]]]]
      /\ sub[s] = None /\ hub' = hub /\ bus' = bus /\ role' = role /\ unsure' = unsure
  BY DEF Subscribe
<1>3. [state |-> "asking", role |-> role[UserOf[s]]] \in SubscriptionType
  BY <1>1 DEF TypeOK, SubscriptionType
<1>4. /\ sub' \in [Sockets -> SubscriptionType \cup {None}]
      /\ \A t \in Sockets : t # s => sub'[t] = sub[t]
      /\ sub'[s] = [state |-> "asking", role |-> role[UserOf[s]]]
  BY <1>1, <1>2, <1>3 DEF TypeOK
<1>5. Local(sub', h) = Local(sub, h)
  BY <1>2, <1>4 DEF Local, Subscribed
<1>6. hub' = [hub EXCEPT ![h] = hub[h]]
  BY <1>1, <1>2 DEF TypeOK
<1>7. hub[h].mode = "up"
  BY <1>1 DEF Up
<1>8. role' \in [Users -> Roles] /\ unsure' \subseteq Sockets
  BY <1>1, <1>2 DEF TypeOK
<1>9. \A t \in Sockets : HubOf[t] # h => sub'[t] = sub[t]
  BY <1>0, <1>4
<1> QED
  BY <1>1, <1>2, <1>4, <1>5, <1>6, <1>7, <1>8, <1>9, QuietStep

LEMMA AdmitKnows ==
    ASSUME PresenceInv, NEW s \in Sockets, Admit(s)
    PROVE  PresenceInv'
<1> DEFINE h == HubOf[s]
<1>1. TypeOK /\ h \in Hubs /\ Up(h) /\ hub[h] \in HubType
  BY SocketAssumption DEF Admit, PresenceInv, TypeOK, SocketsUp
<1>2. /\ sub' = [sub EXCEPT ![s] = IF @.role = "none" THEN None ELSE [@ EXCEPT !.state = "in"]]
      /\ sub[s] # None /\ role' = role /\ unsure' \subseteq Sockets
      /\ Becomes(h, AnnounceOwn(h, hub[h], bus[h], sub'))
  BY <1>1 DEF Admit, TypeOK
<1>3. sub[s] \in SubscriptionType /\ [sub[s] EXCEPT !.state = "in"] \in SubscriptionType
  BY <1>1, <1>2 DEF TypeOK, SubscriptionType
<1>4. /\ sub' \in [Sockets -> SubscriptionType \cup {None}]
      /\ \A t \in Sockets : t # s => sub'[t] = sub[t]
  BY <1>1, <1>2, <1>3 DEF TypeOK
<1>5. role' \in [Users -> Roles] /\ hub[h].mode = "up"
  BY <1>1, <1>2 DEF TypeOK, Up
<1>6. \A t \in Sockets : HubOf[t] # h => sub'[t] = sub[t]
  BY <1>4
<1> HIDE DEF h
<1> QED
  BY <1>1, <1>2, <1>4, <1>5, <1>6, AnnouncingStep

LEMMA LeaveKnows ==
    ASSUME PresenceInv, NEW s \in Sockets, Leave(s)
    PROVE  PresenceInv'
<1> DEFINE h == HubOf[s]
<1>1. TypeOK /\ h \in Hubs /\ Up(h) /\ hub[h] \in HubType
  BY SocketAssumption DEF Leave, PresenceInv, TypeOK, SocketsUp
<1>2. /\ sub' = [sub EXCEPT ![s] = None]
      /\ role' = role /\ unsure' \subseteq Sockets
      /\ Becomes(h, AnnounceOwn(h, hub[h], bus[h], sub'))
  BY <1>1 DEF Leave, TypeOK
<1>3. /\ sub' \in [Sockets -> SubscriptionType \cup {None}]
      /\ \A t \in Sockets : t # s => sub'[t] = sub[t]
  BY <1>1, <1>2 DEF TypeOK
<1>4. role' \in [Users -> Roles] /\ hub[h].mode = "up"
  BY <1>1, <1>2 DEF TypeOK, Up
<1>5. \A t \in Sockets : HubOf[t] # h => sub'[t] = sub[t]
  BY <1>3
<1> HIDE DEF h
<1> QED
  BY <1>1, <1>2, <1>3, <1>4, <1>5, AnnouncingStep

(* What a re-check leaves of the subscriptions. *)
LEMMA AppliedFacts ==
    ASSUME TypeOK, NEW h \in Hubs, NEW run \in RunType
    PROVE  /\ Applied(h, run) \in [Sockets -> SubscriptionType \cup {None}]
           /\ \A s \in Sockets : HubOf[s] # h => Applied(h, run)[s] = sub[s]
           /\ \A s \in Touched(h, run) : SeenRole(run, UserOf[s]) \in Roles
<1>1. ASSUME NEW s \in Touched(h, run) PROVE SeenRole(run, UserOf[s]) \in Roles
  <2>1. \E a \in run.seen : a.user = UserOf[s]
    BY <1>1 DEF Touched
  <2>2. (CHOOSE a \in run.seen : a.user = UserOf[s]) \in run.seen
    BY <2>1
  <2>3. run.seen \subseteq [user : Users, role : Roles]
    BY DEF RunType
  <2> QED
    BY <2>2, <2>3 DEF SeenRole
<1>2. ASSUME NEW s \in Sockets
      PROVE  /\ Applied(h, run)[s] \in SubscriptionType \cup {None}
             /\ HubOf[s] # h => Applied(h, run)[s] = sub[s]
  <2>1. CASE s \in Touched(h, run)
    <3>1. sub[s] \in SubscriptionType /\ HubOf[s] = h
      BY <2>1 DEF Touched, Subscribed, TypeOK
    <3>2. [sub[s] EXCEPT !.role = SeenRole(run, UserOf[s])] \in SubscriptionType
      BY <1>1, <2>1, <3>1 DEF SubscriptionType
    <3> QED
      BY <2>1, <3>1, <3>2 DEF Applied
  <2>2. CASE s \notin Touched(h, run)
    BY <2>2 DEF Applied, TypeOK
  <2> QED
    BY <2>1, <2>2
<1> QED
  BY <1>1, <1>2 DEF Applied

LEMMA ApplyRolesKnows ==
    ASSUME PresenceInv, NEW h \in Hubs, ApplyRoles(h)
    PROVE  PresenceInv'
<1>1. TypeOK /\ Up(h) /\ hub[h] \in HubType
  BY DEF ApplyRoles, PresenceInv, TypeOK
<1>2. PICK run \in RunType : run = hub[h].run
  BY <1>1, HubUpdates DEF ApplyRoles
<1>3. PICK hb : hb = [hub[h] EXCEPT !.run = None]
  OBVIOUS
<1>4. /\ hb \in HubType /\ hb.mode = "up" /\ hb.announced = hub[h].announced /\ hb.remote = hub[h].remote
  BY <1>1, <1>3 DEF HubType, Up
<1>5. /\ sub' = Applied(h, run) /\ role' = role /\ unsure' \subseteq Sockets
      /\ Becomes(h, AnnounceOwn(h, hb, bus[h], sub'))
  BY <1>1, <1>2, <1>3 DEF ApplyRoles, TypeOK
<1>6. /\ sub' \in [Sockets -> SubscriptionType \cup {None}]
      /\ \A s \in Sockets : HubOf[s] # h => sub'[s] = sub[s]
  BY <1>1, <1>5, AppliedFacts
<1>7. role' \in [Users -> Roles]
  BY <1>1, <1>5 DEF TypeOK
<1> QED
  BY <1>1, <1>4, <1>5, <1>6, <1>7, AnnouncingStep

(* accessChanged only adds to the re-checks. *)
LEMMA AccessChangedFacts ==
    ASSUME NEW h, NEW hb \in HubType, NEW scope \in SUBSET Users, NEW hd, hd = AccessChanged(h, hb, scope)
    PROVE  /\ hd \in HubType /\ hd.mode = hb.mode /\ hd.announced = hb.announced /\ hd.remote = hb.remote
           /\ hd.run = hb.run /\ hd.resyncs = hb.resyncs
           /\ hd.rechecks = IF Subscribed(sub, h) = {} THEN hb.rechecks ELSE Append(hb.rechecks, scope)
<1>1. CASE Subscribed(sub, h) = {}
  BY <1>1 DEF AccessChanged
<1>2. CASE Subscribed(sub, h) # {}
  <2>1. PICK q \in Seq(SUBSET Users) : q = Append(hb.rechecks, scope)
    BY HubUpdates, AppendProperties
  <2>2. hd = [hb EXCEPT !.rechecks = q]
    BY <1>2, <2>1 DEF AccessChanged
  <2> QED
    BY <1>2, <2>1, <2>2 DEF HubType
<1> QED
  BY <1>1, <1>2

(* The other steps of a re-check, and of keepHolders. *)
LEMMA QuietHubKnows ==
    ASSUME PresenceInv, NEW h \in Hubs,
           \/ ResyncEnds(h) \/ RecheckBegins(h) \/ (\E u \in Users : RecheckAsks(h, u)) \/ RecheckFails(h)
           \/ KeepHolders(h)
    PROVE  PresenceInv'
<1>1. TypeOK /\ Up(h) /\ hub[h] \in HubType /\ hub[h].mode = "up"
  BY DEF PresenceInv, TypeOK, Up, ResyncEnds, RecheckBegins, RecheckAsks, RecheckFails, KeepHolders
<1>2. SUFFICES ASSUME NEW hb \in HubType, hub' = [hub EXCEPT ![h] = hb],
                      hb.mode = hub[h].mode, hb.announced = hub[h].announced,
                      \A y \in Hubs : Up(y) => hb.remote[y] = hub[h].remote[y]
               PROVE  PresenceInv'
  <2>1. CASE ResyncEnds(h)
    <3>1. PICK n \in Nat : n = hub[h].resyncs - 1
      BY <1>1, <2>1, HubUpdates DEF ResyncEnds
    <3>2. PICK h1 \in HubType : h1 = [hub[h] EXCEPT !.resyncs = n]
      BY <1>1, HubUpdates
    <3>3. h1.mode = hub[h].mode /\ h1.announced = hub[h].announced /\ h1.remote = hub[h].remote
      BY <1>1, <3>2 DEF HubType
    <3>4. PICK hb : hb = AccessChanged(h, h1, Users)
      OBVIOUS
    <3>5. hb \in HubType /\ hb.mode = h1.mode /\ hb.announced = h1.announced /\ hb.remote = h1.remote
      BY <3>4, AccessChangedFacts
    <3>6. hub' = [hub EXCEPT ![h] = hb]
      BY <1>1, <2>1, <3>1, <3>2, <3>4 DEF ResyncEnds, TypeOK
    <3> QED
      BY <1>2, <3>3, <3>5, <3>6
  <2>2. CASE RecheckBegins(h)
    <3>1. PICK q \in Seq(SUBSET Users) : q = Tail(hub[h].rechecks)
      BY <1>1, <2>2, HubUpdates, HeadTailProperties DEF RecheckBegins
    <3>2. PICK run \in RunType : run = [ask |-> Local(sub, h) \cap Head(hub[h].rechecks), seen |-> {}]
      BY LocalUsers DEF RunType
    <3>3. PICK hb : hb = [hub[h] EXCEPT !.rechecks = q, !.run = run]
      OBVIOUS
    <3>4. hb \in HubType /\ hb.mode = hub[h].mode /\ hb.announced = hub[h].announced /\ hb.remote = hub[h].remote
      BY <1>1, <3>3 DEF HubType
    <3>5. hub' = [hub EXCEPT ![h] = hb]
      BY <1>1, <2>2, <3>1, <3>2, <3>3 DEF RecheckBegins, TypeOK
    <3> QED
      BY <1>2, <3>4, <3>5
  <2>3. CASE \E u \in Users : RecheckAsks(h, u)
    <3>1. PICK u \in Users : RecheckAsks(h, u)
      BY <2>3
    <3>2. hub[h].run \in RunType /\ role[u] \in Roles
      BY <1>1, <3>1, HubUpdates DEF RecheckAsks, TypeOK
    <3>3. PICK run \in RunType : run = [ask |-> hub[h].run.ask \ {u},
                                       seen |-> hub[h].run.seen \cup {[user |-> u, role |-> role[u]]}]
      <4>1. PICK seen : seen = hub[h].run.seen \cup {[user |-> u, role |-> role[u]]}
        OBVIOUS
      <4>2. PICK ask : ask = hub[h].run.ask \ {u}
        OBVIOUS
      <4>3. [user |-> u, role |-> role[u]] \in [user : Users, role : Roles]
        BY <3>2
      <4>4. hub[h].run.ask \in SUBSET Users /\ hub[h].run.seen \in SUBSET [user : Users, role : Roles]
        BY <3>2 DEF RunType
      <4>5. ask \in SUBSET Users /\ seen \in SUBSET [user : Users, role : Roles]
        BY <4>1, <4>2, <4>3, <4>4
      <4> QED
        BY <4>1, <4>2, <4>5 DEF RunType
    <3>4. PICK hb : hb = [hub[h] EXCEPT !.run = run]
      OBVIOUS
    <3>5. hb \in HubType /\ hb.mode = hub[h].mode /\ hb.announced = hub[h].announced /\ hb.remote = hub[h].remote
      BY <1>1, <3>4 DEF HubType
    <3>6. hub' = [hub EXCEPT ![h] = hb]
      BY <1>1, <3>1, <3>3, <3>4 DEF RecheckAsks, TypeOK
    <3> QED
      BY <1>2, <3>5, <3>6
  <2>4. CASE RecheckFails(h)
    <3>1. PICK hb : hb = [hub[h] EXCEPT !.run = None]
      OBVIOUS
    <3>2. hb \in HubType /\ hb.mode = hub[h].mode /\ hb.announced = hub[h].announced /\ hb.remote = hub[h].remote
      BY <1>1, <3>1 DEF HubType
    <3>3. hub' = [hub EXCEPT ![h] = hb]
      BY <1>1, <2>4, <3>1 DEF RecheckFails, TypeOK
    <3> QED
      BY <1>2, <3>2, <3>3
  <2>5. CASE KeepHolders(h)
    <3>1. PICK r : r = [g \in Hubs |-> IF hub[g].mode = "gone" THEN {} ELSE hub[h].remote[g]]
      OBVIOUS
    <3>2. r \in [Hubs -> SUBSET Users]
      <4>1. hub[h].remote \in [Hubs -> SUBSET Users]
        BY <1>1, HubUpdates
      <4> QED
        BY <3>1, <4>1
    <3>3. PICK hb : hb = [hub[h] EXCEPT !.remote = r]
      OBVIOUS
    <3>4. hb \in HubType /\ hb.mode = hub[h].mode /\ hb.announced = hub[h].announced /\ hb.remote = r
      BY <1>1, <3>2, <3>3 DEF HubType
    <3>5. hub' = [hub EXCEPT ![h] = hb]
      BY <1>1, <2>5, <3>1, <3>3 DEF KeepHolders, TypeOK
    <3>6. \A y \in Hubs : Up(y) => r[y] = hub[h].remote[y]
      BY <3>1 DEF Up
    <3> QED
      BY <1>2, <3>4, <3>5, <3>6
  <2> QED
    BY <2>1, <2>2, <2>3, <2>4, <2>5
<1>3. sub' = sub /\ bus' = bus /\ role' = role
  BY DEF ResyncEnds, RecheckBegins, RecheckAsks, RecheckFails, KeepHolders
<1>4. unsure' = unsure \/ unsure' = unsure \cup Subscribed(sub, h)
  BY DEF ResyncEnds, RecheckBegins, RecheckAsks, RecheckFails, KeepHolders
<1>5. /\ role' \in [Users -> Roles] /\ unsure' \subseteq Sockets
      /\ sub' \in [Sockets -> SubscriptionType \cup {None}]
  BY <1>1, <1>3, <1>4 DEF TypeOK, Subscribed
<1> QED
  BY <1>1, <1>2, <1>3, <1>5, QuietStep, ZenonT(40)

---------------------------------------------------------------------------
(* The bus of one process *)

(* A step of h's bus alone. *)
LEMMA BusAlone ==
    ASSUME PresenceInv, NEW h \in Hubs, hub[h].mode # "new", NEW b \in GoodBus,
           hub' = hub, sub' = sub, role' = role, unsure' \subseteq Sockets,
           bus' = [bus EXCEPT ![h] = b], OwnOnly(h, b),
           Up(h) => /\ OutTells(b, h, Local(sub, h))
                    /\ \A y \in Hubs : y # h /\ Up(y) =>
                          /\ Knows(h, b, Local(sub, h), y, bus[y], hub[y])
                          /\ Knows(y, bus[y], Local(sub, y), h, b, hub[h])
    PROVE  PresenceInv'
<1>1. TypeOK /\ hub[h] \in HubType /\ SocketsUp /\ HubsHonest
  BY DEF PresenceInv, TypeOK
<1>2. hub' = [hub EXCEPT ![h] = hub[h]]
  BY <1>1 DEF TypeOK
<1>3. /\ role' \in [Users -> Roles] /\ sub' \in [Sockets -> SubscriptionType \cup {None}]
      /\ \A s \in Sockets : HubOf[s] # h => sub'[s] = sub[s]
  BY <1>1 DEF TypeOK
<1>4. hub[h].mode = "up" \/ \A s \in Sockets : HubOf[s] = h => sub'[s] = None
  BY <1>1 DEF SocketsUp, Up
<1>5. Up(h) => hub[h].announced = Local(sub, h)
  BY <1>1 DEF HubsHonest
<1> QED
  BY <1>1, <1>2, <1>3, <1>4, <1>5, OwnStep DEF Up, Honest

LEMMA MarkerSentKnows ==
    ASSUME PresenceInv, NEW h \in Hubs, MarkerSent(h)
    PROVE  PresenceInv'
<1>1. PICK c \in GoodBus : c = bus[h]
  BY BusesGood DEF PresenceInv
<1>2. PICK b : b = [c EXCEPT !.marking = FALSE, !.missed = FALSE]
  OBVIOUS
<1>3. c \in BusType /\ c.marking
  BY <1>1 DEF GoodBus, MarkerSent
<1>4. /\ b \in BusType /\ b.out = c.out /\ b.inbox = c.inbox /\ b.raced = c.raced /\ b.lost = c.lost
      /\ b.connected = c.connected /\ ~b.marking
  BY <1>2, <1>3 DEF BusType
<1>5. b \in GoodBus
  BY <1>1, <1>4 DEF GoodBus
<1>6. (Owes(c) => Owes(b)) /\ (Deaf(c) => Deaf(b)) /\ (c.raced => b.raced)
  BY <1>3, <1>4 DEF Owes, Deaf
<1>7. hub[h].mode # "new"
  BY <1>1, <1>3 DEF PresenceInv, NewIsNew, NewBus
<1>8. bus' = [bus EXCEPT ![h] = b] /\ hub' = hub /\ sub' = sub /\ role' = role /\ unsure' = unsure
  BY <1>1, <1>2 DEF MarkerSent, PresenceInv, TypeOK
<1>9. OwnOnly(h, b)
  BY <1>1, <1>4 DEF PresenceInv, OwnMessages, OwnOnly
<1>10. Up(h) => /\ OutTells(b, h, Local(sub, h))
                /\ \A y \in Hubs : y # h /\ Up(y) =>
                      /\ Knows(h, b, Local(sub, h), y, bus[y], hub[y])
                      /\ Knows(y, bus[y], Local(sub, y), h, b, hub[h])
  BY <1>1, <1>4, <1>6, UpFacts, NothingSettled DEF Knows, Honest, OutTells
<1>11. unsure' \subseteq Sockets
  BY <1>8 DEF PresenceInv, TypeOK
<1> QED
  BY <1>5, <1>7, <1>8, <1>9, <1>10, <1>11, BusAlone

(* h gives a payload up: it owes the marker. *)
LEMMA GiveUpKnows ==
    ASSUME PresenceInv, NEW h \in Hubs, GiveUp(h)
    PROVE  PresenceInv'
<1>1. PICK c \in GoodBus : c = bus[h]
  BY BusesGood DEF PresenceInv
<1>2. PICK a : a = [c EXCEPT !.out = Tail(c.out)]
  OBVIOUS
<1>3. PICK b : b = [c EXCEPT !.out = Tail(c.out), !.missed = TRUE]
  OBVIOUS
<1>4. c.out # <<>> /\ ~c.marking /\ hub[h].mode # "new"
  BY <1>1 DEF GiveUp, Sends
<1>5. PICK q \in Seq(MessageType) : q = c.out
  BY BusFields
<1>6. PICK t : t = Tail(q)
  OBVIOUS
<1>7. /\ Len(t) <= QueueLimit /\ t \in Seq(MessageType)
  <2>1. t \in Seq(MessageType) /\ Len(t) = Len(q) - 1 /\ Len(q) \in Nat
    BY <1>4, <1>5, <1>6, TailFacts
  <2>2. Len(q) <= QueueLimit /\ QueueLimit \in Nat
    BY <1>5, BusFields, LimitAssumption
  <2> QED
    BY <2>1, <2>2
<1>8. /\ b.out = t /\ b.inbox = c.inbox /\ b.raced = c.raced /\ b.lost = c.lost
      /\ b.connected = c.connected /\ b.marking = c.marking /\ b.missed
      /\ b \in BusType
  <2>1. b = [c EXCEPT !.out = t, !.missed = TRUE] /\ c \in BusType
    BY <1>3, <1>5, <1>6 DEF GoodBus
  <2> QED
    BY <1>7, <2>1 DEF BusType
<1>9. b \in GoodBus
  BY <1>1, <1>7, <1>8 DEF GoodBus
<1>10. Owes(b) /\ (Deaf(c) => Deaf(b))
  BY <1>4, <1>8 DEF Owes, Deaf
<1>11. bus' = [bus EXCEPT ![h] = b] /\ hub' = hub /\ sub' = sub /\ role' = role /\ unsure' = unsure
  BY <1>1, <1>3 DEF GiveUp, PresenceInv, TypeOK
<1>8a. q # <<>> /\ c.out = q /\ b.out = Tail(q)
  BY <1>4, <1>5, <1>6, <1>8
<1>12. \A m : Contains(b.out, m) => Contains(c.out, m)
  <2>1. ASSUME NEW x, NEW U PROVE \A m : Contains(q, m) <=> Contains(Tail(q), m) \/ m = Head(q)
    BY <1>8a, TailTells
  <2> QED
    BY <1>8a, <2>1
<1>13. OwnOnly(h, b)
  BY <1>1, <1>12 DEF PresenceInv, OwnMessages, OwnOnly
<1>14. ASSUME Up(h), NEW U, OutTells(c, h, U) PROVE OutTells(b, h, U)
  BY <1>4, <1>5, <1>6, <1>8, <1>14, TailTells DEF OutTells
<1>15. ASSUME NEW y, NEW d, NEW U, NEW hd, NEW W, NEW hb
       PROVE  /\ Knows(h, b, U, y, d, hd)
              /\ Knows(y, d, W, h, c, hb) => Knows(y, d, W, h, b, hb)
  BY <1>8, <1>10 DEF Knows, Current, Agrees, Troubled
<1>16. Up(h) => /\ OutTells(b, h, Local(sub, h))
                /\ \A y \in Hubs : y # h /\ Up(y) =>
                      /\ Knows(h, b, Local(sub, h), y, bus[y], hub[y])
                      /\ Knows(y, bus[y], Local(sub, y), h, b, hub[h])
  BY <1>1, <1>14, <1>15, UpFacts DEF Honest
<1>17. unsure' \subseteq Sockets
  BY <1>11 DEF PresenceInv, TypeOK
<1> QED
  BY <1>4, <1>9, <1>11, <1>13, <1>16, <1>17, BusAlone

LEMMA LoseConnectionKnows ==
    ASSUME PresenceInv, NEW h \in Hubs, LoseConnection(h)
    PROVE  PresenceInv'
<1>1. PICK c \in GoodBus : c = bus[h]
  BY BusesGood DEF PresenceInv
<1>2. PICK b : b = [c EXCEPT !.connected = FALSE]
  OBVIOUS
<1>3. /\ b.out = c.out /\ b.inbox = c.inbox /\ b.raced = c.raced /\ b.lost = c.lost
      /\ b.missed = c.missed /\ b.marking = c.marking /\ ~b.connected
      /\ b \in BusType
  BY <1>2 DEF GoodBus, BusType
<1>4. b \in GoodBus
  BY <1>1, <1>3 DEF GoodBus
<1>5. (Owes(c) => Owes(b)) /\ (Deaf(c) => Deaf(b)) /\ (c.raced => b.raced)
  BY <1>3 DEF Owes, Deaf
<1>6. hub[h].mode # "new" /\ Up(h)
  BY DEF LoseConnection, Up
<1>7. bus' = [bus EXCEPT ![h] = b] /\ hub' = hub /\ sub' = sub /\ role' = role /\ unsure' = unsure
  BY <1>1, <1>2 DEF LoseConnection, PresenceInv, TypeOK
<1>8. OwnOnly(h, b)
  BY <1>1, <1>3 DEF PresenceInv, OwnMessages, OwnOnly
<1>9. Up(h) => /\ OutTells(b, h, Local(sub, h))
               /\ \A y \in Hubs : y # h /\ Up(y) =>
                     /\ Knows(h, b, Local(sub, h), y, bus[y], hub[y])
                     /\ Knows(y, bus[y], Local(sub, y), h, b, hub[h])
  BY <1>1, <1>3, <1>5, UpFacts, NothingSettled DEF Knows, Honest, OutTells
<1>10. unsure' \subseteq Sockets
  BY <1>7 DEF PresenceInv, TypeOK
<1> QED
  BY <1>4, <1>6, <1>7, <1>8, <1>9, <1>10, BusAlone

(* A role changes at h: the others are told. *)
LEMMA ChangeRoleKnows ==
    ASSUME PresenceInv, NEW h \in Hubs, NEW u \in Users, NEW r \in Roles, ChangeRole(h, u, r)
    PROVE  PresenceInv'
<1>1. TypeOK /\ Up(h) /\ hub[h] \in HubType /\ hub[h].mode = "up"
  BY DEF PresenceInv, TypeOK, Up, ChangeRole
<1>2. PICK c \in GoodBus : c = bus[h]
  BY BusesGood DEF PresenceInv
<1>3. PICK m \in MessageType : m = Access(u) /\ \A y : ~About(m, y)
  BY MessageFacts
<1>4. PICK b : b = Send(c, m)
  OBVIOUS
<1>5. PICK hb : hb = AccessChanged(h, hub[h], {u})
  OBVIOUS
<1>6. /\ hub' = [hub EXCEPT ![h] = hb] /\ bus' = [bus EXCEPT ![h] = b]
      /\ sub' = sub /\ unsure' = unsure /\ role' = [role EXCEPT ![u] = r]
  BY <1>1, <1>2, <1>3, <1>4, <1>5 DEF ChangeRole, TypeOK
<1>7. hb \in HubType /\ hb.mode = "up" /\ hb.announced = hub[h].announced /\ hb.remote = hub[h].remote
  <2>1. {u} \in SUBSET Users
    OBVIOUS
  <2> QED
    BY <1>1, <1>5, <2>1, AccessChangedFacts
<1>8. b \in GoodBus /\ \A n : Contains(b.out, n) => Contains(c.out, n) \/ n = m
  BY <1>4, SendFacts
<1>9. /\ OwnOnly(h, c) /\ hub[h].announced = Local(sub, h) /\ Honest(h, c, Local(sub, h))
      /\ \A y \in Hubs : y # h /\ Up(y) =>
            /\ Knows(h, c, Local(sub, h), y, bus[y], hub[y])
            /\ Knows(y, bus[y], Local(sub, y), h, c, hub[h])
  BY <1>1, <1>2, UpFacts
<1>10. OwnOnly(h, b)
  BY <1>3, <1>8, <1>9 DEF OwnOnly
<1>11. Honest(h, b, Local(sub, h))
  <2>1. \A x, U : ~About(m, x) /\ OutTells(c, x, U) => OutTells(b, x, U)
    BY <1>4, SendFacts
  <2> QED
    BY <1>3, <1>9, <1>10, <2>1 DEF Honest
<1>12. ASSUME NEW y, NEW d, NEW U, NEW hd, NEW W
       PROVE  /\ Knows(h, c, U, y, d, hd) => Knows(h, b, U, y, d, hd)
              /\ Knows(y, d, W, h, c, hub[h]) => Knows(y, d, W, h, b, hb)
  BY <1>3, <1>4, <1>7, SaysOther, SendsBack DEF Knows
<1>13. /\ role' \in [Users -> Roles] /\ unsure' \subseteq Sockets
       /\ sub' \in [Sockets -> SubscriptionType \cup {None}]
       /\ \A s \in Sockets : HubOf[s] # h => sub'[s] = sub[s]
  BY <1>1, <1>6 DEF TypeOK
<1>14. \A y \in Hubs : y # h /\ Up(y) =>
         /\ Knows(h, b, Local(sub, h), y, bus[y], hub[y])
         /\ Knows(y, bus[y], Local(sub, y), h, b, hb)
  BY <1>9, <1>12
<1> QED
  BY <1>6, <1>7, <1>8, <1>9, <1>10, <1>11, <1>13, <1>14, OwnStep

---------------------------------------------------------------------------
(* What a process hears *)

LEMMA KindFacts ==
    ASSUME NEW m \in MessageType
    PROVE  /\ m.kind = "list" =>
                 m.holder \in Hubs /\ m.users \in SUBSET Users /\ Says(m) = m.users /\ \A y : About(m, y) <=> y = m.holder
           /\ m.kind = "reset" =>
                 m.holder \in Hubs /\ m = Reset(m.holder) /\ Says(m) = {} /\ \A y : About(m, y) <=> y = m.holder
           /\ m.kind = "access" => m.user \in Users /\ m = Access(m.user) /\ \A y : ~About(m, y)
           /\ m.kind = "marker" <=> m = Marker
  BY DEF MessageType, Says, About, Reset, Access, Marker

(* h has handled a message that is no marker. *)
LEMMA HandledFacts ==
    ASSUME PresenceInv, NEW h \in Hubs, Up(h), bus[h].inbox # <<>>,
           NEW m, m = NextHeard(h), m # Marker, NEW d, d = Drained(h)
    PROVE  /\ d \in GoodBus /\ OwnOnly(h, d) /\ Honest(h, d, Local(sub, h))
           /\ \A y \in Hubs : y # h /\ Up(y) =>
                 /\ \A hb : hb.remote[y] = (IF About(m, y) THEN Says(m) ELSE hub[h].remote[y]) =>
                       Knows(y, bus[y], Local(sub, y), h, d, hb)
                 /\ \/ Knows(h, d, Local(sub, h), y, bus[y], hub[y])
                    \/ /\ m = Reset(y)
                       /\ Current(h, d, Local(sub, h), bus[y])
                       /\ Believes(hub[y].remote[h], bus[y].inbox, d.out, h, {})
<1>1. PICK c \in GoodBus : c = bus[h]
  BY BusesGood DEF PresenceInv
<1>2. c.inbox # <<>> /\ m = Head(c.inbox) /\ d = [c EXCEPT !.inbox = Tail(c.inbox)]
  BY <1>1 DEF NextHeard, Drained
<1>3. Head(c.inbox) # Marker
  BY <1>2
<1>4. /\ OwnOnly(h, c) /\ Honest(h, c, Local(sub, h))
      /\ \A y \in Hubs : y # h /\ Up(y) =>
            /\ Knows(h, c, Local(sub, h), y, bus[y], hub[y])
            /\ Knows(y, bus[y], Local(sub, y), h, c, hub[h])
  BY <1>1, UpFacts
<1>5. d.out = c.out
  BY <1>2 DEF GoodBus, BusType
<1>6. OwnOnly(h, d) /\ Honest(h, d, Local(sub, h))
  BY <1>4, <1>5 DEF Honest, OutTells, OwnOnly
<1>7. d \in GoodBus
  <2>1. PICK known, learnt : learnt = IF About(Head(c.inbox), h) THEN Says(Head(c.inbox)) ELSE known
    OBVIOUS
  <2> QED
    BY <1>2, <1>3, <2>1, Handles
<1>8. ASSUME NEW y, NEW b, NEW U, NEW hb, Knows(y, b, U, h, c, hub[h]),
             hb.remote[y] = (IF About(m, y) THEN Says(m) ELSE hub[h].remote[y])
      PROVE  Knows(y, b, U, h, d, hb)
  <2>1. PICK known, learnt : known = hub[h].remote[y] /\ learnt = IF About(Head(c.inbox), y) THEN Says(Head(c.inbox)) ELSE known
    OBVIOUS
  <2>2. Current(y, b, U, c) /\ Agrees(y, b, U, h, c, known)
    BY <1>8, <2>1 DEF Knows
  <2>3. Current(y, b, U, d) /\ Agrees(y, b, U, h, d, learnt)
    BY <1>2, <1>3, <2>1, <2>2, Handles
  <2> QED
    BY <1>2, <1>8, <2>1, <2>3 DEF Knows
<1>9. ASSUME NEW y, NEW b, NEW U, NEW hc, Knows(h, c, U, y, b, hc)
      PROVE  \/ Knows(h, d, U, y, b, hc)
             \/ m = Reset(y) /\ Current(h, d, U, b) /\ Believes(hc.remote[h], b.inbox, d.out, h, {})
  <2>1. PICK known : known = hc.remote[h]
    OBVIOUS
  <2>2. Current(h, c, U, b) /\ Agrees(h, c, U, y, b, known)
    BY <1>9, <2>1 DEF Knows
  <2>3. /\ Current(h, d, U, b)
        /\ \/ Agrees(h, d, U, y, b, known)
           \/ Head(c.inbox) = Reset(y) /\ Believes(known, b.inbox, d.out, h, {})
    BY <1>2, <1>3, <2>2, HandlesBack
  <2> QED
    BY <1>2, <2>1, <2>3 DEF Knows
<1>10. ASSUME NEW y \in Hubs, y # h, Up(y), NEW hb,
              hb.remote[y] = (IF About(m, y) THEN Says(m) ELSE hub[h].remote[y])
       PROVE  Knows(y, bus[y], Local(sub, y), h, d, hb)
  BY <1>4, <1>8, <1>10
<1> QED
  BY <1>4, <1>6, <1>7, <1>9, <1>10

LEMMA HearFailsKnows ==
    ASSUME PresenceInv, NEW h \in Hubs, HearFails(h)
    PROVE  PresenceInv'
<1>1. PICK m : m = NextHeard(h)
  OBVIOUS
<1>2. PICK d : d = Drained(h)
  OBVIOUS
<1>3. /\ Up(h) /\ bus[h].inbox # <<>> /\ m.kind = "access"
      /\ bus' = [bus EXCEPT ![h] = d] /\ hub' = hub /\ sub' = sub /\ role' = role
      /\ unsure' = unsure \cup Subscribed(sub, h)
  BY <1>1, <1>2 DEF HearFails
<1>4. m # Marker /\ \A y : ~About(m, y)
  BY <1>3 DEF Marker, About
<1>5. /\ d \in GoodBus /\ OwnOnly(h, d) /\ Honest(h, d, Local(sub, h))
      /\ \A y \in Hubs : y # h /\ Up(y) =>
            /\ \A hb : hb.remote[y] = (IF About(m, y) THEN Says(m) ELSE hub[h].remote[y]) =>
                  Knows(y, bus[y], Local(sub, y), h, d, hb)
            /\ \/ Knows(h, d, Local(sub, h), y, bus[y], hub[y])
               \/ /\ m = Reset(y)
                  /\ Current(h, d, Local(sub, h), bus[y])
                  /\ Believes(hub[y].remote[h], bus[y].inbox, d.out, h, {})
  BY <1>1, <1>2, <1>3, <1>4, HandledFacts
<1>6. \A y : m # Reset(y)
  BY <1>3 DEF Reset
<1>7. unsure' \subseteq Sockets
  BY <1>3 DEF PresenceInv, TypeOK, Subscribed
<1>8. hub[h].mode # "new"
  BY <1>3 DEF Up
<1> QED
  BY <1>3, <1>4, <1>5, <1>6, <1>7, <1>8, BusAlone DEF Honest

LEMMA HearKnows ==
    ASSUME PresenceInv, NEW h \in Hubs, Hear(h)
    PROVE  PresenceInv'
<1>1. PICK m : m = NextHeard(h)
  OBVIOUS
<1>2. PICK d : d = Drained(h)
  OBVIOUS
<1>3. /\ TypeOK /\ Up(h) /\ bus[h].inbox # <<>> /\ hub[h] \in HubType /\ hub[h].mode = "up"
      /\ sub' = sub /\ role' = role /\ unsure' = unsure
      /\ hub[h].announced = Local(sub, h)
  BY DEF Hear, PresenceInv, TypeOK, Up, HubsHonest
<1>4. \/ m.kind = "list" /\ Becomes(h, [hub |-> [hub[h] EXCEPT !.remote[m.holder] = m.users], bus |-> d])
      \/ m.kind = "reset" /\ Becomes(h, PresenceReset(h, m.holder, d))
      \/ m.kind = "access" /\ Becomes(h, [hub |-> AccessChanged(h, hub[h], {m.user}), bus |-> d])
  BY <1>1, <1>2 DEF Hear
<1>5. m \in MessageType
  <2>1. PICK q \in Seq(MessageType) : q = bus[h].inbox /\ q # <<>>
    BY <1>3 DEF TypeOK, BusType
  <2> QED
    BY <1>1, <2>1, TailFacts DEF NextHeard
<1>6. m # Marker
  BY <1>4 DEF Marker
<1>7. /\ d \in GoodBus /\ OwnOnly(h, d) /\ Honest(h, d, Local(sub, h))
      /\ \A y \in Hubs : y # h /\ Up(y) =>
            /\ \A hb : hb.remote[y] = (IF About(m, y) THEN Says(m) ELSE hub[h].remote[y]) =>
                  Knows(y, bus[y], Local(sub, y), h, d, hb)
            /\ \/ Knows(h, d, Local(sub, h), y, bus[y], hub[y])
               \/ /\ m = Reset(y)
                  /\ Current(h, d, Local(sub, h), bus[y])
                  /\ Believes(hub[y].remote[h], bus[y].inbox, d.out, h, {})
  BY <1>1, <1>2, <1>3, <1>6, HandledFacts
<1>8. /\ role' \in [Users -> Roles] /\ unsure' \subseteq Sockets
      /\ sub' \in [Sockets -> SubscriptionType \cup {None}]
      /\ \A s \in Sockets : HubOf[s] # h => sub'[s] = sub[s]
  BY <1>3 DEF TypeOK
<1>9. hub[h].remote \in [Hubs -> SUBSET Users]
  BY <1>3, HubUpdates
<1>10. CASE m.kind = "list" /\ Becomes(h, [hub |-> [hub[h] EXCEPT !.remote[m.holder] = m.users], bus |-> d])
  <2>1. m.holder \in Hubs /\ m.users \in SUBSET Users /\ Says(m) = m.users /\ \A y : About(m, y) <=> y = m.holder
    BY <1>5, <1>10, KindFacts
  <2>2. PICK r : r = [hub[h].remote EXCEPT ![m.holder] = m.users]
    OBVIOUS
  <2>3. r \in [Hubs -> SUBSET Users] /\ \A y \in Hubs : r[y] = IF y = m.holder THEN m.users ELSE hub[h].remote[y]
    BY <1>9, <2>1, <2>2
  <2>4. PICK hb : hb = [hub[h] EXCEPT !.remote = r]
    OBVIOUS
  <2>5. hb \in HubType /\ hb.mode = "up" /\ hb.announced = hub[h].announced /\ hb.remote = r
    BY <1>3, <2>3, <2>4 DEF HubType
  <2>6. hub' = [hub EXCEPT ![h] = hb] /\ bus' = [bus EXCEPT ![h] = d]
    BY <1>3, <1>10, <2>2, <2>4 DEF Becomes, HubType
  <2>7. \A y : m # Reset(y)
    BY <1>10 DEF Reset
  <2>8. \A y \in Hubs : y # h /\ Up(y) =>
          Knows(h, d, Local(sub, h), y, bus[y], hub[y]) /\ Knows(y, bus[y], Local(sub, y), h, d, hb)
    BY <1>7, <2>1, <2>3, <2>5, <2>7
  <2> QED
    BY <1>3, <1>7, <1>8, <2>5, <2>6, <2>8, OwnStep
<1>11. CASE m.kind = "access" /\ Becomes(h, [hub |-> AccessChanged(h, hub[h], {m.user}), bus |-> d])
  <2>1. m.user \in Users /\ \A y : ~About(m, y) /\ m # Reset(y)
    BY <1>5, <1>11, KindFacts DEF Reset
  <2>2. PICK hb : hb = AccessChanged(h, hub[h], {m.user})
    OBVIOUS
  <2>3. {m.user} \in SUBSET Users
    BY <2>1
  <2>4. hb \in HubType /\ hb.mode = "up" /\ hb.announced = hub[h].announced /\ hb.remote = hub[h].remote
    BY <1>3, <2>2, <2>3, AccessChangedFacts
  <2>5. hub' = [hub EXCEPT ![h] = hb] /\ bus' = [bus EXCEPT ![h] = d]
    BY <1>11, <2>2 DEF Becomes
  <2>6. \A y \in Hubs : y # h /\ Up(y) =>
          Knows(h, d, Local(sub, h), y, bus[y], hub[y]) /\ Knows(y, bus[y], Local(sub, y), h, d, hb)
    BY <1>7, <2>1, <2>4
  <2> QED
    BY <1>3, <1>7, <1>8, <2>4, <2>5, <2>6, OwnStep
<1>12. CASE m.kind = "reset" /\ Becomes(h, PresenceReset(h, m.holder, d))
  <2>1. m.holder \in Hubs /\ Says(m) = {} /\ \A y : About(m, y) <=> y = m.holder
    BY <1>5, <1>12, KindFacts
  <2>2. PICK g \in Hubs : g = m.holder
    BY <2>1
  <2>3. PICK mm : mm = [hub[h].remote EXCEPT ![g] = {}]
    OBVIOUS
  <2>4. mm \in [Hubs -> SUBSET Users] /\ \A y \in Hubs : mm[y] = IF y = g THEN {} ELSE hub[h].remote[y]
    BY <1>9, <2>3
  <2>5. PICK hb : hb = [hub[h] EXCEPT !.remote = mm]
    OBVIOUS
  <2>6. hb \in HubType /\ hb.mode = "up" /\ hb.announced = hub[h].announced /\ hb.remote = mm
    BY <1>3, <2>4, <2>5 DEF HubType
  <2>7. PICK r : r = AnnounceAgain(h, hb, d)
    OBVIOUS
  <2>8. hub' = [hub EXCEPT ![h] = r.hub] /\ bus' = [bus EXCEPT ![h] = r.bus]
    BY <1>3, <1>12, <2>2, <2>3, <2>5, <2>7 DEF Becomes, PresenceReset, HubType
  <2>9. /\ r.hub \in HubType /\ r.bus \in GoodBus /\ SameButAnnounced(r.hub, hb)
        /\ Local(sub, h) = {} => r.hub = hb /\ r.bus = d
        /\ Local(sub, h) # {} =>
              r.hub.announced = Local(sub, h) /\ r.bus = Send(d, List(h, Local(sub, h)))
    BY <1>7, <2>6, <2>7, AnnounceAgainFacts
  <2>10. r.hub.mode = "up" /\ r.hub.remote = mm /\ r.hub.announced = Local(sub, h)
    BY <1>3, <2>6, <2>9 DEF SameButAnnounced
  <2>11. \A y \in Hubs : y # h /\ Up(y) => Knows(y, bus[y], Local(sub, y), h, d, hb)
    BY <1>7, <2>1, <2>2, <2>4, <2>6
  <2>12. CASE Local(sub, h) = {}
    <3>1. r.hub = hb /\ r.bus = d
      BY <2>9, <2>12
    <3>2. ASSUME NEW y \in Hubs, y # h, Up(y) PROVE Knows(h, d, Local(sub, h), y, bus[y], hub[y])
      BY <1>7, <2>12, <3>2 DEF Knows, Agrees
    <3> QED
      BY <1>3, <1>7, <1>8, <2>6, <2>8, <2>10, <2>11, <3>1, <3>2, OwnStep
  <2>13. CASE Local(sub, h) # {}
    <3>1. PICK V \in SUBSET Users : V = Local(sub, h)
      BY LocalUsers
    <3>2. r.bus = Send(d, List(h, V))
      BY <2>9, <2>13, <3>1
    <3>3. /\ Honest(h, r.bus, V)
          /\ \A y, c, hc : Knows(h, r.bus, V, y, c, hc)
          /\ \A y, c, W, h1, hd : Knows(y, c, W, h, d, h1) /\ hd.remote = h1.remote => Knows(y, c, W, h, r.bus, hd)
      BY <1>7, <3>1, <3>2, Announces, AnnouncesTo
    <3>4. \A y \in Hubs : y # h /\ Up(y) => Knows(y, bus[y], Local(sub, y), h, r.bus, r.hub)
      BY <2>6, <2>10, <2>11, <3>3
    <3>5. OwnOnly(h, r.bus)
      BY <3>3 DEF Honest
    <3> QED
      BY <1>3, <1>8, <2>8, <2>9, <2>10, <3>1, <3>3, <3>4, <3>5, OwnStep
  <2> QED
    BY <2>12, <2>13
<1> QED
  BY <1>4, <1>10, <1>11, <1>12

---------------------------------------------------------------------------
(* The listening connection, and resyncs *)

(* h says reset and its users; of what it has not handled yet, the last    *)
(* that is said of anyone is what they say now.                            *)
LEMMA ListeningStep ==
    ASSUME PresenceInv, NEW h \in Hubs, NEW b \in GoodBus, NEW reconnected \in BOOLEAN,
           Becomes(h, Listened(h, b, reconnected)),
           role' = role, sub' = sub, unsure' = unsure, OwnOnly(h, b),
           hub[h].announced = Local(sub, h),
           reconnected \/ \A g \in Hubs : hub[h].remote[g] = {},
           \A y \in Hubs : y # h /\ Up(y) => Current(y, bus[y], Local(sub, y), b)
    PROVE  PresenceInv'
<1>1. TypeOK /\ hub[h] \in HubType /\ HubsHonest
  BY DEF PresenceInv, TypeOK
<1>2. PICK r : r = Listened(h, b, reconnected)
  OBVIOUS
<1>3. PICK a : a = Send(b, Reset(h))
  OBVIOUS
<1>4. hub' = [hub EXCEPT ![h] = r.hub] /\ bus' = [bus EXCEPT ![h] = r.bus]
  BY <1>2 DEF Becomes
<1>5. /\ r.hub \in HubType /\ r.bus \in GoodBus /\ r.hub.mode = "up"
      /\ reconnected => \A g \in Hubs : r.hub.remote[g] = {}
      /\ ~reconnected => r.hub.remote = hub[h].remote
      /\ Local(sub, h) = {} => r.hub.announced = hub[h].announced
      /\ Local(sub, h) # {} => r.hub.announced = Local(sub, h)
  <2>1. r.hub \in HubType /\ r.bus \in GoodBus /\ r.hub.mode = "up"
    BY <1>1, <1>2, <1>3, ListenedFacts
  <2>2. /\ reconnected => \A g \in Hubs : r.hub.remote[g] = {}
        /\ ~reconnected => r.hub.remote = hub[h].remote
    BY <1>1, <1>2, <1>3, ListenedFacts
  <2>3. /\ Local(sub, h) = {} => r.hub.announced = hub[h].announced
        /\ Local(sub, h) # {} => r.hub.announced = Local(sub, h)
    BY <1>1, <1>2, <1>3, ListenedFacts
  <2> QED
    BY <2>1, <2>2, <2>3
<1>6. r.hub.announced = Local(sub, h)
  BY <1>5
<1>7. \A g \in Hubs : r.hub.remote[g] = {}
  BY <1>5
<1>8. /\ Honest(h, r.bus, Local(sub, h))
      /\ \A y, c, hc : Knows(h, r.bus, Local(sub, h), y, c, hc)
      /\ \A y \in Hubs : \A c, W :
            OutTells(c, y, W) /\ Current(y, c, W, b) => Knows(y, c, W, h, r.bus, r.hub)
  BY <1>1, <1>2, <1>7, Listens
<1>9. \A y \in Hubs : y # h /\ Up(y) =>
         /\ Knows(h, r.bus, Local(sub, h), y, bus[y], hub[y])
         /\ Knows(y, bus[y], Local(sub, y), h, r.bus, r.hub)
  BY <1>1, <1>8 DEF HubsHonest, Honest
<1>10. /\ role' \in [Users -> Roles] /\ unsure' \subseteq Sockets
       /\ sub' \in [Sockets -> SubscriptionType \cup {None}]
       /\ \A s \in Sockets : HubOf[s] # h => sub'[s] = sub[s]
  BY <1>1 DEF TypeOK
<1>11. OwnOnly(h, r.bus) /\ Local(sub', h) = Local(sub, h)
  BY <1>8 DEF Honest
<1> QED
  BY <1>4, <1>5, <1>6, <1>8, <1>9, <1>10, <1>11, OwnStep

LEMMA ResyncAllKnows ==
    ASSUME PresenceInv, NEW h \in Hubs, ResyncAll(h)
    PROVE  PresenceInv'
<1>1. Up(h) /\ role' = role /\ sub' = sub /\ unsure' = unsure
  BY DEF ResyncAll
<1>2. PICK c \in GoodBus : c = bus[h]
  BY BusesGood DEF PresenceInv
<1>3. /\ hub[h].announced = Local(sub, h) /\ OwnOnly(h, c)
      /\ \A y \in Hubs : y # h /\ Up(y) => Current(y, bus[y], Local(sub, y), c)
  BY <1>1, <1>2, UpFacts DEF Knows
<1>4. CASE /\ bus[h].inbox # <<>> /\ NextHeard(h).kind = "marker"
           /\ Becomes(h, Listened(h, Drained(h), TRUE))
  <2>1. PICK q \in Seq(MessageType) : q = c.inbox /\ q # <<>>
    BY <1>2, <1>4, BusFields
  <2>2. PICK t \in Seq(MessageType) : t = Tail(q) /\ Len(t) <= InboxLimit
    <3>1. Tail(q) \in Seq(MessageType) /\ Len(Tail(q)) = Len(q) - 1 /\ Len(q) \in Nat
      BY <2>1, TailFacts
    <3>2. Len(q) <= InboxLimit /\ InboxLimit \in Nat
      BY <2>1, BusFields, LimitAssumption
    <3>3. Len(Tail(q)) <= InboxLimit
      BY <3>1, <3>2
    <3> QED
      BY <3>1, <3>3
  <2>3. PICK d : d = [c EXCEPT !.inbox = t]
    OBVIOUS
  <2>4. /\ d \in BusType /\ d.inbox = t /\ d.out = c.out /\ d.raced = c.raced /\ d.lost = c.lost
        /\ d.connected = c.connected /\ d.marking = c.marking /\ d.missed = c.missed
    BY <2>2, <2>3 DEF GoodBus, BusType
  <2>5. d \in GoodBus
    BY <2>2, <2>4 DEF GoodBus
  <2>6. d = Drained(h)
    BY <1>2, <2>1, <2>2, <2>3 DEF Drained
  <2>7. OwnOnly(h, d)
    BY <1>3, <2>4 DEF OwnOnly
  <2>8. ASSUME NEW y, NEW b, NEW U, Current(y, b, U, c) PROVE Current(y, b, U, d)
    <3>1. Fresh(q, y, U) => Fresh(t, y, U)
      BY <2>1, <2>2, TailTells
    <3> QED
      BY <2>1, <2>4, <2>8, <3>1 DEF Current, Deaf
  <2>9. Becomes(h, Listened(h, d, TRUE))
    BY <1>4, <2>6
  <2>10. \A y \in Hubs : y # h /\ Up(y) => Current(y, bus[y], Local(sub, y), d)
    BY <1>3, <2>8
  <2>11. TRUE \in BOOLEAN
    OBVIOUS
  <2> QED
    BY <1>1, <1>3, <2>5, <2>7, <2>9, <2>10, <2>11, ListeningStep
<1>5. CASE /\ bus[h].inbox = <<>> /\ bus[h].lost
           /\ Becomes(h, Listened(h, [bus[h] EXCEPT !.lost = FALSE], TRUE))
  <2>1. PICK d : d = [c EXCEPT !.lost = FALSE]
    OBVIOUS
  <2>2. /\ d \in BusType /\ d.inbox = c.inbox /\ d.out = c.out /\ d.marking = c.marking /\ d.missed = c.missed
    BY <2>1 DEF GoodBus, BusType
  <2>3. d \in GoodBus /\ OwnOnly(h, d)
    BY <1>3, <2>2 DEF GoodBus, OwnOnly
  <2>4. \A y, b, U : Current(y, b, U, d)
    BY <1>2, <1>5, <2>2, EmptyFacts DEF Current
  <2>5. Becomes(h, Listened(h, d, TRUE))
    BY <1>2, <1>5, <2>1
  <2>6. TRUE \in BOOLEAN
    OBVIOUS
  <2> QED
    BY <1>1, <1>3, <2>3, <2>4, <2>5, <2>6, ListeningStep
<1> QED
  BY <1>4, <1>5 DEF ResyncAll

LEMMA ListenKnows ==
    ASSUME PresenceInv, NEW h \in Hubs, Listen(h)
    PROVE  PresenceInv'
<1>1. /\ role' = role /\ sub' = sub /\ unsure' = unsure
      /\ hub[h].mode = "new" \/ (Up(h) /\ ~bus[h].connected)
  BY DEF Listen
<1>2. PICK c \in GoodBus : c = bus[h]
  BY BusesGood DEF PresenceInv
<1>3. PICK d : d = [c EXCEPT !.connected = TRUE, !.raced = c.raced \/ c.inbox # <<>>]
  OBVIOUS
<1>4. /\ d \in BusType /\ d.inbox = c.inbox /\ d.out = c.out /\ d.marking = c.marking /\ d.missed = c.missed
      /\ c.inbox # <<>> => d.raced
  BY <1>3 DEF GoodBus, BusType
<1>5. d \in GoodBus
  BY <1>4 DEF GoodBus
<1>6. PICK reconnected \in BOOLEAN : reconnected = Up(h)
  BY DEF Up
<1>7. Becomes(h, Listened(h, d, reconnected))
  BY <1>2, <1>3, <1>6 DEF Listen
<1>8. OwnOnly(h, d)
  BY <1>2, <1>4 DEF PresenceInv, OwnMessages, OwnOnly
<1>9. \A y, b, U : Current(y, b, U, d)
  BY <1>4, EmptyFacts DEF Current
<1>10. hub[h].announced = Local(sub, h)
  <2>1. CASE Up(h)
    BY <2>1 DEF PresenceInv, HubsHonest
  <2>2. CASE hub[h].mode = "new"
    <3>1. hub[h].announced = {} /\ ~Up(h)
      BY <2>2 DEF PresenceInv, NewIsNew, NewHub, Up
    <3>2. Local(sub, h) = {}
      BY <3>1 DEF PresenceInv, SocketsUp, Local, Subscribed
    <3> QED
      BY <3>1, <3>2
  <2> QED
    BY <1>1, <2>1, <2>2
<1>11. reconnected \/ \A g \in Hubs : hub[h].remote[g] = {}
  BY <1>1, <1>6 DEF PresenceInv, NewIsNew, NewHub
<1> QED
  BY <1>1, <1>5, <1>7, <1>8, <1>9, <1>10, <1>11, ListeningStep

---------------------------------------------------------------------------
(* The end of a process *)

LEMMA NewFacts ==
    /\ NewHub \in HubType /\ \A k \in {"closed", "gone"} : [NewHub EXCEPT !.mode = k] \in HubType
    /\ \A k : [NewHub EXCEPT !.mode = k].mode = k /\ [NewHub EXCEPT !.mode = k].run = None
    /\ \A r \in BOOLEAN : /\ [NewBus EXCEPT !.raced = r] \in GoodBus
                          /\ [NewBus EXCEPT !.raced = r].out = <<>>
                          /\ [NewBus EXCEPT !.raced = r].raced = r
<1>1. <<>> \in Seq(SUBSET Users) /\ <<>> \in Seq(MessageType) /\ Len(<<>>) = 0
  BY EmptySeq
<1>2. NewHub \in HubType /\ \A k \in {"closed", "gone"} : [NewHub EXCEPT !.mode = k] \in HubType
  BY <1>1 DEF NewHub, HubType
<1>3. \A k : [NewHub EXCEPT !.mode = k].mode = k /\ [NewHub EXCEPT !.mode = k].run = None
  BY DEF NewHub
<1>4. \A r \in BOOLEAN : /\ [NewBus EXCEPT !.raced = r] \in BusType
                         /\ [NewBus EXCEPT !.raced = r].out = <<>>
                         /\ [NewBus EXCEPT !.raced = r].inbox = <<>>
                         /\ ~[NewBus EXCEPT !.raced = r].marking
                         /\ [NewBus EXCEPT !.raced = r].raced = r
  BY <1>1 DEF NewBus, BusType
<1>5. ASSUME NEW r \in BOOLEAN PROVE [NewBus EXCEPT !.raced = r] \in GoodBus
  <2>1. PICK b \in BusType : b = [NewBus EXCEPT !.raced = r] /\ b.out = <<>> /\ b.inbox = <<>> /\ ~b.marking
    BY <1>4
  <2>2. Len(b.out) <= QueueLimit /\ Len(b.inbox) <= InboxLimit
    BY <1>1, <2>1, LimitAssumption
  <2> QED
    BY <2>1, <2>2 DEF GoodBus
<1> QED
  BY <1>2, <1>3, <1>4, <1>5

(* h is up no more; whoever is up knows what it knew. *)
LEMMA LastStep ==
    ASSUME PresenceInv, NEW h \in Hubs, NEW hb \in HubType, NEW b \in GoodBus,
           hub' = [hub EXCEPT ![h] = hb], bus' = [bus EXCEPT ![h] = b],
           role' = role, unsure' \subseteq Sockets, sub' = SocketsElsewhere(h),
           hb.mode \in {"closed", "gone"}, OwnOnly(h, b)
    PROVE  PresenceInv'
<1>1. TypeOK
  BY DEF PresenceInv
<1>2. /\ role' \in [Users -> Roles]
      /\ sub' \in [Sockets -> SubscriptionType \cup {None}]
      /\ \A s \in Sockets : HubOf[s] # h => sub'[s] = sub[s]
      /\ \A s \in Sockets : HubOf[s] = h => sub'[s] = None
  BY <1>1 DEF TypeOK, SocketsElsewhere
<1>3. hb.mode # "new" /\ hb.mode # "up"
  OBVIOUS
<1> QED
  BY <1>2, <1>3, OwnStep

LEMMA CloseAllKnows ==
    ASSUME PresenceInv, NEW h \in Hubs, CloseAll(h)
    PROVE  PresenceInv'
<1>1. TypeOK /\ OwnOnly(h, bus[h])
  BY DEF PresenceInv, OwnMessages
<1>2. PICK c \in GoodBus : c = bus[h]
  BY BusesGood DEF PresenceInv
<1>3. PICK b : b = IF hub[h].announced = {} THEN c ELSE Send(c, Reset(h))
  OBVIOUS
<1>4. PICK hb : hb = [NewHub EXCEPT !.mode = "closed"]
  OBVIOUS
<1>5. hb \in HubType /\ hb.mode = "closed"
  BY <1>4, NewFacts
<1>6. /\ hub' = [hub EXCEPT ![h] = hb] /\ bus' = [bus EXCEPT ![h] = b]
      /\ role' = role /\ unsure' = unsure /\ sub' = SocketsElsewhere(h)
  BY <1>1, <1>2, <1>3, <1>4 DEF CloseAll, TypeOK
<1>7. b \in GoodBus /\ OwnOnly(h, b)
  <2>1. CASE b = c
    BY <1>1, <1>2, <2>1
  <2>2. CASE b = Send(c, Reset(h))
    <3>1. PICK m \in MessageType : m = Reset(h) /\ \A y : About(m, y) => y = h
      BY MessageFacts
    <3>2. b \in GoodBus /\ \A n : Contains(b.out, n) => Contains(c.out, n) \/ n = m
      BY <2>2, <3>1, SendFacts
    <3> QED
      BY <1>1, <1>2, <3>1, <3>2 DEF OwnOnly
  <2> QED
    BY <1>3, <2>1, <2>2
<1>8. unsure' \subseteq Sockets
  BY <1>1, <1>6 DEF TypeOK
<1> QED
  BY <1>5, <1>6, <1>7, <1>8, LastStep

LEMMA EndsKnows ==
    ASSUME PresenceInv, NEW h \in Hubs, Ends(h)
    PROVE  PresenceInv'
<1>1. TypeOK
  BY DEF PresenceInv
<1>2. PICK r \in BOOLEAN : r = bus[h].raced
  BY <1>1 DEF TypeOK, BusType
<1>3. PICK b : b = [NewBus EXCEPT !.raced = r]
  OBVIOUS
<1>4. PICK hb : hb = [NewHub EXCEPT !.mode = "gone"]
  OBVIOUS
<1>5. hb \in HubType /\ hb.mode = "gone" /\ b \in GoodBus /\ b.out = <<>>
  BY <1>3, <1>4, NewFacts
<1>6. /\ hub' = [hub EXCEPT ![h] = hb] /\ bus' = [bus EXCEPT ![h] = b]
      /\ role' = role /\ sub' = SocketsElsewhere(h)
  BY <1>2, <1>3, <1>4 DEF Ends
<1>7. unsure' = unsure \/ unsure' = unsure \cup {s \in Sockets : sub'[s] # None}
  BY DEF Ends
<1>8. unsure' \subseteq Sockets /\ OwnOnly(h, b)
  BY <1>1, <1>5, <1>7, EmptyFacts DEF TypeOK, OwnOnly
<1> QED
  BY <1>5, <1>6, <1>8, LastStep

---------------------------------------------------------------------------
(* What a process sends *)

(* Whoever listens hears m; between two others nothing changes. *)
LEMMA Hearing ==
    ASSUME NEW c \in GoodBus, NEW m \in MessageType, NEW e, e = IF c.connected THEN Heard(c, m) ELSE c
    PROVE  /\ e \in GoodBus /\ e.out = c.out
           /\ \A x, b, y, U, hc : ~About(m, x) /\ Knows(x, b, U, y, c, hc) => Knows(x, b, U, y, e, hc)
           /\ \A x, b, y, U, hb : Knows(y, c, U, x, b, hb) => Knows(y, e, U, x, b, hb)
<1>1. CASE e = c
  BY <1>1
<1>2. CASE e = Heard(c, m)
  <2>1. e \in GoodBus /\ e.out = c.out
    BY <1>2, HeardFacts
  <2>2. ASSUME NEW x, NEW b, NEW y, NEW U, NEW hc, ~About(m, x), Knows(x, b, U, y, c, hc)
        PROVE  Knows(x, b, U, y, e, hc)
    BY <1>2, <2>2, HearsAnother DEF Knows
  <2>3. ASSUME NEW x, NEW b, NEW y, NEW U, NEW hb, Knows(y, c, U, x, b, hb)
        PROVE  Knows(y, e, U, x, b, hb)
    BY <1>2, <2>3, HearsAnother DEF Knows
  <2> QED
    BY <2>1, <2>2, <2>3
<1> QED
  BY <1>1, <1>2

(* h carries m to the others. *)
LEMMA CarriesStep ==
    ASSUME PresenceInv, NEW h \in Hubs, hub[h].mode # "new", NEW m \in MessageType, NEW b \in GoodBus,
           Carry(h, m, b), hub' = hub, sub' = sub, role' = role, unsure' = unsure,
           OwnOnly(h, b), \A y : About(m, y) => y = h,
           Up(h) => /\ OutTells(b, h, Local(sub, h))
                    /\ \A y \in Hubs : \A e :
                          y # h /\ Up(y) /\ e = (IF bus[y].connected THEN Heard(bus[y], m) ELSE bus[y]) =>
                             /\ Knows(h, b, Local(sub, h), y, e, hub[y])
                             /\ Knows(y, e, Local(sub, y), h, b, hub[h])
    PROVE  PresenceInv'
<1>0. TypeOK /\ MarkersOwed /\ NewIsNew /\ SocketsUp /\ HubsHonest /\ OwnMessages /\ PairsKnow
  BY DEF PresenceInv
<1>1. /\ bus'[h] = b
      /\ \A y \in Hubs : y # h => bus'[y] = IF bus[y].connected THEN Heard(bus[y], m) ELSE bus[y]
      /\ bus' = [g \in Hubs |-> bus'[g]]
  BY DEF Carry
<1>2. ASSUME NEW y \in Hubs, y # h
      PROVE  /\ bus'[y] \in GoodBus /\ bus'[y].out = bus[y].out
             /\ \A x, d, z, U, hc : ~About(m, x) /\ Knows(x, d, U, z, bus[y], hc) => Knows(x, d, U, z, bus'[y], hc)
             /\ \A x, d, z, U, hd : Knows(z, bus[y], U, x, d, hd) => Knows(z, bus'[y], U, x, d, hd)
  <2>1. PICK c \in GoodBus : c = bus[y]
    BY <1>0, BusesGood
  <2>2. PICK e : e = bus'[y]
    OBVIOUS
  <2>3. e = IF c.connected THEN Heard(c, m) ELSE c
    BY <1>1, <1>2, <2>1, <2>2
  <2>4. /\ e \in GoodBus /\ e.out = c.out
        /\ \A x, d, z, U, hc : ~About(m, x) /\ Knows(x, d, U, z, c, hc) => Knows(x, d, U, z, e, hc)
        /\ \A x, d, z, U, hd : Knows(z, c, U, x, d, hd) => Knows(z, e, U, x, d, hd)
    BY <2>3, Hearing
  <2> QED
    BY <2>1, <2>2, <2>4
<1>3. \A y \in Hubs : bus'[y] \in GoodBus
  BY <1>1, <1>2
<1>4. TypeOK'
  BY <1>0, <1>1, <1>3 DEF TypeOK, GoodBus
<1>5. MarkersOwed'
  BY <1>3 DEF MarkersOwed, GoodBus
<1>6. NewIsNew'
  BY <1>0, <1>1 DEF NewIsNew, NewBus
<1>7. SocketsUp' /\ \A y : Up(y)' = Up(y)
  BY <1>0 DEF SocketsUp, Up
<1>8. OwnMessages'
  BY <1>0, <1>1, <1>2 DEF OwnMessages, OwnOnly
<1>9. HubsHonest'
  <2> SUFFICES ASSUME NEW y \in Hubs, Up(y)
               PROVE  hub[y].announced = Local(sub, y) /\ Honest(y, bus'[y], Local(sub, y))
    BY <1>7 DEF HubsHonest
  <2>1. hub[y].announced = Local(sub, y) /\ OwnOnly(y, bus'[y])
    BY <1>0, <1>8 DEF HubsHonest, OwnMessages
  <2>2. OutTells(bus'[y], y, Local(sub, y))
    BY <1>0, <1>1, <1>2 DEF HubsHonest, Honest, OutTells
  <2> QED
    BY <2>1, <2>2 DEF Honest
<1>10. PairsKnow'
  <2> SUFFICES ASSUME NEW x \in Hubs, NEW y \in Hubs, x # y, Up(x), Up(y)
               PROVE  Knows(x, bus'[x], Local(sub, x), y, bus'[y], hub[y])
    BY <1>7 DEF PairsKnow
  <2>1. CASE x = h
    BY <1>1, <2>1
  <2>2. CASE y = h
    BY <1>1, <2>2
  <2>3. CASE x # h /\ y # h
    <3>1. Knows(x, bus[x], Local(sub, x), y, bus[y], hub[y]) /\ ~About(m, x)
      BY <1>0, <2>3 DEF PairsKnow
    <3>2. Knows(x, bus[x], Local(sub, x), y, bus'[y], hub[y])
      BY <1>2, <2>3, <3>1
    <3> QED
      BY <1>2, <2>3, <3>2
  <2> QED
    BY <2>1, <2>2, <2>3
<1> QED
  BY <1>4, <1>5, <1>6, <1>7, <1>8, <1>9, <1>10 DEF PresenceInv

LEMMA PumpKnows ==
    ASSUME PresenceInv, NEW h \in Hubs, Pump(h)
    PROVE  PresenceInv'
<1>1. TypeOK /\ OwnOnly(h, bus[h])
  BY DEF PresenceInv, OwnMessages
<1>2. PICK c \in GoodBus : c = bus[h]
  BY BusesGood DEF PresenceInv
<1>3. PICK d : d = [c EXCEPT !.out = Tail(c.out)]
  OBVIOUS
<1>4. PICK m : m = Head(c.out)
  OBVIOUS
<1>5. /\ c.out # <<>> /\ Carry(h, m, d)
      /\ hub' = hub /\ sub' = sub /\ role' = role /\ unsure' = unsure
      /\ hub[h].mode # "new"
  BY <1>2, <1>3, <1>4 DEF Pump, Sends
<1>6. m \in MessageType /\ Contains(c.out, m) /\ \A n : Contains(d.out, n) => Contains(c.out, n)
  <2>1. PICK q \in Seq(MessageType) : q = c.out
    BY BusFields
  <2>2. m \in MessageType /\ \A n : Contains(q, n) <=> Contains(Tail(q), n) \/ n = Head(q)
    BY <1>4, <1>5, <2>1, TailFacts, TailTells
  <2>3. d.out = Tail(q)
    BY <1>3, <2>1 DEF GoodBus, BusType
  <2> QED
    BY <1>4, <2>1, <2>2, <2>3
<1>7. OwnOnly(h, d) /\ \A y : About(m, y) => y = h
  BY <1>1, <1>2, <1>6 DEF OwnOnly
<1>8. d \in GoodBus
  <2>2. PICK q \in Seq(MessageType) : q = c.out
    BY BusFields
  <2>3. Tail(q) \in Seq(MessageType) /\ Len(Tail(q)) = Len(q) - 1 /\ Len(q) \in Nat
    BY <1>5, <2>2, TailFacts
  <2>4. Len(q) <= QueueLimit /\ QueueLimit \in Nat
    BY <2>2, BusFields, LimitAssumption
  <2>5. Len(Tail(q)) <= QueueLimit
    BY <2>3, <2>4
  <2>6. PICK t \in Seq(MessageType) : t = Tail(q)
    BY <2>3
  <2>7. d = [c EXCEPT !.out = t] /\ c \in BusType
    BY <1>3, <2>2, <2>6 DEF GoodBus
  <2>8. d \in BusType /\ d.out = t /\ d.inbox = c.inbox /\ d.marking = c.marking /\ d.missed = c.missed
    BY <2>6, <2>7 DEF BusType
  <2> QED
    BY <2>5, <2>6, <2>8 DEF GoodBus
<1>9. ASSUME Up(h)
      PROVE  /\ OutTells(d, h, Local(sub, h))
             /\ \A y \in Hubs : \A e :
                   y # h /\ Up(y) /\ e = (IF bus[y].connected THEN Heard(bus[y], m) ELSE bus[y]) =>
                      /\ Knows(h, d, Local(sub, h), y, e, hub[y])
                      /\ Knows(y, e, Local(sub, y), h, d, hub[h])
  <2>1. PICK U : U = Local(sub, h)
    OBVIOUS
  <2>2. /\ OutTells(c, h, U)
        /\ \A y \in Hubs : y # h /\ Up(y) =>
              /\ bus[y] \in GoodBus
              /\ Knows(h, c, U, y, bus[y], hub[y])
              /\ Knows(y, bus[y], Local(sub, y), h, c, hub[h])
    BY <1>2, <1>9, <2>1, UpFacts DEF Honest
  <2>3. ASSUME NEW y \in Hubs, y # h, Up(y), NEW e,
               e = (IF bus[y].connected THEN Heard(bus[y], m) ELSE bus[y])
        PROVE  Knows(h, d, U, y, e, hub[y]) /\ Knows(y, e, Local(sub, y), h, d, hub[h])
    <3>1. PICK b \in GoodBus : b = bus[y]
      BY <2>2, <2>3
    <3>2. PICK known : known = hub[y].remote[h]
      OBVIOUS
    <3>3. PICK mine : mine = hub[h].remote[y]
      OBVIOUS
    <3>4. PICK W : W = Local(sub, y)
      OBVIOUS
    <3>5. e = IF b.connected THEN Heard(b, Head(c.out)) ELSE b
      BY <1>4, <2>3, <3>1
    <3>6. /\ Current(h, c, U, b) /\ Agrees(h, c, U, y, b, known)
          /\ Current(y, b, W, c) /\ Agrees(y, b, W, h, c, mine)
      BY <2>2, <2>3, <3>1, <3>2, <3>3, <3>4 DEF Knows
    <3>7. Current(h, d, U, e) /\ Agrees(h, d, U, y, e, known)
      BY <1>3, <1>5, <2>2, <3>5, <3>6, Pumps
    <3>8. Current(y, e, W, d) /\ Agrees(y, e, W, h, d, mine)
      BY <1>3, <1>5, <3>5, <3>6, PumpsBack
    <3> QED
      BY <3>2, <3>3, <3>4, <3>7, <3>8 DEF Knows
  <2>4. OutTells(d, h, U)
    <3>1. PICK q \in Seq(MessageType) : q = c.out
      BY BusFields
    <3>2. d.out = Tail(q)
      BY <1>3, <3>1 DEF GoodBus, BusType
    <3>3. Silent(q, h) \/ Tells(q, h, U)
      BY <2>2, <3>1 DEF OutTells
    <3>4. Silent(Tail(q), h) \/ Tells(Tail(q), h, U)
      BY <1>5, <3>1, <3>3, TailTells
    <3> QED
      BY <3>2, <3>4 DEF OutTells
  <2> QED
    BY <2>1, <2>3, <2>4
<1> QED
  BY <1>5, <1>6, <1>7, <1>8, <1>9, CarriesStep

LEMMA PumpMarkerKnows ==
    ASSUME PresenceInv, NEW h \in Hubs, PumpMarker(h)
    PROVE  PresenceInv'
<1>1. TypeOK /\ OwnOnly(h, bus[h])
  BY DEF PresenceInv, OwnMessages
<1>2. PICK c \in GoodBus : c = bus[h]
  BY BusesGood DEF PresenceInv
<1>3. PICK d : d = [c EXCEPT !.marking = TRUE]
  OBVIOUS
<1>4. PICK m \in MessageType : m = Marker /\ \A y : ~About(m, y)
  BY MessageFacts
<1>5. /\ Carry(h, m, d) /\ c.missed
      /\ hub' = hub /\ sub' = sub /\ role' = role /\ unsure' = unsure
      /\ hub[h].mode # "new"
  BY <1>2, <1>3, <1>4 DEF PumpMarker, Sends
<1>6. /\ d \in BusType /\ d.out = c.out /\ d.inbox = c.inbox /\ d.missed = c.missed
  BY <1>3 DEF GoodBus, BusType
<1>7. d \in GoodBus /\ OwnOnly(h, d)
  BY <1>1, <1>2, <1>5, <1>6 DEF GoodBus, OwnOnly
<1>8. ASSUME Up(h)
      PROVE  /\ OutTells(d, h, Local(sub, h))
             /\ \A y \in Hubs : \A e :
                   y # h /\ Up(y) /\ e = (IF bus[y].connected THEN Heard(bus[y], m) ELSE bus[y]) =>
                      /\ Knows(h, d, Local(sub, h), y, e, hub[y])
                      /\ Knows(y, e, Local(sub, y), h, d, hub[h])
  <2>1. PICK U : U = Local(sub, h)
    OBVIOUS
  <2>2. /\ OutTells(c, h, U)
        /\ \A y \in Hubs : y # h /\ Up(y) =>
              bus[y] \in GoodBus /\ Knows(y, bus[y], Local(sub, y), h, c, hub[h])
    BY <1>2, <1>8, <2>1, UpFacts DEF Honest
  <2>3. ASSUME NEW y \in Hubs, y # h, Up(y), NEW e,
               e = (IF bus[y].connected THEN Heard(bus[y], m) ELSE bus[y])
        PROVE  Knows(h, d, U, y, e, hub[y]) /\ Knows(y, e, Local(sub, y), h, d, hub[h])
    <3>1. PICK b \in GoodBus : b = bus[y]
      BY <2>2, <2>3
    <3>2. PICK known : known = hub[y].remote[h]
      OBVIOUS
    <3>3. PICK mine : mine = hub[h].remote[y]
      OBVIOUS
    <3>4. PICK W : W = Local(sub, y)
      OBVIOUS
    <3>5. e = IF b.connected THEN Heard(b, Marker) ELSE b
      BY <1>4, <2>3, <3>1
    <3>6. Current(y, b, W, c)
      BY <2>2, <2>3, <3>1, <3>4 DEF Knows
    <3>7. Current(h, d, U, e) /\ Agrees(h, d, U, y, e, known)
      BY <1>3, <3>5, Marks
    <3>8. Current(y, e, W, d) /\ Agrees(y, e, W, h, d, mine)
      BY <1>3, <3>5, <3>6, Marks
    <3> QED
      BY <3>2, <3>3, <3>4, <3>7, <3>8 DEF Knows
  <2> QED
    BY <1>6, <2>1, <2>2, <2>3 DEF OutTells
<1> QED
  BY <1>4, <1>5, <1>7, <1>8, CarriesStep

---------------------------------------------------------------------------
(* The theorems on presence *)

LEMMA StepKnows == PresenceInv /\ [Next]_vars => PresenceInv'
<1> SUFFICES ASSUME PresenceInv, [Next]_vars PROVE PresenceInv'
  OBVIOUS
<1>1. CASE UNCHANGED vars
  <2>1. \A sb, h : Local(sb, h) = Local(sb, h)'
    BY DEF Local, Subscribed
  <2> QED
    BY <1>1, <2>1
       DEF vars, PresenceInv, TypeOK, MarkersOwed, NewIsNew, SocketsUp, HubsHonest, OwnMessages, PairsKnow,
           Up, Knows, Honest, OwnOnly
<1>2. ASSUME NEW h \in Hubs,
             \/ BusStep(h) \/ HubStep(h)
             \/ GiveUp(h) \/ HearFails(h) \/ LoseConnection(h) \/ RecheckFails(h) \/ CloseAll(h) \/ Ends(h)
             \/ \E u \in Users, r \in Roles : ChangeRole(h, u, r)
      PROVE  PresenceInv'
  <2>1. BusStep(h) => PresenceInv'
    BY PumpMarkerKnows, MarkerSentKnows, PumpKnows, HearKnows, ResyncAllKnows, ListenKnows DEF BusStep
  <2>2. HubStep(h) => PresenceInv'
    BY QuietHubKnows, ApplyRolesKnows DEF HubStep
  <2>3. GiveUp(h) \/ HearFails(h) \/ LoseConnection(h) \/ RecheckFails(h) => PresenceInv'
    BY GiveUpKnows, HearFailsKnows, LoseConnectionKnows, QuietHubKnows
  <2>4. CloseAll(h) \/ Ends(h) => PresenceInv'
    BY CloseAllKnows, EndsKnows
  <2>5. (\E u \in Users, r \in Roles : ChangeRole(h, u, r)) => PresenceInv'
    BY ChangeRoleKnows
  <2> QED
    BY <1>2, <2>1, <2>2, <2>3, <2>4, <2>5
<1>3. ASSUME NEW s \in Sockets, Subscribe(s) \/ Admit(s) \/ Leave(s) PROVE PresenceInv'
  BY <1>3, SubscribeKnows, AdmitKnows, LeaveKnows
<1> QED
  BY <1>1, <1>2, <1>3 DEF Next

(* The invariant: every process is honest about its users, and every two   *)
(* know each other in the end.                                             *)
THEOREM PresenceKept == Spec => []PresenceInv
  BY InitPresence, StepKnows, PTL DEF Spec

(* Every queue is within its limit (QUEUE_LIMIT, INBOX_LIMIT), and every   *)
(* message, subscription and re-check is one that the code makes.          *)
THEOREM TypeCorrect == Spec => []TypeOK
<1>1. PresenceInv => TypeOK
  BY DEF PresenceInv
<1> QED
  BY <1>1, PresenceKept, PTL

(* Once the bus is quiet, every hub has every other's users right: what    *)
(* `reset`, the lists and the missed marker of the bus are for.            *)
THEOREM PresenceHolds == Spec => []PresenceAgrees
<1>1. PresenceInv => PresenceAgrees
  <2> SUFFICES ASSUME PresenceInv, BusQuiet, NEW g \in Hubs, NEW h \in Hubs, g # h, Up(g), Up(h)
               PROVE  hub[h].remote[g] = Local(sub, g)
    BY DEF PresenceAgrees
  <2>1. Knows(g, bus[g], Local(sub, g), h, bus[h], hub[h])
    BY DEF PresenceInv, PairsKnow
  <2>2. /\ bus[g].out = <<>> /\ bus[g].inbox = <<>> /\ bus[h].out = <<>> /\ bus[h].inbox = <<>>
        /\ ~Owes(bus[g]) /\ ~Deaf(bus[g]) /\ ~Owes(bus[h]) /\ ~Deaf(bus[h])
    BY DEF BusQuiet, Owes, Deaf
  <2>3. ~Troubled(bus[g]) /\ ~Troubled(bus[h]) /\ ~Asked(bus[h], bus[g], h)
    BY <2>2, EmptyFacts DEF Troubled, Asked
  <2>4. Believes(hub[h].remote[g], <<>>, <<>>, g, Local(sub, g))
    BY <2>1, <2>2, <2>3 DEF Knows, Agrees
  <2> QED
    BY <2>4, EmptyFacts DEF Believes
<1> QED
  BY <1>1, PresenceKept, PTL

---------------------------------------------------------------------------
(* Roles *)

(* b will bring the others a change of u's role, or a marker; c brings one *)
(* to its hub, or leads it to a resync; and the hub will begin a re-check. *)
Told(b, u) == Owes(b) \/ Contains(b.out, Access(u))
WillHear(c, u) == Deaf(c) \/ Contains(c.inbox, Marker) \/ Contains(c.inbox, Access(u))
WillRecheck(hb, u) == hb.resyncs > 0 \/ \E i \in DOMAIN hb.rechecks : u \in hb.rechecks[i]

(* h has a re-check of u before it. *)
Due(h, u) == WillRecheck(hub[h], u) \/ WillHear(bus[h], u) \/ \E g \in Hubs : g # h /\ Told(bus[g], u)

(* The re-check that runs will apply r to u, or another role. *)
Brings(run, u, r) == run # None /\ (u \in run.ask \/ [user |-> u, role |-> r] \in run.seen)
Misleads(run, u, r) == run # None /\ \E a \in run.seen : a.user = u /\ a.role # r

Certain(s) == sub[s] # None /\ sub[s].state = "in" /\ s \notin unsure

(* A role that is not right will be re-checked, and so will one that the   *)
(* running re-check is about to get wrong.                                 *)
RightInTheEnd(s) ==
    /\ sub[s].role # role[UserOf[s]] =>
          Due(HubOf[s], UserOf[s]) \/ Brings(hub[HubOf[s]].run, UserOf[s], role[UserOf[s]])
    /\ Misleads(hub[HubOf[s]].run, UserOf[s], role[UserOf[s]]) => Due(HubOf[s], UserOf[s])

(* A re-check asks once for each user. *)
OneAnswer(run) ==
    run # None => \A a \in run.seen : a.user \notin run.ask /\ \A b \in run.seen : b.user = a.user => b = a

RolesKnown == \A s \in Sockets : Certain(s) => RightInTheEnd(s)
OneAnswers == \A h \in Hubs : OneAnswer(hub[h].run)
RolesInv == PresenceInv /\ RolesKnown /\ OneAnswers

LEMMA SendTells ==
    ASSUME NEW b \in GoodBus, NEW m \in MessageType, NEW d, d = Send(b, m)
    PROVE  \A u : (Told(b, u) => Told(d, u)) /\ (WillHear(b, u) => WillHear(d, u))
<1>1. /\ d.inbox = b.inbox /\ d.lost = b.lost /\ d.connected = b.connected
      /\ Owes(b) => Owes(d)
      /\ \A n : Contains(b.out, n) => Owes(d) \/ Contains(d.out, n)
  BY SendFacts
<1> QED
  BY <1>1 DEF Told, WillHear, Deaf

(* A step of h that changes no role. *)
LEMMA OwnRoles ==
    ASSUME RolesInv, NEW h \in Hubs, role' = role,
           \A g \in Hubs : g # h => hub'[g] = hub[g] /\ bus'[g] = bus[g],
           \A u \in Users : Told(bus[h], u) => Told(bus'[h], u),
           \A s \in Sockets : HubOf[s] # h => sub'[s] = sub[s] /\ (s \in unsure => s \in unsure'),
           \A s \in Sockets : HubOf[s] = h /\ Certain(s)' => RightInTheEnd(s)',
           OneAnswer(hub'[h].run)
    PROVE  RolesKnown' /\ OneAnswers'
<1>1. OneAnswers'
  BY DEF RolesInv, OneAnswers
<1>2. ASSUME NEW s \in Sockets, Certain(s)', HubOf[s] # h PROVE RightInTheEnd(s)'
  <2>1. Certain(s) /\ sub'[s] = sub[s]
    BY <1>2 DEF Certain
  <2>2. RightInTheEnd(s)
    BY <2>1 DEF RolesInv, RolesKnown
  <2>3. HubOf[s] \in Hubs /\ UserOf[s] \in Users
    BY SocketAssumption
  <2>4. Due(HubOf[s], UserOf[s]) => Due(HubOf[s], UserOf[s])'
    BY <1>2, <2>3 DEF Due
  <2> QED
    BY <1>2, <2>1, <2>2, <2>3, <2>4 DEF RightInTheEnd
<1>3. RolesKnown'
  BY <1>2 DEF RolesKnown
<1> QED
  BY <1>1, <1>3

(* A step of h that keeps its subscriptions and the re-check that runs.    *)
LEMMA SteadyRoles ==
    ASSUME RolesInv, NEW h \in Hubs, role' = role, sub' = sub, unsure \subseteq unsure',
           \A g \in Hubs : g # h => hub'[g] = hub[g] /\ bus'[g] = bus[g],
           \A u \in Users : Told(bus[h], u) => Told(bus'[h], u),
           hub'[h].run = hub[h].run,
           Subscribed(sub, h) # {} =>
              \A u \in Users : WillRecheck(hub[h], u) \/ WillHear(bus[h], u) =>
                                  WillRecheck(hub'[h], u) \/ WillHear(bus'[h], u)
    PROVE  RolesKnown' /\ OneAnswers'
<1>1. OneAnswer(hub'[h].run)
  BY DEF RolesInv, OneAnswers
<1>2. ASSUME NEW s \in Sockets, HubOf[s] = h, Certain(s)' PROVE RightInTheEnd(s)'
  <2>1. Certain(s) /\ RightInTheEnd(s) /\ UserOf[s] \in Users
    BY <1>2, SocketAssumption DEF Certain, RolesInv, RolesKnown
  <2>2. Subscribed(sub, h) # {}
    BY <1>2, <2>1 DEF Certain, Subscribed
  <2>3. Due(h, UserOf[s]) => Due(h, UserOf[s])'
    BY <2>1, <2>2 DEF Due
  <2> QED
    BY <1>2, <2>1, <2>3 DEF RightInTheEnd
<1> QED
  BY <1>1, <1>2, OwnRoles

(* h announces whom it has: what is due stays due. *)
LEMMA AnnouncesRoles ==
    ASSUME PresenceInv, NEW h \in Hubs, NEW hb \in HubType, Becomes(h, AnnounceOwn(h, hb, bus[h], sub'))
    PROVE  /\ \A g \in Hubs : g # h => hub'[g] = hub[g] /\ bus'[g] = bus[g]
           /\ \A u : Told(bus[h], u) => Told(bus'[h], u)
           /\ \A u : WillHear(bus[h], u) => WillHear(bus'[h], u)
           /\ \A u : WillRecheck(hb, u) => WillRecheck(hub'[h], u)
           /\ hub'[h].run = hb.run
<1>1. PICK b \in GoodBus : b = bus[h]
  BY BusesGood DEF PresenceInv
<1>2. PICK sb : sb = sub'
  OBVIOUS
<1>3. PICK r : r = AnnounceOwn(h, hb, b, sb)
  OBVIOUS
<1>4. hub' = [hub EXCEPT ![h] = r.hub] /\ bus' = [bus EXCEPT ![h] = r.bus]
  BY <1>1, <1>2, <1>3 DEF Becomes
<1>5. hub \in [Hubs -> HubType] /\ bus \in [Hubs -> BusType]
  BY DEF PresenceInv, TypeOK
<1>6. /\ hub'[h] = r.hub /\ bus'[h] = r.bus
      /\ \A g \in Hubs : g # h => hub'[g] = hub[g] /\ bus'[g] = bus[g]
  BY <1>4, <1>5
<1>7. SameButAnnounced(r.hub, hb) /\ (r.bus = b \/ r.bus = Send(b, List(h, Local(sb, h))))
  BY <1>3, AnnounceOwnFacts
<1>8. \A u : WillRecheck(hb, u) => WillRecheck(r.hub, u)
  BY <1>7 DEF SameButAnnounced, WillRecheck
<1>9. \A u : (Told(b, u) => Told(r.bus, u)) /\ (WillHear(b, u) => WillHear(r.bus, u))
  <2>1. PICK V \in SUBSET Users : V = Local(sb, h)
    BY LocalUsers
  <2>2. PICK m \in MessageType : m = List(h, V)
    BY MessageFacts
  <2>3. PICK d : d = r.bus
    OBVIOUS
  <2>4. d = b \/ d = Send(b, m)
    BY <1>7, <2>1, <2>2, <2>3
  <2>5. \A u : (Told(b, u) => Told(d, u)) /\ (WillHear(b, u) => WillHear(d, u))
    BY <2>4, SendTells
  <2> QED
    BY <2>3, <2>5
<1> QED
  BY <1>1, <1>6, <1>7, <1>8, <1>9 DEF SameButAnnounced

LEMMA SubscribeRoles ==
    ASSUME RolesInv, NEW s \in Sockets, Subscribe(s)
    PROVE  RolesKnown' /\ OneAnswers'
<1>0. PICK h \in Hubs : h = HubOf[s]
  BY SocketAssumption
<1>1. /\ sub' = [sub EXCEPT ![s] = [state |-> "asking", role |-> role[UserOf[s]]]]
      /\ role' = role /\ hub' = hub /\ bus' = bus /\ unsure' = unsure
      /\ sub \in [Sockets -> SubscriptionType \cup {None}]
  BY DEF Subscribe, RolesInv, PresenceInv, TypeOK
<1>2. sub'[s].state = "asking" /\ \A t \in Sockets : t # s => sub'[t] = sub[t]
  BY <1>1
<1>3. ASSUME NEW t \in Sockets, Certain(t)' PROVE RightInTheEnd(t)'
  <2>1. t # s /\ Certain(t) /\ sub'[t] = sub[t]
    BY <1>1, <1>2, <1>3 DEF Certain
  <2>2. RightInTheEnd(t)
    BY <2>1 DEF RolesInv, RolesKnown
  <2> QED
    BY <1>1, <2>1, <2>2 DEF RightInTheEnd, Due
<1>4. OneAnswers' /\ RolesKnown'
  BY <1>1, <1>3 DEF RolesInv, OneAnswers, RolesKnown
<1> QED
  BY <1>4

(* An answer that is used is right, or unsure. *)
LEMMA AdmitRoles ==
    ASSUME RolesInv, NEW s \in Sockets, Admit(s)
    PROVE  RolesKnown' /\ OneAnswers'
<1> DEFINE h == HubOf[s]
           u == UserOf[s]
<1>1. PresenceInv /\ TypeOK /\ h \in Hubs /\ hub[h] \in HubType /\ u \in Users
  BY SocketAssumption DEF RolesInv, PresenceInv, TypeOK
<1>2. /\ sub' = [sub EXCEPT ![s] = IF @.role = "none" THEN None ELSE [@ EXCEPT !.state = "in"]]
      /\ unsure' = IF sub[s].role # "none" /\ Outdated(s) THEN unsure \cup {s} ELSE unsure
      /\ role' = role /\ Becomes(h, AnnounceOwn(h, hub[h], bus[h], sub'))
      /\ sub[s] \in SubscriptionType
      /\ sub \in [Sockets -> SubscriptionType \cup {None}]
  BY <1>1 DEF Admit, TypeOK
<1>3. /\ sub'[s] = None \/ (sub[s].role # "none" /\ sub'[s].role = sub[s].role)
      /\ \A t \in Sockets : t # s => sub'[t] = sub[t] /\ (t \in unsure' <=> t \in unsure)
      /\ \A t \in Sockets : t \in unsure => t \in unsure'
  BY <1>2 DEF SubscriptionType
<1>4. /\ \A g \in Hubs : g # h => hub'[g] = hub[g] /\ bus'[g] = bus[g]
      /\ \A v : Told(bus[h], v) => Told(bus'[h], v)
      /\ \A v : WillHear(bus[h], v) => WillHear(bus'[h], v)
      /\ \A v : WillRecheck(hub[h], v) => WillRecheck(hub'[h], v)
      /\ hub'[h].run = hub[h].run
  <2> HIDE DEF h
  <2> QED
    BY <1>1, <1>2, AnnouncesRoles
<1>5. ASSUME NEW t \in Sockets, HubOf[t] = h, Certain(t)' PROVE RightInTheEnd(t)'
  <2>1. CASE t = s
    <3>1. sub'[s].role = sub[s].role /\ ~Outdated(s)
      BY <1>2, <1>3, <1>5, <2>1 DEF Certain
    <3>2. /\ sub[s].role = role[u]
          /\ hub[h].run # None => \A a \in hub[h].run.seen : a.user = u => a.role = role[u]
      <4>1. Answers(s) = {role[u]}
        BY <3>1 DEF Outdated
      <4>2. \A x \in Answers(s) : x = role[u]
        BY <4>1
      <4> QED
        BY <4>2 DEF Answers
    <3>3. ~Misleads(hub'[h].run, u, role[u])
      BY <1>4, <3>2 DEF Misleads
    <3> QED
      BY <1>2, <2>1, <3>1, <3>2, <3>3 DEF RightInTheEnd
  <2>2. CASE t # s
    <3>1. Certain(t) /\ sub'[t] = sub[t] /\ UserOf[t] \in Users
      BY <1>3, <1>5, <2>2, SocketAssumption DEF Certain
    <3>2. RightInTheEnd(t)
      BY <3>1 DEF RolesInv, RolesKnown
    <3>3. Due(h, UserOf[t]) => Due(h, UserOf[t])'
      BY <1>4 DEF Due
    <3> QED
      BY <1>2, <1>4, <1>5, <3>1, <3>2, <3>3 DEF RightInTheEnd
  <2> QED
    BY <2>1, <2>2
<1>6. OneAnswer(hub'[h].run)
  BY <1>1, <1>4 DEF RolesInv, OneAnswers
<1>7. \A t \in Sockets : HubOf[t] # h => sub'[t] = sub[t] /\ (t \in unsure => t \in unsure')
  BY <1>3
<1> HIDE DEF h
<1> QED
  BY <1>1, <1>2, <1>4, <1>5, <1>6, <1>7, OwnRoles

LEMMA LeaveRoles ==
    ASSUME RolesInv, NEW s \in Sockets, Leave(s)
    PROVE  RolesKnown' /\ OneAnswers'
<1> DEFINE h == HubOf[s]
<1>1. PresenceInv /\ TypeOK /\ h \in Hubs /\ hub[h] \in HubType
  BY SocketAssumption DEF RolesInv, PresenceInv, TypeOK
<1>2. /\ sub' = [sub EXCEPT ![s] = None] /\ unsure' = unsure \ {s}
      /\ role' = role /\ Becomes(h, AnnounceOwn(h, hub[h], bus[h], sub'))
      /\ sub \in [Sockets -> SubscriptionType \cup {None}]
  BY <1>1 DEF Leave, TypeOK
<1>3. /\ sub'[s] = None
      /\ \A t \in Sockets : t # s => sub'[t] = sub[t] /\ (t \in unsure' <=> t \in unsure)
  BY <1>2
<1>4. /\ \A g \in Hubs : g # h => hub'[g] = hub[g] /\ bus'[g] = bus[g]
      /\ \A v : Told(bus[h], v) => Told(bus'[h], v)
      /\ \A v : WillHear(bus[h], v) => WillHear(bus'[h], v)
      /\ \A v : WillRecheck(hub[h], v) => WillRecheck(hub'[h], v)
      /\ hub'[h].run = hub[h].run
  <2> HIDE DEF h
  <2> QED
    BY <1>1, <1>2, AnnouncesRoles
<1>5. ASSUME NEW t \in Sockets, HubOf[t] = h, Certain(t)' PROVE RightInTheEnd(t)'
  <2>1. t # s /\ Certain(t) /\ sub'[t] = sub[t] /\ UserOf[t] \in Users
    BY <1>3, <1>5, SocketAssumption DEF Certain
  <2>2. RightInTheEnd(t)
    BY <2>1 DEF RolesInv, RolesKnown
  <2>3. Due(h, UserOf[t]) => Due(h, UserOf[t])'
    BY <1>4 DEF Due
  <2> QED
    BY <1>2, <1>4, <1>5, <2>1, <2>2, <2>3 DEF RightInTheEnd
<1>6. OneAnswer(hub'[h].run)
  BY <1>1, <1>4 DEF RolesInv, OneAnswers
<1>7. \A t \in Sockets : HubOf[t] # h => sub'[t] = sub[t] /\ (t \in unsure => t \in unsure')
  BY <1>3
<1> HIDE DEF h
<1> QED
  BY <1>1, <1>2, <1>4, <1>5, <1>6, <1>7, OwnRoles

(* What a re-check applies is right, or another re-check is due. *)
LEMMA ApplyRolesRoles ==
    ASSUME RolesInv, NEW h \in Hubs, ApplyRoles(h)
    PROVE  RolesKnown' /\ OneAnswers'
<1>1. PresenceInv /\ TypeOK /\ hub[h] \in HubType /\ None \notin SubscriptionType
  BY NoneAssumption DEF RolesInv, PresenceInv, TypeOK
<1>2. PICK run \in RunType : run = hub[h].run /\ run # None /\ run.ask = {}
  BY <1>1, HubUpdates DEF ApplyRoles
<1>3. PICK hb : hb = [hub[h] EXCEPT !.run = None]
  OBVIOUS
<1>4. hb \in HubType /\ hb.run = None /\ hb.rechecks = hub[h].rechecks /\ hb.resyncs = hub[h].resyncs
  BY <1>1, <1>3 DEF HubType
<1>5. /\ sub' = Applied(h, run) /\ role' = role
      /\ unsure' = unsure \ {s \in Touched(h, run) : SeenRole(run, UserOf[s]) = role[UserOf[s]]}
      /\ Becomes(h, AnnounceOwn(h, hb, bus[h], sub'))
  BY <1>2, <1>3 DEF ApplyRoles
<1>6. /\ \A g \in Hubs : g # h => hub'[g] = hub[g] /\ bus'[g] = bus[g]
      /\ \A u : Told(bus[h], u) => Told(bus'[h], u)
      /\ \A u : WillHear(bus[h], u) => WillHear(bus'[h], u)
      /\ \A u : WillRecheck(hb, u) => WillRecheck(hub'[h], u)
      /\ hub'[h].run = None
  BY <1>1, <1>4, <1>5, AnnouncesRoles
<1>7. \A u : Due(h, u) => Due(h, u)'
  BY <1>4, <1>6 DEF Due, WillRecheck
<1>8. OneAnswer(hub'[h].run) /\ \A u, r : ~Misleads(hub'[h].run, u, r)
  BY <1>6 DEF OneAnswer, Misleads
<1>9. \A s \in Sockets : HubOf[s] # h => sub'[s] = sub[s] /\ (s \in unsure => s \in unsure')
  BY <1>1, <1>5, AppliedFacts DEF Touched, Subscribed
<1>10. ASSUME NEW s \in Sockets, HubOf[s] = h, Certain(s)' PROVE RightInTheEnd(s)'
  <2> DEFINE u == UserOf[s]
  <2>1. CASE s \in Touched(h, run)
    <3>1. /\ sub[s] # None /\ sub[s].state = "in" /\ sub[s] \in SubscriptionType
          /\ \E a \in run.seen : a.user = u
      BY <1>1, <2>1 DEF Touched, Subscribed, TypeOK
    <3>2. PICK a \in run.seen : a.user = u /\ SeenRole(run, u) = a.role
      <4>1. (CHOOSE a \in run.seen : a.user = u) \in run.seen /\ (CHOOSE a \in run.seen : a.user = u).user = u
        BY <3>1
      <4> QED
        BY <4>1 DEF SeenRole
    <3>3. sub'[s] = [sub[s] EXCEPT !.role = a.role]
      BY <1>5, <1>10, <2>1, <3>2 DEF Applied, Certain
    <3>4. sub'[s].role = a.role
      BY <3>1, <3>3 DEF SubscriptionType
    <3>5. CASE a.role = role[u]
      BY <1>5, <1>8, <3>4, <3>5, <1>10 DEF RightInTheEnd
    <3>6. CASE a.role # role[u]
      <4>1. s \notin unsure
        BY <1>5, <1>10, <3>2, <3>6 DEF Certain
      <4>2. Certain(s) /\ Misleads(run, u, role[u])
        BY <1>2, <3>1, <3>2, <3>6, <4>1 DEF Certain, Misleads
      <4>3. Due(h, u)
        BY <1>2, <1>10, <4>2 DEF RolesInv, RolesKnown, RightInTheEnd
      <4> QED
        BY <1>5, <1>7, <1>8, <1>10, <4>3 DEF RightInTheEnd
    <3> QED
      BY <3>5, <3>6
  <2>2. CASE s \notin Touched(h, run)
    <3>1. sub'[s] = sub[s] /\ (s \in unsure' <=> s \in unsure)
      BY <1>5, <2>2 DEF Applied
    <3>2. Certain(s)
      BY <1>10, <3>1 DEF Certain
    <3>3. ~Brings(run, u, role[u])
      BY <1>2, <1>10, <2>2, <3>2 DEF Brings, Touched, Subscribed, Certain
    <3>4. sub[s].role # role[u] => Due(h, u)
      BY <1>2, <1>10, <3>2, <3>3 DEF RolesInv, RolesKnown, RightInTheEnd
    <3> QED
      BY <1>5, <1>7, <1>8, <1>10, <3>1, <3>4 DEF RightInTheEnd
  <2> QED
    BY <2>1, <2>2
<1> QED
  BY <1>5, <1>6, <1>8, <1>9, <1>10, OwnRoles

(* A re-check that is taken from the queue asks for whoever is here.       *)
LEMMA RecheckBeginsRoles ==
    ASSUME RolesInv, NEW h \in Hubs, RecheckBegins(h)
    PROVE  RolesKnown' /\ OneAnswers'
<1>1. PresenceInv /\ TypeOK /\ hub[h] \in HubType
  BY DEF RolesInv, PresenceInv, TypeOK
<1>2. PICK q \in Seq(SUBSET Users) : q = hub[h].rechecks /\ q # <<>>
  BY <1>1, HubUpdates DEF RecheckBegins
<1>3. PICK run \in RunType : run = [ask |-> Local(sub, h) \cap Head(q), seen |-> {}]
  BY LocalUsers DEF RunType
<1>4. PICK hb : hb = [hub[h] EXCEPT !.rechecks = Tail(q), !.run = run]
  OBVIOUS
<1>5. /\ hb.rechecks = Tail(q) /\ hb.run = run /\ hb.resyncs = hub[h].resyncs
      /\ run.ask = Local(sub, h) \cap Head(q) /\ run.seen = {}
  BY <1>1, <1>3, <1>4 DEF HubType
<1>6. /\ hub' = [hub EXCEPT ![h] = hb] /\ hub[h].run = None
      /\ role' = role /\ sub' = sub /\ bus' = bus /\ unsure' = unsure
  BY <1>2, <1>3, <1>4 DEF RecheckBegins
<1>7. hub'[h] = hb /\ \A g \in Hubs : g # h => hub'[g] = hub[g]
  BY <1>1, <1>6 DEF TypeOK
<1>8. OneAnswer(hub'[h].run) /\ \A u, r : ~Misleads(hub'[h].run, u, r)
  BY <1>5, <1>7 DEF OneAnswer, Misleads
<1>9. \A u : WillRecheck(hub[h], u) => WillRecheck(hb, u) \/ u \in Head(q)
  <2>1. /\ Head(q) = q[1] /\ DOMAIN q = 1..Len(q) /\ Len(q) \in Nat \ {0}
        /\ DOMAIN Tail(q) = 1..Len(q) - 1
        /\ \A i \in 1..Len(q) - 1 : Tail(q)[i] = q[i + 1]
    <3>1. Len(Tail(q)) = Len(q) - 1 /\ \A i \in 1..Len(Tail(q)) : Tail(q)[i] = q[i + 1]
      BY <1>2, HeadTailProperties
    <3>2. Tail(q) \in Seq(SUBSET Users) /\ Head(q) = q[1]
      BY <1>2, HeadTailProperties
    <3>3. DOMAIN Tail(q) = 1..Len(Tail(q)) /\ DOMAIN q = 1..Len(q) /\ Len(q) \in Nat \ {0}
      BY <1>2, <3>2, LenProperties, EmptySeq
    <3> QED
      BY <3>1, <3>2, <3>3
  <2>2. \A i \in DOMAIN q : i = 1 \/ (i - 1 \in DOMAIN Tail(q) /\ q[i] = Tail(q)[i - 1])
    BY <2>1
  <2> QED
    BY <1>2, <1>5, <2>1, <2>2 DEF WillRecheck
<1>10. ASSUME NEW s \in Sockets, HubOf[s] = h, Certain(s)' PROVE RightInTheEnd(s)'
  <2>1. Certain(s)
    BY <1>6, <1>10 DEF Certain
  <2>2. RightInTheEnd(s)
    BY <2>1 DEF RolesInv, RolesKnown
  <2>3. sub[s].role # role[UserOf[s]] => Due(h, UserOf[s])
    BY <1>6, <1>10, <2>2 DEF RightInTheEnd, Brings
  <2>4. UserOf[s] \in Local(sub, h) /\ run # None
    BY <1>10, <2>1, NoneAssumption DEF Certain, Local, Subscribed
  <2>5. Due(h, UserOf[s]) => Due(h, UserOf[s])' \/ UserOf[s] \in Head(q)
    BY <1>6, <1>7, <1>9 DEF Due
  <2>6. UserOf[s] \in Head(q) => Brings(hub'[h].run, UserOf[s], role[UserOf[s]])
    BY <1>5, <1>7, <2>4 DEF Brings
  <2> QED
    BY <1>6, <1>8, <1>10, <2>3, <2>5, <2>6 DEF RightInTheEnd
<1>11. \A u \in Users : Told(bus[h], u) => Told(bus'[h], u)
  BY <1>6
<1> QED
  BY <1>6, <1>7, <1>8, <1>10, <1>11, OwnRoles

(* The query sees the role there is. *)
LEMMA RecheckAsksRoles ==
    ASSUME RolesInv, NEW h \in Hubs, NEW u \in Users, RecheckAsks(h, u)
    PROVE  RolesKnown' /\ OneAnswers'
<1>1. PresenceInv /\ TypeOK /\ hub[h] \in HubType /\ OneAnswer(hub[h].run)
  BY DEF RolesInv, PresenceInv, TypeOK, OneAnswers
<1>2. PICK old \in RunType : old = hub[h].run /\ old # None /\ u \in old.ask
  BY <1>1, HubUpdates DEF RecheckAsks
<1>3. PICK a : a = [user |-> u, role |-> role[u]]
  OBVIOUS
<1>4. PICK run : run = [ask |-> old.ask \ {u}, seen |-> old.seen \cup {a}]
  OBVIOUS
<1>5. a.user = u /\ a.role = role[u] /\ run.ask = old.ask \ {u} /\ run.seen = old.seen \cup {a} /\ run # None
  <2>1. a \in [user : Users, role : Roles]
    BY <1>1, <1>3 DEF TypeOK
  <2>2. old.ask \subseteq Users /\ old.seen \subseteq [user : Users, role : Roles]
    BY DEF RunType
  <2>3. PICK ask, seen : ask = old.ask \ {u} /\ seen = old.seen \cup {a}
    OBVIOUS
  <2>4. ask \in SUBSET Users /\ seen \in SUBSET [user : Users, role : Roles]
    BY <2>1, <2>2, <2>3
  <2>5. run = [ask |-> ask, seen |-> seen]
    BY <1>4, <2>3
  <2>6. run \in RunType
    BY <2>4, <2>5 DEF RunType
  <2> QED
    BY <1>3, <2>3, <2>5, <2>6, NoneAssumption
<1>6. PICK hb : hb = [hub[h] EXCEPT !.run = run]
  OBVIOUS
<1>7. hb.rechecks = hub[h].rechecks /\ hb.run = run /\ hb.resyncs = hub[h].resyncs
  BY <1>1, <1>6 DEF HubType
<1>8. /\ hub' = [hub EXCEPT ![h] = hb]
      /\ role' = role /\ sub' = sub /\ bus' = bus /\ unsure' = unsure
  BY <1>2, <1>3, <1>4, <1>6 DEF RecheckAsks
<1>9. hub'[h] = hb /\ \A g \in Hubs : g # h => hub'[g] = hub[g]
  BY <1>1, <1>8 DEF TypeOK
<1>10. OneAnswer(hub'[h].run)
  BY <1>1, <1>2, <1>5, <1>7, <1>9 DEF OneAnswer
<1>11. \A v : /\ Brings(old, v, role[v]) => Brings(run, v, role[v])
              /\ Misleads(run, v, role[v]) => Misleads(old, v, role[v])
  BY <1>2, <1>3, <1>5 DEF Brings, Misleads
<1>12. ASSUME NEW s \in Sockets, HubOf[s] = h, Certain(s)' PROVE RightInTheEnd(s)'
  <2>1. Certain(s)
    BY <1>8, <1>12 DEF Certain
  <2>2. RightInTheEnd(s)
    BY <2>1 DEF RolesInv, RolesKnown
  <2>3. Due(h, UserOf[s]) => Due(h, UserOf[s])'
    BY <1>7, <1>8, <1>9 DEF Due, WillRecheck
  <2> QED
    BY <1>2, <1>7, <1>8, <1>9, <1>11, <1>12, <2>2, <2>3 DEF RightInTheEnd
<1>13. \A v \in Users : Told(bus[h], v) => Told(bus'[h], v)
  BY <1>8
<1> QED
  BY <1>8, <1>9, <1>10, <1>12, <1>13, OwnRoles

(* accessChanged: whoever is subscribed will be re-checked. *)
LEMMA AccessChangedRoles ==
    ASSUME NEW h, NEW hb \in HubType, NEW scope \in SUBSET Users, NEW hd, hd = AccessChanged(h, hb, scope)
    PROVE  /\ hd.run = hb.run
           /\ \A u : WillRecheck(hb, u) => WillRecheck(hd, u)
           /\ Subscribed(sub, h) # {} => \A u \in scope : WillRecheck(hd, u)
<1>1. /\ hd.run = hb.run /\ hd.resyncs = hb.resyncs
      /\ hd.rechecks = IF Subscribed(sub, h) = {} THEN hb.rechecks ELSE Append(hb.rechecks, scope)
  BY AccessChangedFacts
<1>2. PICK q \in Seq(SUBSET Users) : q = hb.rechecks
  BY HubUpdates
<1>3. /\ DOMAIN Append(q, scope) = 1..Len(q) + 1 /\ DOMAIN q = 1..Len(q) /\ Len(q) \in Nat
      /\ \A i \in 1..Len(q) : Append(q, scope)[i] = q[i]
      /\ Append(q, scope)[Len(q) + 1] = scope
  <2>1. /\ Append(q, scope) \in Seq(SUBSET Users) /\ Len(Append(q, scope)) = Len(q) + 1
        /\ \A i \in 1..Len(q) : Append(q, scope)[i] = q[i]
        /\ Append(q, scope)[Len(q) + 1] = scope
    BY AppendProperties
  <2>2. /\ DOMAIN Append(q, scope) = 1..Len(Append(q, scope)) /\ DOMAIN q = 1..Len(q) /\ Len(q) \in Nat
    BY <2>1, LenProperties
  <2> QED
    BY <2>1, <2>2
<1>4. Len(q) + 1 \in DOMAIN Append(q, scope) /\ \A i \in DOMAIN q : i \in DOMAIN Append(q, scope)
  BY <1>3
<1> QED
  BY <1>1, <1>2, <1>3, <1>4 DEF WillRecheck

(* resyncRooms ends with a re-check of everyone. *)
LEMMA ResyncEndsRoles ==
    ASSUME RolesInv, NEW h \in Hubs, ResyncEnds(h)
    PROVE  RolesKnown' /\ OneAnswers'
<1>1. PresenceInv /\ TypeOK /\ hub[h] \in HubType
  BY DEF RolesInv, PresenceInv, TypeOK
<1>2. PICK n \in Nat : n = hub[h].resyncs - 1
  BY <1>1, HubUpdates DEF ResyncEnds
<1>3. PICK h1 \in HubType : h1 = [hub[h] EXCEPT !.resyncs = n]
  BY <1>1, HubUpdates
<1>4. h1.run = hub[h].run
  BY <1>1, <1>3 DEF HubType
<1>5. PICK hb : hb = AccessChanged(h, h1, Users)
  OBVIOUS
<1>6. /\ hub' = [hub EXCEPT ![h] = hb] /\ bus' = bus
      /\ role' = role /\ sub' = sub /\ unsure' = unsure
  BY <1>2, <1>3, <1>5 DEF ResyncEnds
<1>7. hub'[h] = hb /\ \A g \in Hubs : g # h => hub'[g] = hub[g] /\ bus'[g] = bus[g]
  BY <1>1, <1>6 DEF TypeOK
<1>8. hb.run = h1.run /\ (Subscribed(sub, h) # {} => \A u \in Users : WillRecheck(hb, u))
  BY <1>5, AccessChangedRoles
<1> QED
  BY <1>4, <1>6, <1>7, <1>8, SteadyRoles

LEMMA KeepHoldersRoles ==
    ASSUME RolesInv, NEW h \in Hubs, KeepHolders(h)
    PROVE  RolesKnown' /\ OneAnswers'
<1>1. PresenceInv /\ TypeOK /\ hub[h] \in HubType
  BY DEF RolesInv, PresenceInv, TypeOK
<1>2. PICK r : r = [g \in Hubs |-> IF hub[g].mode = "gone" THEN {} ELSE hub[h].remote[g]]
  OBVIOUS
<1>3. PICK hb : hb = [hub[h] EXCEPT !.remote = r]
  OBVIOUS
<1>4. hb.run = hub[h].run /\ hb.rechecks = hub[h].rechecks /\ hb.resyncs = hub[h].resyncs
  BY <1>1, <1>3 DEF HubType
<1>5. /\ hub' = [hub EXCEPT ![h] = hb] /\ bus' = bus
      /\ role' = role /\ sub' = sub /\ unsure' = unsure
  BY <1>2, <1>3 DEF KeepHolders
<1>6. hub'[h] = hb /\ \A g \in Hubs : g # h => hub'[g] = hub[g] /\ bus'[g] = bus[g]
  BY <1>1, <1>5 DEF TypeOK
<1>7. \A u \in Users : WillRecheck(hub[h], u) => WillRecheck(hb, u)
  BY <1>4 DEF WillRecheck
<1> QED
  BY <1>4, <1>5, <1>6, <1>7, SteadyRoles

(* Nothing is promised of the subscriptions of h any more, or there are    *)
(* none; the others lose nothing they were to be told.                     *)
LEMMA NothingPromised ==
    ASSUME RolesInv, NEW h \in Hubs, role' = role,
           \A g \in Hubs : g # h => hub'[g] = hub[g] /\ bus'[g] = bus[g],
           \A u \in Users : Told(bus[h], u) => Told(bus'[h], u),
           \A s \in Sockets : HubOf[s] # h => sub'[s] = sub[s] /\ (s \in unsure => s \in unsure'),
           \A s \in Sockets : HubOf[s] = h => ~Certain(s)',
           hub'[h].run = None \/ hub'[h].run = hub[h].run
    PROVE  RolesKnown' /\ OneAnswers'
<1>1. OneAnswer(hub'[h].run)
  BY DEF RolesInv, OneAnswers, OneAnswer
<1> QED
  BY <1>1, OwnRoles

LEMMA RecheckFailsRoles ==
    ASSUME RolesInv, NEW h \in Hubs, RecheckFails(h)
    PROVE  RolesKnown' /\ OneAnswers'
<1>1. PresenceInv /\ TypeOK /\ hub[h] \in HubType
  BY DEF RolesInv, PresenceInv, TypeOK
<1>2. PICK hb : hb = [hub[h] EXCEPT !.run = None]
  OBVIOUS
<1>3. hb.run = None
  BY <1>1, <1>2 DEF HubType
<1>4. /\ hub' = [hub EXCEPT ![h] = hb] /\ bus' = bus
      /\ role' = role /\ sub' = sub /\ unsure' = unsure \cup Subscribed(sub, h)
  BY <1>2 DEF RecheckFails
<1>5. hub'[h] = hb /\ \A g \in Hubs : g # h => hub'[g] = hub[g] /\ bus'[g] = bus[g]
  BY <1>1, <1>4 DEF TypeOK
<1>6. \A s \in Sockets : HubOf[s] = h => ~Certain(s)'
  BY <1>4 DEF Certain, Subscribed
<1> QED
  BY <1>3, <1>4, <1>5, <1>6, NothingPromised

LEMMA HearFailsRoles ==
    ASSUME RolesInv, NEW h \in Hubs, HearFails(h)
    PROVE  RolesKnown' /\ OneAnswers'
<1>1. PresenceInv /\ TypeOK /\ bus[h] \in BusType
  BY DEF RolesInv, PresenceInv, TypeOK
<1>2. PICK d : d = Drained(h)
  OBVIOUS
<1>3. d.out = bus[h].out /\ d.missed = bus[h].missed /\ d.marking = bus[h].marking /\ d.raced = bus[h].raced
  BY <1>1, <1>2 DEF Drained, BusType
<1>4. /\ hub' = hub /\ bus' = [bus EXCEPT ![h] = d]
      /\ role' = role /\ sub' = sub /\ unsure' = unsure \cup Subscribed(sub, h)
  BY <1>2 DEF HearFails
<1>5. bus'[h] = d /\ \A g \in Hubs : g # h => hub'[g] = hub[g] /\ bus'[g] = bus[g]
  BY <1>1, <1>4 DEF TypeOK
<1>6. \A s \in Sockets : HubOf[s] = h => ~Certain(s)'
  BY <1>4 DEF Certain, Subscribed
<1>7. \A u : Told(bus[h], u) => Told(bus'[h], u)
  BY <1>3, <1>5 DEF Told, Owes
<1> QED
  BY <1>4, <1>5, <1>6, <1>7, NothingPromised

LEMMA CloseAllRoles ==
    ASSUME RolesInv, NEW h \in Hubs, CloseAll(h)
    PROVE  RolesKnown' /\ OneAnswers'
<1>1. PresenceInv /\ TypeOK
  BY DEF RolesInv, PresenceInv
<1>2. PICK c \in GoodBus : c = bus[h]
  BY <1>1, BusesGood DEF PresenceInv
<1>3. PICK b : b = IF hub[h].announced = {} THEN c ELSE Send(c, Reset(h))
  OBVIOUS
<1>4. PICK hb : hb = [NewHub EXCEPT !.mode = "closed"]
  OBVIOUS
<1>5. hb.run = None
  BY <1>4, NewFacts
<1>6. /\ hub' = [hub EXCEPT ![h] = hb] /\ bus' = [bus EXCEPT ![h] = b]
      /\ role' = role /\ unsure' = unsure /\ sub' = SocketsElsewhere(h)
  BY <1>2, <1>3, <1>4 DEF CloseAll
<1>7. hub'[h] = hb /\ bus'[h] = b /\ \A g \in Hubs : g # h => hub'[g] = hub[g] /\ bus'[g] = bus[g]
  BY <1>1, <1>6 DEF TypeOK
<1>8. \A u : Told(c, u) => Told(b, u)
  <2>1. PICK m \in MessageType : m = Reset(h)
    BY MessageFacts
  <2>2. b = c \/ b = Send(c, m)
    BY <1>3, <2>1
  <2> QED
    BY <2>2, SendTells
<1>9. /\ \A s \in Sockets : HubOf[s] = h => ~Certain(s)'
      /\ \A s \in Sockets : HubOf[s] # h => sub'[s] = sub[s] /\ (s \in unsure => s \in unsure')
  BY <1>6 DEF Certain, SocketsElsewhere
<1> QED
  BY <1>2, <1>5, <1>6, <1>7, <1>8, <1>9, NothingPromised

(* A process that ends takes what it had not sent with it. *)
LEMMA EndsRoles ==
    ASSUME RolesInv, NEW h \in Hubs, Ends(h)
    PROVE  RolesKnown' /\ OneAnswers'
<1>1. PresenceInv /\ TypeOK
  BY DEF RolesInv, PresenceInv
<1>2. PICK r \in BOOLEAN : r = bus[h].raced
  BY <1>1 DEF TypeOK, BusType
<1>3. PICK b : b = [NewBus EXCEPT !.raced = r]
  OBVIOUS
<1>4. PICK hb : hb = [NewHub EXCEPT !.mode = "gone"]
  OBVIOUS
<1>5. hb.run = None /\ b.raced = r
  BY <1>3, <1>4, NewFacts
<1>6. /\ hub' = [hub EXCEPT ![h] = hb] /\ bus' = [bus EXCEPT ![h] = b]
      /\ role' = role /\ sub' = SocketsElsewhere(h)
      /\ unsure' = IF bus[h].out = <<>> /\ ~bus[h].missed THEN unsure
                   ELSE unsure \cup {s \in Sockets : sub'[s] # None}
  BY <1>2, <1>3, <1>4 DEF Ends
<1>7. hub'[h] = hb /\ bus'[h] = b /\ \A g \in Hubs : g # h => hub'[g] = hub[g] /\ bus'[g] = bus[g]
  BY <1>1, <1>6 DEF TypeOK
<1>8. /\ \A s \in Sockets : HubOf[s] = h => ~Certain(s)'
      /\ \A s \in Sockets : HubOf[s] # h => sub'[s] = sub[s] /\ (s \in unsure => s \in unsure')
  BY <1>6 DEF Certain, SocketsElsewhere
<1>9. CASE bus[h].out = <<>> /\ ~bus[h].missed
  <2>1. \A u : Told(bus[h], u) => Told(b, u)
    BY <1>2, <1>5, <1>9, EmptyFacts DEF Told, Owes
  <2> QED
    BY <1>5, <1>6, <1>7, <1>8, <2>1, NothingPromised
<1>10. CASE ~(bus[h].out = <<>> /\ ~bus[h].missed)
  <2>1. RolesKnown'
    BY <1>6, <1>10 DEF RolesKnown, Certain
  <2>2. OneAnswer(None)
    BY DEF OneAnswer
  <2>3. OneAnswers'
    BY <1>5, <1>7, <2>2 DEF RolesInv, OneAnswers
  <2> QED
    BY <2>1, <2>3
<1> QED
  BY <1>9, <1>10

(* A step of h's bus, or one that resyncs h or adds to its re-checks. *)
LEMMA BusRoles ==
    ASSUME RolesInv, NEW h \in Hubs, NEW hb, NEW b,
           hub' = [hub EXCEPT ![h] = hb], bus' = [bus EXCEPT ![h] = b],
           role' = role, sub' = sub, unsure' = unsure,
           hb.run = hub[h].run,
           \A u \in Users : Told(bus[h], u) => Told(b, u),
           Subscribed(sub, h) # {} =>
              \A u \in Users : WillRecheck(hub[h], u) \/ WillHear(bus[h], u) => WillRecheck(hb, u) \/ WillHear(b, u)
    PROVE  RolesKnown' /\ OneAnswers'
<1>1. hub'[h] = hb /\ bus'[h] = b /\ \A g \in Hubs : g # h => hub'[g] = hub[g] /\ bus'[g] = bus[g]
  BY DEF RolesInv, PresenceInv, TypeOK
<1> QED
  BY <1>1, SteadyRoles

LEMMA OwnBusRoles ==
    ASSUME RolesInv, NEW h \in Hubs, MarkerSent(h) \/ GiveUp(h) \/ LoseConnection(h)
    PROVE  RolesKnown' /\ OneAnswers'
<1>1. hub = [hub EXCEPT ![h] = hub[h]]
  BY DEF RolesInv, PresenceInv, TypeOK
<1>2. PICK c \in GoodBus : c = bus[h]
  BY BusesGood DEF RolesInv, PresenceInv
<1>3. hub' = [hub EXCEPT ![h] = hub[h]] /\ role' = role /\ sub' = sub /\ unsure' = unsure
  BY <1>1 DEF MarkerSent, GiveUp, LoseConnection
<1>4. SUFFICES ASSUME NEW b, bus' = [bus EXCEPT ![h] = b],
                      \A u : Told(c, u) => Told(b, u), \A u : WillHear(c, u) => WillHear(b, u)
               PROVE  RolesKnown' /\ OneAnswers'
  <2>1. CASE MarkerSent(h)
    <3>1. PICK b : b = [c EXCEPT !.marking = FALSE, !.missed = FALSE]
      OBVIOUS
    <3>2. /\ b.out = c.out /\ b.inbox = c.inbox /\ b.raced = c.raced /\ b.lost = c.lost
          /\ b.connected = c.connected
      BY <3>1 DEF GoodBus, BusType
    <3>3. c.marking /\ bus' = [bus EXCEPT ![h] = b]
      BY <1>2, <2>1, <3>1 DEF MarkerSent
    <3>4. /\ \A u : Told(c, u) => Told(b, u)
          /\ \A u : WillHear(c, u) => WillHear(b, u)
      BY <3>2, <3>3 DEF Told, WillHear, Owes, Deaf
    <3> QED
      BY <1>4, <3>3, <3>4
  <2>2. CASE GiveUp(h)
    <3>1. PICK b : b = [c EXCEPT !.out = Tail(c.out), !.missed = TRUE]
      OBVIOUS
    <3>2. /\ b.inbox = c.inbox /\ b.lost = c.lost /\ b.connected = c.connected
          /\ b.missed /\ b.marking = c.marking
      BY <3>1 DEF GoodBus, BusType
    <3>3. ~c.marking /\ bus' = [bus EXCEPT ![h] = b]
      BY <1>2, <2>2, <3>1 DEF GiveUp, Sends
    <3>4. /\ \A u : Told(c, u) => Told(b, u)
          /\ \A u : WillHear(c, u) => WillHear(b, u)
      BY <3>2, <3>3 DEF Told, WillHear, Owes, Deaf
    <3> QED
      BY <1>4, <3>3, <3>4
  <2>3. CASE LoseConnection(h)
    <3>1. PICK b : b = [c EXCEPT !.connected = FALSE]
      OBVIOUS
    <3>2. /\ b.out = c.out /\ b.raced = c.raced /\ b.missed = c.missed /\ b.marking = c.marking
          /\ ~b.connected
      BY <3>1 DEF GoodBus, BusType
    <3>3. bus' = [bus EXCEPT ![h] = b]
      BY <1>2, <2>3, <3>1 DEF LoseConnection
    <3>4. /\ \A u : Told(c, u) => Told(b, u)
          /\ \A u : WillHear(c, u) => WillHear(b, u)
      BY <3>2 DEF Told, WillHear, Owes, Deaf
    <3> QED
      BY <1>4, <3>3, <3>4
  <2> QED
    BY <2>1, <2>2, <2>3
<1> QED
  BY <1>2, <1>3, <1>4, BusRoles

(* h says reset and its users, and re-checks everyone it has. *)
LEMMA ListeningRoles ==
    ASSUME RolesInv, NEW h \in Hubs, NEW b \in GoodBus, NEW reconnected \in BOOLEAN,
           Becomes(h, Listened(h, b, reconnected)),
           role' = role, sub' = sub, unsure' = unsure,
           \A u : Told(bus[h], u) => Told(b, u),
           reconnected \/ Subscribed(sub, h) = {}
    PROVE  RolesKnown' /\ OneAnswers'
<1>1. hub[h] \in HubType
  BY DEF RolesInv, PresenceInv, TypeOK
<1>2. PICK r : r = Listened(h, b, reconnected)
  OBVIOUS
<1>3. PICK m \in MessageType : m = Reset(h)
  BY MessageFacts
<1>4. PICK a \in GoodBus : a = Send(b, m)
  BY SendFacts
<1>5. /\ r.hub.run = hub[h].run
      /\ reconnected /\ Local(sub, h) # {} => r.hub.resyncs > 0
  BY <1>1, <1>2, <1>3, <1>4, ListenedFacts
<1>6. /\ Local(sub, h) = {} => r.bus = a
      /\ Local(sub, h) # {} => r.bus = Send(a, List(h, Local(sub, h)))
  BY <1>1, <1>2, <1>3, <1>4, ListenedFacts
<1>7. \A u : Told(b, u) => Told(r.bus, u)
  <2>1. PICK V \in SUBSET Users : V = Local(sub, h)
    BY LocalUsers
  <2>2. PICK l \in MessageType : l = List(h, V)
    BY MessageFacts
  <2>3. PICK d : d = r.bus
    OBVIOUS
  <2>4. d = a \/ d = Send(a, l)
    BY <1>6, <2>1, <2>2, <2>3
  <2>5. \A u : Told(b, u) => Told(a, u)
    BY <1>4, SendTells
  <2>6. \A u : Told(a, u) => Told(d, u)
    BY <2>4, SendTells
  <2> QED
    BY <2>3, <2>5, <2>6
<1>8. hub' = [hub EXCEPT ![h] = r.hub] /\ bus' = [bus EXCEPT ![h] = r.bus]
  BY <1>2 DEF Becomes
<1>9. Subscribed(sub, h) # {} => \A u : WillRecheck(r.hub, u)
  BY <1>5, LocalUsers DEF WillRecheck
<1> QED
  BY <1>5, <1>7, <1>8, <1>9, BusRoles

LEMMA ResyncAllRoles ==
    ASSUME RolesInv, NEW h \in Hubs, ResyncAll(h)
    PROVE  RolesKnown' /\ OneAnswers'
<1>1. role' = role /\ sub' = sub /\ unsure' = unsure
  BY DEF ResyncAll
<1>2. PICK c \in GoodBus : c = bus[h]
  BY BusesGood DEF RolesInv, PresenceInv
<1>3. SUFFICES ASSUME NEW b \in GoodBus, Becomes(h, Listened(h, b, TRUE)), \A u : Told(c, u) => Told(b, u)
               PROVE  RolesKnown' /\ OneAnswers'
  <2>1. CASE /\ bus[h].inbox # <<>> /\ NextHeard(h).kind = "marker"
             /\ Becomes(h, Listened(h, Drained(h), TRUE))
    <3>1. PICK b : b = [c EXCEPT !.inbox = Tail(c.inbox)]
      OBVIOUS
    <3>2. PICK q \in Seq(MessageType) : q = c.inbox /\ q # <<>>
      BY <1>2, <2>1, BusFields
    <3>3. PICK t \in Seq(MessageType) : t = Tail(q) /\ Len(t) <= InboxLimit
      <4>1. Tail(q) \in Seq(MessageType) /\ Len(Tail(q)) = Len(q) - 1 /\ Len(q) \in Nat
        BY <3>2, TailFacts
      <4>2. Len(q) <= InboxLimit /\ InboxLimit \in Nat
        BY <3>2, BusFields, LimitAssumption
      <4>3. Len(Tail(q)) <= InboxLimit
        BY <4>1, <4>2
      <4> QED
        BY <4>1, <4>3
    <3>4. /\ b \in BusType /\ b.inbox = t /\ b.out = c.out /\ b.missed = c.missed
          /\ b.marking = c.marking /\ b.raced = c.raced
      BY <3>1, <3>2, <3>3 DEF GoodBus, BusType
    <3>5. b \in GoodBus /\ \A u : Told(c, u) => Told(b, u)
      BY <3>3, <3>4 DEF GoodBus, Told, Owes
    <3>6. Becomes(h, Listened(h, b, TRUE))
      BY <1>2, <2>1, <3>1 DEF Drained
    <3> QED
      BY <1>3, <3>5, <3>6
  <2>2. CASE /\ bus[h].inbox = <<>> /\ bus[h].lost
             /\ Becomes(h, Listened(h, [bus[h] EXCEPT !.lost = FALSE], TRUE))
    <3>1. PICK b : b = [c EXCEPT !.lost = FALSE]
      OBVIOUS
    <3>2. /\ b \in BusType /\ b.inbox = c.inbox /\ b.out = c.out /\ b.missed = c.missed
          /\ b.marking = c.marking /\ b.raced = c.raced
      BY <3>1 DEF GoodBus, BusType
    <3>3. b \in GoodBus /\ \A u : Told(c, u) => Told(b, u)
      BY <3>2 DEF GoodBus, Told, Owes
    <3>4. Becomes(h, Listened(h, b, TRUE))
      BY <1>2, <2>2, <3>1
    <3> QED
      BY <1>3, <3>3, <3>4
  <2> QED
    BY <2>1, <2>2 DEF ResyncAll
<1>4. TRUE \in BOOLEAN
  OBVIOUS
<1> QED
  BY <1>1, <1>2, <1>3, <1>4, ListeningRoles

LEMMA ListenRoles ==
    ASSUME RolesInv, NEW h \in Hubs, Listen(h)
    PROVE  RolesKnown' /\ OneAnswers'
<1>1. role' = role /\ sub' = sub /\ unsure' = unsure
  BY DEF Listen
<1>2. PICK c \in GoodBus : c = bus[h]
  BY BusesGood DEF RolesInv, PresenceInv
<1>3. PICK d : d = [c EXCEPT !.connected = TRUE, !.raced = c.raced \/ c.inbox # <<>>]
  OBVIOUS
<1>4. /\ d \in BusType /\ d.inbox = c.inbox /\ d.out = c.out /\ d.marking = c.marking /\ d.missed = c.missed
      /\ c.raced => d.raced
  BY <1>3 DEF GoodBus, BusType
<1>5. d \in GoodBus /\ \A u : Told(c, u) => Told(d, u)
  BY <1>4 DEF GoodBus, Told, Owes
<1>6. PICK reconnected \in BOOLEAN : reconnected = Up(h)
  BY DEF Up
<1>7. Becomes(h, Listened(h, d, reconnected))
  BY <1>2, <1>3, <1>6 DEF Listen
<1>8. reconnected \/ Subscribed(sub, h) = {}
  BY <1>6 DEF RolesInv, PresenceInv, SocketsUp, Subscribed
<1> QED
  BY <1>1, <1>2, <1>5, <1>7, <1>8, ListeningRoles

(* A change that is heard is re-checked. *)
LEMMA HearRoles ==
    ASSUME RolesInv, NEW h \in Hubs, Hear(h)
    PROVE  RolesKnown' /\ OneAnswers'
<1>1. PresenceInv /\ TypeOK /\ hub[h] \in HubType /\ hub[h].remote \in [Hubs -> SUBSET Users]
  BY HubUpdates DEF RolesInv, PresenceInv, TypeOK
<1>2. PICK c \in GoodBus : c = bus[h]
  BY <1>1, BusesGood DEF PresenceInv
<1>3. PICK q \in Seq(MessageType) : q = c.inbox /\ q # <<>>
  BY <1>2, BusFields DEF Hear
<1>4. PICK m \in MessageType : m = Head(q) /\ m = NextHeard(h)
  BY <1>2, <1>3, TailFacts DEF NextHeard
<1>5. PICK t \in Seq(MessageType) : t = Tail(q) /\ Len(t) <= InboxLimit
  <2>1. Tail(q) \in Seq(MessageType) /\ Len(Tail(q)) = Len(q) - 1 /\ Len(q) \in Nat
    BY <1>3, TailFacts
  <2>2. Len(q) <= InboxLimit /\ InboxLimit \in Nat
    BY <1>3, BusFields, LimitAssumption
  <2>3. Len(Tail(q)) <= InboxLimit
    BY <2>1, <2>2
  <2> QED
    BY <2>1, <2>3
<1>6. PICK d : d = [c EXCEPT !.inbox = t]
  OBVIOUS
<1>7. /\ d \in BusType /\ d.inbox = t /\ d.out = c.out /\ d.missed = c.missed
      /\ d.marking = c.marking /\ d.raced = c.raced /\ d.lost = c.lost /\ d.connected = c.connected
  BY <1>6 DEF GoodBus, BusType
<1>8. d \in GoodBus /\ d = Drained(h)
  BY <1>2, <1>3, <1>5, <1>6, <1>7 DEF GoodBus, Drained
<1>9. /\ \A u : Told(c, u) => Told(d, u)
      /\ \A u : WillHear(c, u) => WillHear(d, u) \/ m = Access(u) \/ m = Marker
  <2>1. \A n : Contains(q, n) <=> Contains(t, n) \/ n = m
    BY <1>3, <1>4, <1>5, TailTells
  <2> QED
    BY <1>3, <1>7, <2>1 DEF Told, WillHear, Owes, Deaf
<1>10. /\ role' = role /\ sub' = sub /\ unsure' = unsure
       /\ \/ m.kind = "list" /\ Becomes(h, [hub |-> [hub[h] EXCEPT !.remote[m.holder] = m.users], bus |-> d])
          \/ m.kind = "reset" /\ Becomes(h, PresenceReset(h, m.holder, d))
          \/ m.kind = "access" /\ Becomes(h, [hub |-> AccessChanged(h, hub[h], {m.user}), bus |-> d])
  BY <1>4, <1>8 DEF Hear
<1>11. CASE m.kind = "list" /\ Becomes(h, [hub |-> [hub[h] EXCEPT !.remote[m.holder] = m.users], bus |-> d])
  <2>1. PICK hb : hb = [hub[h] EXCEPT !.remote[m.holder] = m.users]
    OBVIOUS
  <2>2. PICK r : r = [hub[h].remote EXCEPT ![m.holder] = m.users]
    OBVIOUS
  <2>3. hb = [hub[h] EXCEPT !.remote = r]
    BY <1>1, <2>1, <2>2 DEF HubType
  <2>4. hb.run = hub[h].run /\ hb.resyncs = hub[h].resyncs /\ hb.rechecks = hub[h].rechecks
    BY <1>1, <2>3 DEF HubType
  <2>5. hub' = [hub EXCEPT ![h] = hb] /\ bus' = [bus EXCEPT ![h] = d]
    BY <1>11, <2>1 DEF Becomes
  <2>6. \A u : WillHear(c, u) => WillHear(d, u)
    BY <1>9, <1>11 DEF Access, Marker
  <2>7. \A u : WillRecheck(hub[h], u) => WillRecheck(hb, u)
    BY <2>4 DEF WillRecheck
  <2> QED
    BY <1>2, <1>9, <1>10, <2>4, <2>5, <2>6, <2>7, BusRoles
<1>12. CASE m.kind = "reset" /\ Becomes(h, PresenceReset(h, m.holder, d))
  <2>1. PICK g \in Hubs : g = m.holder
    BY <1>12, KindFacts
  <2>2. PICK mm \in [Hubs -> SUBSET Users] : mm = [hub[h].remote EXCEPT ![g] = {}]
    BY <1>1
  <2>3. PICK hb : hb = [hub[h] EXCEPT !.remote = mm]
    OBVIOUS
  <2>4. /\ hb \in HubType /\ hb.run = hub[h].run /\ hb.resyncs = hub[h].resyncs
        /\ hb.rechecks = hub[h].rechecks
    BY <1>1, <2>2, <2>3 DEF HubType
  <2>5. PICK r : r = AnnounceAgain(h, hb, d)
    OBVIOUS
  <2>6. hub' = [hub EXCEPT ![h] = r.hub] /\ bus' = [bus EXCEPT ![h] = r.bus]
    BY <1>1, <1>12, <2>1, <2>2, <2>3, <2>5 DEF Becomes, PresenceReset, HubType
  <2>7. /\ SameButAnnounced(r.hub, hb)
        /\ Local(sub, h) = {} => r.bus = d
        /\ Local(sub, h) # {} => r.bus = Send(d, List(h, Local(sub, h)))
    BY <1>8, <2>4, <2>5, AnnounceAgainFacts
  <2>8. \A u : (Told(d, u) => Told(r.bus, u)) /\ (WillHear(d, u) => WillHear(r.bus, u))
    <3>1. PICK V \in SUBSET Users : V = Local(sub, h)
      BY LocalUsers
    <3>2. PICK l \in MessageType : l = List(h, V)
      BY MessageFacts
    <3>3. PICK e : e = r.bus
      OBVIOUS
    <3>4. e = d \/ e = Send(d, l)
      BY <2>7, <3>1, <3>2, <3>3
    <3>5. \A u : (Told(d, u) => Told(e, u)) /\ (WillHear(d, u) => WillHear(e, u))
      BY <1>8, <3>4, SendTells
    <3> QED
      BY <3>3, <3>5
  <2>9. \A u : WillHear(c, u) => WillHear(d, u)
    BY <1>9, <1>12 DEF Access, Marker
  <2>10. r.hub.run = hub[h].run /\ \A u : WillRecheck(hub[h], u) => WillRecheck(r.hub, u)
    BY <2>4, <2>7 DEF WillRecheck, SameButAnnounced
  <2> QED
    BY <1>2, <1>9, <1>10, <2>6, <2>8, <2>9, <2>10, BusRoles
<1>13. CASE m.kind = "access" /\ Becomes(h, [hub |-> AccessChanged(h, hub[h], {m.user}), bus |-> d])
  <2>1. m.user \in Users /\ m # Marker /\ \A u : m = Access(u) => u = m.user
    BY <1>13, KindFacts DEF Access, Marker
  <2>2. PICK hb : hb = AccessChanged(h, hub[h], {m.user})
    OBVIOUS
  <2>3. {m.user} \in SUBSET Users
    BY <2>1
  <2>4. /\ hb.run = hub[h].run
        /\ \A u : WillRecheck(hub[h], u) => WillRecheck(hb, u)
        /\ Subscribed(sub, h) # {} => \A u \in {m.user} : WillRecheck(hb, u)
    <3>1. PICK old \in HubType : old = hub[h]
      BY <1>1
    <3>2. PICK scope \in SUBSET Users : scope = {m.user}
      BY <2>3
    <3>3. hb = AccessChanged(h, old, scope)
      BY <2>2, <3>1, <3>2
    <3>4. /\ hb.run = old.run
          /\ \A u : WillRecheck(old, u) => WillRecheck(hb, u)
          /\ Subscribed(sub, h) # {} => \A u \in scope : WillRecheck(hb, u)
      BY <3>3, AccessChangedRoles
    <3> QED
      BY <3>1, <3>2, <3>4
  <2>5. hub' = [hub EXCEPT ![h] = hb] /\ bus' = [bus EXCEPT ![h] = d]
    BY <1>13, <2>2 DEF Becomes
  <2>6. Subscribed(sub, h) # {} => \A u : WillHear(c, u) => WillHear(d, u) \/ WillRecheck(hb, u)
    BY <1>9, <2>1, <2>4
  <2> QED
    BY <1>2, <1>9, <1>10, <2>4, <2>5, <2>6, BusRoles
<1> QED
  BY <1>10, <1>11, <1>12, <1>13

(* A change is re-checked here, and the others are told of it. *)
LEMMA ChangeRoleRoles ==
    ASSUME RolesInv, NEW h \in Hubs, NEW u \in Users, NEW r \in Roles, ChangeRole(h, u, r)
    PROVE  RolesKnown' /\ OneAnswers'
<1>1. PresenceInv /\ TypeOK /\ hub[h] \in HubType
  BY DEF RolesInv, PresenceInv, TypeOK
<1>2. PICK c \in GoodBus : c = bus[h]
  BY <1>1, BusesGood DEF PresenceInv
<1>3. PICK m \in MessageType : m = Access(u)
  BY MessageFacts
<1>4. PICK b : b = Send(c, m)
  OBVIOUS
<1>5. PICK hb : hb = AccessChanged(h, hub[h], {u})
  OBVIOUS
<1>6. /\ hub' = [hub EXCEPT ![h] = hb] /\ bus' = [bus EXCEPT ![h] = b]
      /\ sub' = sub /\ unsure' = unsure /\ role' = [role EXCEPT ![u] = r]
  BY <1>2, <1>3, <1>4, <1>5 DEF ChangeRole
<1>7. /\ hub'[h] = hb /\ bus'[h] = b /\ \A g \in Hubs : g # h => hub'[g] = hub[g] /\ bus'[g] = bus[g]
      /\ \A v \in Users : v # u => role'[v] = role[v]
  BY <1>1, <1>6 DEF TypeOK
<1>8. /\ hb.run = hub[h].run
      /\ \A v : WillRecheck(hub[h], v) => WillRecheck(hb, v)
      /\ Subscribed(sub, h) # {} => \A v \in {u} : WillRecheck(hb, v)
  <2>1. PICK old \in HubType : old = hub[h]
    BY <1>1
  <2>2. PICK scope \in SUBSET Users : scope = {u}
    OBVIOUS
  <2>3. hb = AccessChanged(h, old, scope)
    BY <1>5, <2>1, <2>2
  <2>4. /\ hb.run = old.run
        /\ \A v : WillRecheck(old, v) => WillRecheck(hb, v)
        /\ Subscribed(sub, h) # {} => \A v \in scope : WillRecheck(hb, v)
    BY <2>3, AccessChangedRoles
  <2> QED
    BY <2>1, <2>2, <2>4
<1>9. /\ \A v : (Told(c, v) => Told(b, v)) /\ (WillHear(c, v) => WillHear(b, v))
      /\ Told(b, u)
  <2>1. Contains(b.out, m)
    BY <1>4, SendFacts
  <2> QED
    BY <1>3, <1>4, <2>1, SendTells DEF Told
<1>10. \A g \in Hubs : hub'[g].run = hub[g].run
  BY <1>7, <1>8
<1>11. ASSUME NEW s \in Sockets, Certain(s)' PROVE RightInTheEnd(s)'
  <2>1. /\ Certain(s) /\ RightInTheEnd(s) /\ HubOf[s] \in Hubs /\ UserOf[s] \in Users
        /\ s \in Subscribed(sub, HubOf[s])
    BY <1>6, <1>11, SocketAssumption DEF Certain, RolesInv, RolesKnown, Subscribed
  <2>2. CASE UserOf[s] = u
    <3>1. CASE HubOf[s] = h
      BY <1>7, <1>8, <2>1, <2>2, <3>1 DEF RightInTheEnd, Due
    <3>2. CASE HubOf[s] # h
      BY <1>7, <1>9, <2>1, <2>2, <3>2 DEF RightInTheEnd, Due
    <3> QED
      BY <3>1, <3>2
  <2>3. CASE UserOf[s] # u
    <3>1. Due(HubOf[s], UserOf[s]) => Due(HubOf[s], UserOf[s])'
      <4>1. CASE HubOf[s] = h
        BY <1>2, <1>7, <1>8, <1>9, <4>1 DEF Due
      <4>2. CASE HubOf[s] # h
        BY <1>2, <1>7, <1>9, <2>1, <4>2 DEF Due
      <4> QED
        BY <4>1, <4>2
    <3>2. role'[UserOf[s]] = role[UserOf[s]] /\ sub'[s] = sub[s] /\ hub'[HubOf[s]].run = hub[HubOf[s]].run
      BY <1>6, <1>7, <1>10, <2>1, <2>3
    <3> QED
      BY <2>1, <3>1, <3>2 DEF RightInTheEnd
  <2> QED
    BY <2>2, <2>3
<1>12. OneAnswers'
  BY <1>10 DEF RolesInv, OneAnswers
<1> QED
  BY <1>11, <1>12 DEF RolesKnown

(* What h carries is heard by whoever listens; the others will resync.     *)
LEMMA CarriesRoles ==
    ASSUME RolesInv, NEW h \in Hubs, NEW m \in MessageType, NEW b, Carry(h, m, b),
           hub' = hub, sub' = sub, role' = role, unsure' = unsure,
           \A u : WillHear(bus[h], u) => WillHear(b, u),
           \A u : Told(bus[h], u) => Told(b, u) \/ m = Access(u) \/ m = Marker
    PROVE  RolesKnown' /\ OneAnswers'
<1>1. /\ bus'[h] = b
      /\ \A g \in Hubs : g # h => bus'[g] = IF bus[g].connected THEN Heard(bus[g], m) ELSE bus[g]
  BY DEF Carry
<1>2. ASSUME NEW g \in Hubs, g # h
      PROVE  /\ \A u : Told(bus[g], u) => Told(bus'[g], u)
             /\ \A u : WillHear(bus[g], u) \/ m = Access(u) \/ m = Marker => WillHear(bus'[g], u)
  <2>1. PICK c \in GoodBus : c = bus[g]
    BY BusesGood DEF RolesInv, PresenceInv
  <2>2. PICK e : e = bus'[g]
    OBVIOUS
  <2>3. CASE c.connected
    <3>1. e = Heard(c, m)
      BY <1>1, <1>2, <2>1, <2>2, <2>3
    <3>2. /\ e.out = c.out /\ Owes(e) = Owes(c) /\ (Deaf(c) => Deaf(e))
          /\ Contains(e.inbox, m)
          /\ \A n : Contains(c.inbox, n) => e.lost \/ Contains(e.inbox, n)
      BY <3>1, HeardFacts
    <3>3. /\ \A u : Told(c, u) => Told(e, u)
          /\ \A u : WillHear(c, u) \/ m = Access(u) \/ m = Marker => WillHear(e, u)
      BY <3>2 DEF Told, WillHear, Deaf
    <3> QED
      BY <2>1, <2>2, <3>3
  <2>4. CASE ~c.connected
    <3>1. e = c
      BY <1>1, <1>2, <2>1, <2>2, <2>4
    <3>2. \A u : WillHear(e, u)
      BY <2>4, <3>1 DEF WillHear, Deaf
    <3> QED
      BY <2>1, <2>2, <3>1, <3>2
  <2> QED
    BY <2>3, <2>4
<1>3. ASSUME NEW k \in Hubs, NEW u, Due(k, u) PROVE Due(k, u)'
  <2>1. CASE WillRecheck(hub[k], u)
    BY <2>1 DEF Due
  <2>2. CASE WillHear(bus[k], u)
    BY <1>1, <1>2, <2>2 DEF Due
  <2>3. CASE \E g \in Hubs : g # k /\ Told(bus[g], u)
    <3>1. PICK g \in Hubs : g # k /\ Told(bus[g], u)
      BY <2>3
    <3>2. CASE g # h
      BY <1>2, <3>1, <3>2 DEF Due
    <3>3. CASE g = h
      <4>1. Told(bus'[h], u) \/ WillHear(bus'[k], u)
        BY <1>1, <1>2, <3>1, <3>3
      <4> QED
        BY <3>1, <3>3, <4>1 DEF Due
    <3> QED
      BY <3>2, <3>3
  <2> QED
    BY <1>3, <2>1, <2>2, <2>3 DEF Due
<1>4. ASSUME NEW s \in Sockets, Certain(s)' PROVE RightInTheEnd(s)'
  <2>1. Certain(s) /\ RightInTheEnd(s) /\ HubOf[s] \in Hubs
    BY <1>4, SocketAssumption DEF Certain, RolesInv, RolesKnown
  <2>2. Due(HubOf[s], UserOf[s]) => Due(HubOf[s], UserOf[s])'
    BY <1>3, <2>1
  <2> QED
    BY <2>1, <2>2 DEF RightInTheEnd
<1>5. OneAnswers'
  BY DEF RolesInv, OneAnswers
<1> QED
  BY <1>4, <1>5 DEF RolesKnown

LEMMA PumpRoles ==
    ASSUME RolesInv, NEW h \in Hubs, Pump(h)
    PROVE  RolesKnown' /\ OneAnswers'
<1>1. PICK c \in GoodBus : c = bus[h]
  BY BusesGood DEF RolesInv, PresenceInv
<1>2. PICK q \in Seq(MessageType) : q = c.out /\ q # <<>>
  BY <1>1, BusFields DEF Pump
<1>3. PICK m \in MessageType : m = Head(q)
  BY <1>2, TailFacts
<1>4. PICK b : b = [c EXCEPT !.out = Tail(c.out)]
  OBVIOUS
<1>5. /\ b.out = Tail(q) /\ b.inbox = c.inbox /\ b.missed = c.missed /\ b.marking = c.marking
      /\ b.raced = c.raced /\ b.lost = c.lost /\ b.connected = c.connected
  BY <1>2, <1>4 DEF GoodBus, BusType
<1>6. /\ Carry(h, m, b) /\ hub' = hub /\ sub' = sub /\ role' = role /\ unsure' = unsure
  BY <1>1, <1>2, <1>3, <1>4 DEF Pump
<1>7. \A n : Contains(q, n) <=> Contains(Tail(q), n) \/ n = m
  BY <1>2, <1>3, TailTells
<1>8. \A u : Told(c, u) => Told(b, u) \/ m = Access(u)
  BY <1>2, <1>5, <1>7 DEF Told, Owes
<1>9. \A u : WillHear(c, u) => WillHear(b, u)
  BY <1>5 DEF WillHear, Deaf
<1> QED
  BY <1>1, <1>6, <1>8, <1>9, CarriesRoles

LEMMA PumpMarkerRoles ==
    ASSUME RolesInv, NEW h \in Hubs, PumpMarker(h)
    PROVE  RolesKnown' /\ OneAnswers'
<1>1. PICK c \in GoodBus : c = bus[h]
  BY BusesGood DEF RolesInv, PresenceInv
<1>2. PICK m \in MessageType : m = Marker
  BY MessageFacts
<1>3. PICK b : b = [c EXCEPT !.marking = TRUE]
  OBVIOUS
<1>4. b.inbox = c.inbox /\ b.lost = c.lost /\ b.connected = c.connected
  BY <1>3 DEF GoodBus, BusType
<1>5. Carry(h, m, b) /\ hub' = hub /\ sub' = sub /\ role' = role /\ unsure' = unsure
  BY <1>1, <1>2, <1>3 DEF PumpMarker
<1>6. \A u : WillHear(c, u) => WillHear(b, u)
  BY <1>4 DEF WillHear, Deaf
<1> QED
  BY <1>1, <1>2, <1>5, <1>6, CarriesRoles

---------------------------------------------------------------------------
(* The theorem on roles *)

LEMMA InitRoles == Init => RolesInv
<1> SUFFICES ASSUME Init PROVE RolesInv
  OBVIOUS
<1>1. RolesKnown
  BY DEF Init, RolesKnown, Certain
<1>2. OneAnswers
  BY DEF Init, NewHub, OneAnswers, OneAnswer
<1> QED
  BY <1>1, <1>2, InitPresence DEF RolesInv

LEMMA StepRoles == RolesInv /\ [Next]_vars => RolesInv'
<1> SUFFICES ASSUME RolesInv, [Next]_vars PROVE RolesKnown' /\ OneAnswers'
  BY StepKnows DEF RolesInv
<1>1. CASE UNCHANGED vars
  <2>1. \A h, u : Due(h, u) <=> Due(h, u)'
    BY <1>1 DEF vars, Due
  <2> QED
    BY <1>1, <2>1 DEF vars, RolesInv, RolesKnown, OneAnswers, Certain, RightInTheEnd
<1>2. ASSUME NEW h \in Hubs,
             \/ BusStep(h) \/ HubStep(h)
             \/ GiveUp(h) \/ HearFails(h) \/ LoseConnection(h) \/ RecheckFails(h) \/ CloseAll(h) \/ Ends(h)
             \/ \E u \in Users, r \in Roles : ChangeRole(h, u, r)
      PROVE  RolesKnown' /\ OneAnswers'
  <2>1. BusStep(h) => RolesKnown' /\ OneAnswers'
    BY PumpMarkerRoles, OwnBusRoles, PumpRoles, HearRoles, ResyncAllRoles, ListenRoles DEF BusStep
  <2>2. HubStep(h) => RolesKnown' /\ OneAnswers'
    BY ResyncEndsRoles, KeepHoldersRoles, RecheckBeginsRoles, ApplyRolesRoles, RecheckAsksRoles DEF HubStep
  <2>3. GiveUp(h) \/ LoseConnection(h) => RolesKnown' /\ OneAnswers'
    BY OwnBusRoles
  <2>4. HearFails(h) \/ RecheckFails(h) \/ CloseAll(h) \/ Ends(h) => RolesKnown' /\ OneAnswers'
    BY HearFailsRoles, RecheckFailsRoles, CloseAllRoles, EndsRoles
  <2>5. (\E u \in Users, r \in Roles : ChangeRole(h, u, r)) => RolesKnown' /\ OneAnswers'
    BY ChangeRoleRoles
  <2> QED
    BY <1>2, <2>1, <2>2, <2>3, <2>4, <2>5
<1>3. ASSUME NEW s \in Sockets, Subscribe(s) \/ Admit(s) \/ Leave(s) PROVE RolesKnown' /\ OneAnswers'
  BY <1>3, SubscribeRoles, AdmitRoles, LeaveRoles
<1> QED
  BY <1>1, <1>2, <1>3 DEF Next

(* The invariant: a subscription at a role its user no longer has is one   *)
(* that a re-check will reach, whatever the bus loses.                     *)
THEOREM RolesKept == Spec => []RolesInv
  BY InitRoles, StepRoles, PTL DEF Spec

(* "re-check on every access change": once the bus and a hub are quiet,    *)
(* its subscriptions have their users' roles, but for those admitted on an *)
(* answer from before the change, those whose re-check failed, and those   *)
(* whom a process that ended had not told.                                 *)
THEOREM RolesHold == Spec => []RolesAgree
<1>1. RolesInv => RolesAgree
  <2> SUFFICES ASSUME RolesInv, BusQuiet, NEW s \in Sockets, HubQuiet(HubOf[s]),
                      s \in Subscribed(sub, HubOf[s]), s \notin unsure
               PROVE  sub[s].role = role[UserOf[s]]
    BY DEF RolesAgree
  <2>1. PICK h \in Hubs : h = HubOf[s]
    BY SocketAssumption
  <2>2. Certain(s) /\ RightInTheEnd(s)
    BY DEF Subscribed, Certain, RolesInv, RolesKnown
  <2>3. hub[h].rechecks = <<>> /\ hub[h].run = None /\ hub[h].resyncs = 0
    BY <2>1 DEF HubQuiet
  <2>4. Up(h)
    BY <2>1, <2>2 DEF Certain, RolesInv, PresenceInv, SocketsUp
  <2>5. \A g \in Hubs : bus[g].out = <<>> /\ ~Owes(bus[g])
    BY DEF BusQuiet, Owes
  <2>6. bus[h].inbox = <<>> /\ ~Deaf(bus[h])
    BY <2>4 DEF BusQuiet, Deaf
  <2>7. \A u : ~WillHear(bus[h], u) /\ \A g \in Hubs : ~Told(bus[g], u)
    BY <2>5, <2>6, EmptyFacts DEF WillHear, Told
  <2>8. \A u : ~WillRecheck(hub[h], u)
    <3>1. DOMAIN <<>> = {}
      BY EmptySeq, LenProperties
    <3> QED
      BY <2>3, <3>1 DEF WillRecheck
  <2>9. \A u, r : ~Due(h, u) /\ ~Brings(hub[h].run, u, r)
    BY <2>3, <2>7, <2>8 DEF Due, Brings
  <2> QED
    BY <2>1, <2>2, <2>9 DEF RightInTheEnd
<1> QED
  BY <1>1, RolesKept, PTL
=============================================================================
