------------------------- MODULE AlertOutboxProofs -------------------------
(***************************************************************************)
(* One delivery of an alert at a time, bounded deliveries, rows that tell  *)
(* the truth and failures that are told, for any number of servers, alerts *)
(* and faults, and for any lease longer than a pass.                       *)
(***************************************************************************)
EXTENDS AlertOutbox, TLAPS

(* A row in delivery is leased for longer than its delivery may last; the  *)
(* delivery knows the row's attempts, and its result is what happened.     *)
SendTrue(m) ==
    /\ row[m.row] # NoRow
    /\ row[m.row].state = "pending"
    /\ m.left < row[m.row].wait
    /\ m.attempts = row[m.row].attempts
    /\ m.result = "arrived" => tried[m.row].arrived
    /\ m.result = "failed" => m.attempts < tried[m.row].failed
SendsTrue == \A m \in sends : SendTrue(m)

RowTrue(r) ==
    /\ row[r] = NoRow => tried[r].sent = 0
    /\ row[r] # NoRow =>
          /\ row[r].state = "pending" => row[r].attempts < MaxAttempts
          /\ row[r].state = "delivered" => tried[r].arrived
          /\ row[r].state # "delivered" => row[r].attempts =< tried[r].failed
          /\ row[r].state = "dead" => row[r].attempts = MaxAttempts
RowsTrue == \A r \in Rows : RowTrue(r)

(* Every delivery is counted in the row, excused, or one that a pass waits *)
(* for.                                                                    *)
AwaitedIn(r, S, W) == \E m \in S : m.row = r /\ r \in W[m.server]
Counted(r) ==
    row[r] # NoRow =>
        tried[r].sent =< row[r].attempts + tried[r].lost + (IF AwaitedIn(r, sends, passing) THEN 1 ELSE 0)
AllCounted == \A r \in Rows : Counted(r)

AlertInv == TypeOK /\ OneSender /\ SendsTrue /\ RowsTrue /\ AllCounted /\ FailingIsTold

---------------------------------------------------------------------------
(* The records of the tables, and their updates. *)
LEMMA RowUpdates ==
    ASSUME NEW s \in RowType
    PROVE  /\ s # NoRow
           /\ \A w \in Nat : [s EXCEPT !.wait = w] \in RowType
           /\ s.attempts < MaxAttempts => AfterSuccess(s) \in RowType
           /\ \A a \in 0..MaxAttempts, w \in Nat : AfterFailure(s, a, w) \in RowType
<1>1. s # NoRow
  BY AbsentAssumption
<1>2. \A w \in Nat : [s EXCEPT !.wait = w] \in RowType
  BY DEF RowType
<1>3. ASSUME s.attempts < MaxAttempts
      PROVE  AfterSuccess(s) \in RowType
  <2>1. s.attempts \in 0..MaxAttempts /\ s.attempts + 1 \in 0..MaxAttempts
    BY <1>3, BoundsAssumption DEF RowType
  <2>2. AfterSuccess(s) = [s EXCEPT !.state = "delivered", !.attempts = s.attempts + 1]
    BY DEF AfterSuccess, RowType
  <2> QED
    BY <2>1, <2>2 DEF RowType
<1>4. ASSUME NEW a \in 0..MaxAttempts, NEW w \in Nat
      PROVE  AfterFailure(s, a, w) \in RowType
  BY BoundsAssumption DEF AfterFailure, RowType
<1> QED
  BY <1>1, <1>2, <1>3, <1>4

LEMMA TriedUpdates ==
    /\ Untried \in TriedType
    /\ \A t \in TriedType :
          /\ [t EXCEPT !.sent = @ + 1] \in TriedType
          /\ [t EXCEPT !.lost = @ + 1] \in TriedType
          /\ \A b \in BOOLEAN, f \in Nat : [t EXCEPT !.arrived = b, !.failed = f] \in TriedType
<1>1. Untried \in TriedType
  BY DEF Untried, TriedType
<1>2. ASSUME NEW t \in TriedType
      PROVE  [t EXCEPT !.sent = @ + 1] \in TriedType /\ [t EXCEPT !.lost = @ + 1] \in TriedType
  BY DEF TriedType
<1>3. ASSUME NEW t \in TriedType, NEW b \in BOOLEAN, NEW f \in Nat
      PROVE  [t EXCEPT !.arrived = b, !.failed = f] \in TriedType
  BY DEF TriedType
<1> QED
  BY <1>1, <1>2, <1>3

LEMMA InitInv == Init => AlertInv
<1> SUFFICES ASSUME Init PROVE AlertInv
  OBVIOUS
<1>1. TypeOK
  BY TriedUpdates DEF Init, TypeOK
<1>2. OneSender /\ SendsTrue /\ FailingIsTold
  BY DEF Init, OneSender, SendsTrue, FailingIsTold
<1>3. RowsTrue /\ AllCounted
  BY DEF Init, RowsTrue, RowTrue, AllCounted, Counted, Untried
<1> QED
  BY <1>1, <1>2, <1>3 DEF AlertInv

(* Steps that leave the alert state alone keep what was told. *)
LEMMA ToldKept ==
    ASSUME FailingIsTold, UNCHANGED queueing
    PROVE  FailingIsTold'
  BY DEF FailingIsTold, queueing

(* A run ends: the alert's new row has no delivery and was never tried. *)
LEMMA RunEndsKeeps ==
    ASSUME AlertInv, NEW o \in Outcomes, NEW r \in Rows, RunEnds(o, r)
    PROVE  AlertInv'
<1> DEFINE d == DecideAlert(o)
           fresh == [state |-> "pending", attempts |-> 0, wait |-> 0]
<1>0. TypeOK /\ OneSender /\ SendsTrue /\ RowsTrue /\ AllCounted /\ FailingIsTold
  BY DEF AlertInv
<1>1. /\ alert' = d.next
      /\ active' = active /\ mode' = mode /\ sends' = sends /\ passing' = passing /\ faults' = faults
  BY DEF RunEnds, workers
<1>2. Streak \in Nat
  BY <1>0 DEF Streak, TypeOK
<1>3. d.next \in [state : {"ok", "failing"}, streak : Nat]
  BY <1>0, <1>2, BoundsAssumption DEF DecideAlert, TypeOK
<1>4. CASE d.send = "nothing" /\ UNCHANGED <<row, told, tried>>
  <2>1. TypeOK'
    BY <1>0, <1>1, <1>3, <1>4 DEF TypeOK
  <2>2. OneSender' /\ SendsTrue' /\ RowsTrue' /\ AllCounted'
    BY <1>0, <1>1, <1>4 DEF OneSender, SendsTrue, SendTrue, RowsTrue, RowTrue, AllCounted, Counted, AwaitedIn
  <2>3. FailingIsTold'
    <3>1. CASE alert.state = "failing"
      BY <1>0, <1>4, <3>1 DEF FailingIsTold
    <3>2. CASE alert.state # "failing"
      <4>1. Streak = 1
        BY <3>2 DEF Streak
      <4>2. o # "failed"
        BY <1>4, <4>1, BoundsAssumption DEF DecideAlert
      <4>3. alert' = alert
        BY <1>1, <3>2, <4>2 DEF DecideAlert
      <4> QED
        BY <3>2, <4>3 DEF FailingIsTold
    <3> QED
      BY <3>1, <3>2
  <2> QED
    BY <2>1, <2>2, <2>3 DEF AlertInv
<1>5. CASE /\ d.send # "nothing"
           /\ row[r] = NoRow
           /\ row' = [row EXCEPT ![r] = fresh]
           /\ tried' = [tried EXCEPT ![r] = Untried]
           /\ told' = (d.send = "failure")
  <2>1. fresh \in RowType /\ fresh # NoRow
    BY AbsentAssumption, BoundsAssumption DEF RowType
  <2>2. \A m \in sends : m.row # r
    BY <1>0, <1>5 DEF SendsTrue, SendTrue
  <2>3. \A q \in Rows : row'[q] = (IF q = r THEN fresh ELSE row[q])
    BY <1>0, <1>5 DEF TypeOK
  <2>4. \A q \in Rows : tried'[q] = (IF q = r THEN Untried ELSE tried[q])
    BY <1>0, <1>5 DEF TypeOK
  <2>5. TypeOK'
    <3>1. row' \in [Rows -> RowType \cup {NoRow}] /\ tried' \in [Rows -> TriedType]
      BY <1>0, <1>5, <2>1, TriedUpdates DEF TypeOK
    <3> QED
      BY <1>0, <1>1, <1>3, <1>5, <3>1 DEF TypeOK
  <2>6. OneSender'
    BY <1>0, <1>1 DEF OneSender
  <2>7. SendsTrue'
    BY <1>0, <1>1, <2>2, <2>3, <2>4 DEF SendsTrue, SendTrue, TypeOK, SendType
  <2>8. RowsTrue'
    <3> SUFFICES ASSUME NEW q \in Rows PROVE RowTrue(q)'
      BY DEF RowsTrue
    <3>1. CASE q = r
      BY <2>1, <2>3, <2>4, <3>1, BoundsAssumption DEF RowTrue, Untried
    <3>2. CASE q # r
      BY <1>0, <2>3, <2>4, <3>2 DEF RowsTrue, RowTrue
    <3> QED
      BY <3>1, <3>2
  <2>9. AllCounted'
    <3> SUFFICES ASSUME NEW q \in Rows PROVE Counted(q)'
      BY DEF AllCounted
    <3>1. CASE q = r
      BY <2>3, <2>4, <3>1 DEF Counted, Untried
    <3>2. CASE q # r
      BY <1>0, <1>1, <2>3, <2>4, <3>2 DEF AllCounted, Counted, AwaitedIn
    <3> QED
      BY <3>1, <3>2
  <2>10. FailingIsTold'
    BY <1>1, <1>5 DEF FailingIsTold, DecideAlert
  <2> QED
    BY <2>5, <2>6, <2>7, <2>8, <2>9, <2>10 DEF AlertInv
<1> QED
  BY <1>4, <1>5 DEF RunEnds

(* Steps that touch neither the rows nor what was tried: deliveries may    *)
(* end, but only those that no pass waits for.                             *)
LEMMA RowsAlone ==
    ASSUME AlertInv, UNCHANGED <<queueing, row, tried>>,
           active' \in BOOLEAN, mode' \in [Servers -> {"up", "stopping", "down"}], faults' \in Nat,
           sends' \subseteq sends, passing' \in [Servers -> SUBSET Rows],
           \A m \in sends : m.row \in passing[m.server] => m \in sends' /\ m.row \in passing'[m.server]
    PROVE  AlertInv'
<1>0. TypeOK /\ OneSender /\ SendsTrue /\ RowsTrue /\ AllCounted /\ FailingIsTold
  BY DEF AlertInv
<1>1. TypeOK'
  BY <1>0 DEF TypeOK, queueing
<1>2. OneSender' /\ SendsTrue' /\ RowsTrue'
  BY <1>0 DEF OneSender, SendsTrue, SendTrue, RowsTrue, RowTrue
<1>3. AllCounted'
  <2> SUFFICES ASSUME NEW r \in Rows PROVE Counted(r)'
    BY DEF AllCounted
  <2>1. AwaitedIn(r, sends, passing) => AwaitedIn(r, sends, passing)'
    BY DEF AwaitedIn
  <2>2. Counted(r)
    BY <1>0 DEF AllCounted
  <2>3. row[r] # NoRow => row[r].attempts \in Nat /\ tried[r].lost \in Nat /\ tried[r].sent \in Nat
    BY <1>0, BoundsAssumption DEF TypeOK, RowType, TriedType
  <2> QED
    BY <2>1, <2>2, <2>3 DEF Counted
<1>4. FailingIsTold'
  BY <1>0, ToldKept
<1> QED
  BY <1>1, <1>2, <1>3, <1>4 DEF AlertInv

(* The alert cannot be queued. *)
LEMMA EnqueueFailsKeeps ==
    ASSUME AlertInv, NEW o \in Outcomes, EnqueueFails(o)
    PROVE  AlertInv'
  BY RowsAlone DEF EnqueueFails, workers, AlertInv, TypeOK

LEMMA SetActiveKeeps ==
    ASSUME AlertInv, SetActive
    PROVE  AlertInv'
  BY RowsAlone DEF SetActive, workers, AlertInv, TypeOK

(* Servers start and are told to stop. *)
LEMMA ModesKeep ==
    ASSUME AlertInv, NEW p \in Servers, Stop(p) \/ Restart(p)
    PROVE  AlertInv'
<1>1. TypeOK
  BY DEF AlertInv
<1>2. /\ mode' \in [Servers -> {"up", "stopping", "down"}] /\ faults' \in Nat
      /\ UNCHANGED <<queueing, row, active, sends, passing, tried>>
  BY <1>1 DEF Stop, Restart, TypeOK
<1> QED
  BY <1>1, <1>2, RowsAlone DEF TypeOK

(* A stop has waited for its pass: what it ends, no pass waits for. *)
LEMMA StoppedKeeps ==
    ASSUME AlertInv, NEW p \in Servers, Stopped(p)
    PROVE  AlertInv'
<1>1. TypeOK
  BY DEF AlertInv
<1>2. /\ UNCHANGED <<queueing, row, active, faults, tried>>
      /\ mode' \in [Servers -> {"up", "stopping", "down"}]
      /\ passing' = [passing EXCEPT ![p] = {}]
      /\ sends' = {m \in sends : m.server # p}
      /\ passing[p] = {}
  BY <1>1 DEF Stopped, Gone, TypeOK
<1>3. passing' = passing
  BY <1>1, <1>2 DEF TypeOK
<1> QED
  BY <1>1, <1>2, <1>3, RowsAlone DEF TypeOK

(* A claim takes rows nobody delivers: those in delivery are leased. *)
LEMMA PassKeeps ==
    ASSUME AlertInv, NEW p \in Servers, Pass(p)
    PROVE  AlertInv'
<1> DEFINE begun(r) == [server |-> p, row |-> r, attempts |-> row[r].attempts,
                        left |-> PassTime, result |-> "none"]
<1>0. TypeOK /\ OneSender /\ SendsTrue /\ RowsTrue /\ AllCounted /\ FailingIsTold
  BY DEF AlertInv
<1>1. /\ UNCHANGED <<queueing, active, mode, faults>>
      /\ passing[p] = {}
      /\ row' = Leased(Due)
      /\ sends' = sends \cup {begun(r) : r \in Due}
      /\ passing' = [passing EXCEPT ![p] = Due]
      /\ tried' = [r \in Rows |-> IF r \in Due THEN [tried[r] EXCEPT !.sent = @ + 1] ELSE tried[r]]
  BY DEF Pass
<1>2. Due \subseteq Rows /\ \A r \in Due : row[r] \in RowType /\ row[r].state = "pending" /\ row[r].wait = 0
  BY <1>0 DEF Due, TypeOK
<1>3. \A m \in sends : m.row \in Rows /\ m.server \in Servers /\ m.row \notin Due
  BY <1>0, <1>2 DEF SendsTrue, SendTrue, TypeOK, SendType
<1>4. ASSUME NEW r \in Due
      PROVE  /\ row'[r] \in RowType /\ row'[r] # NoRow
             /\ row'[r].state = "pending" /\ row'[r].wait = Lease /\ row'[r].attempts = row[r].attempts
             /\ tried'[r] \in TriedType
             /\ tried'[r].sent = tried[r].sent + 1
             /\ tried'[r].failed = tried[r].failed
             /\ tried'[r].lost = tried[r].lost
             /\ tried'[r].arrived = tried[r].arrived
  <2>1. r \in Rows /\ row[r] \in RowType /\ tried[r] \in TriedType
    BY <1>0, <1>2 DEF TypeOK
  <2>2. row'[r] = [row[r] EXCEPT !.wait = Lease] /\ tried'[r] = [tried[r] EXCEPT !.sent = @ + 1]
    BY <1>1, <2>1 DEF Leased
  <2>3. row'[r] \in RowType /\ tried'[r] \in TriedType /\ row'[r] # NoRow
    BY <2>1, <2>2, RowUpdates, TriedUpdates, LeaseAssumption
  <2> QED
    BY <1>2, <2>1, <2>2, <2>3 DEF RowType, TriedType
<1>5. \A r \in Rows \ Due : row'[r] = row[r] /\ tried'[r] = tried[r]
  BY <1>1 DEF Leased
<1>6. \A r \in Due : begun(r) \in SendType
  BY <1>2, LeaseAssumption, BoundsAssumption DEF SendType, RowType
<1>7. TypeOK'
  <2>1. row' \in [Rows -> RowType \cup {NoRow}]
    <3>1. row' = [r \in Rows |-> IF r \in Due THEN [row[r] EXCEPT !.wait = Lease] ELSE row[r]]
      BY <1>1 DEF Leased
    <3>2. \A r \in Rows : row'[r] \in RowType \cup {NoRow}
      BY <1>0, <1>4, <1>5 DEF TypeOK
    <3> QED
      BY <3>1, <3>2
  <2>2. tried' \in [Rows -> TriedType]
    <3>1. \A r \in Rows : tried'[r] \in TriedType
      BY <1>0, <1>4, <1>5 DEF TypeOK
    <3> QED
      BY <1>1, <3>1
  <2>3. sends' \in SUBSET SendType /\ passing' \in [Servers -> SUBSET Rows]
    BY <1>0, <1>1, <1>2, <1>6 DEF TypeOK
  <2> QED
    BY <1>0, <1>1, <2>1, <2>2, <2>3 DEF TypeOK, queueing
<1>8. OneSender'
  <2> SUFFICES ASSUME NEW m \in sends', NEW n \in sends', m.row = n.row PROVE m = n
    BY DEF OneSender
  <2>1. CASE m \in sends /\ n \in sends
    BY <1>0, <2>1 DEF OneSender
  <2>2. CASE m \notin sends \/ n \notin sends
    <3>1. m.row \in Due
      BY <1>1, <2>2
    <3>2. m = begun(m.row) /\ n = begun(n.row)
      BY <1>1, <1>3, <3>1
    <3> QED
      BY <3>2
  <2> QED
    BY <2>1, <2>2
<1>9. SendsTrue'
  <2> SUFFICES ASSUME NEW m \in sends' PROVE SendTrue(m)'
    BY DEF SendsTrue
  <2>1. CASE m \in sends
    BY <1>0, <1>3, <1>5, <2>1 DEF SendsTrue, SendTrue
  <2>2. CASE m \notin sends
    <3>1. PICK r \in Due : m = begun(r)
      BY <1>1, <2>2
    <3> QED
      BY <1>4, <3>1, LeaseAssumption DEF SendTrue
  <2> QED
    BY <2>1, <2>2
<1>10. RowsTrue'
  <2> SUFFICES ASSUME NEW r \in Rows PROVE RowTrue(r)'
    BY DEF RowsTrue
  <2>1. RowTrue(r)
    BY <1>0 DEF RowsTrue
  <2>2. CASE r \in Due
    BY <1>2, <1>4, <2>1, <2>2, AbsentAssumption DEF RowTrue
  <2>3. CASE r \notin Due
    BY <1>5, <2>1, <2>3 DEF RowTrue
  <2> QED
    BY <2>2, <2>3
<1>11. AllCounted'
  <2> SUFFICES ASSUME NEW r \in Rows PROVE Counted(r)'
    BY DEF AllCounted
  <2>1. Counted(r)
    BY <1>0 DEF AllCounted
  <2>2. CASE r \in Due
    <3>1. begun(r) \in sends' /\ r \in passing'[p]
      BY <1>0, <1>1, <2>2 DEF TypeOK
    <3>2. AwaitedIn(r, sends, passing)'
      BY <3>1 DEF AwaitedIn
    <3>3. ~AwaitedIn(r, sends, passing)
      BY <1>3, <2>2 DEF AwaitedIn
    <3>4. row[r] # NoRow /\ row[r].attempts \in Nat /\ tried[r].lost \in Nat /\ tried[r].sent \in Nat
      BY <1>0, <1>2, <2>2, AbsentAssumption, BoundsAssumption DEF TypeOK, RowType, TriedType
    <3> QED
      BY <1>4, <2>1, <2>2, <3>2, <3>3, <3>4 DEF Counted
  <2>3. CASE r \notin Due
    <3>1. AwaitedIn(r, sends, passing) <=> AwaitedIn(r, sends, passing)'
      <4>1. ASSUME NEW m \in sends, m.row = r
            PROVE  r \in passing[m.server] <=> r \in passing'[m.server]
        BY <1>0, <1>1, <1>3, <2>3 DEF TypeOK
      <4>2. \A m \in sends' : m.row = r => m \in sends
        BY <1>1, <2>3
      <4> QED
        BY <1>1, <4>1, <4>2 DEF AwaitedIn
    <3> QED
      BY <1>5, <2>1, <2>3, <3>1 DEF Counted
  <2> QED
    BY <2>2, <2>3
<1>12. FailingIsTold'
  BY <1>0, <1>1, ToldKept
<1> QED
  BY <1>7, <1>8, <1>9, <1>10, <1>11, <1>12 DEF AlertInv

(* The target's answer: the delivery stays under way until it is recorded. *)
LEMMA DeliveredKeeps ==
    ASSUME AlertInv, NEW m \in sends, NEW arrived \in BOOLEAN, NEW result \in {"arrived", "failed"},
           Delivered(m, arrived, result)
    PROVE  AlertInv'
<1> DEFINE answered == [m EXCEPT !.result = result]
           r == m.row
<1>0. TypeOK /\ OneSender /\ SendsTrue /\ RowsTrue /\ AllCounted /\ FailingIsTold
  BY DEF AlertInv
<1>1. /\ UNCHANGED <<queueing, row, active, mode, passing, faults>>
      /\ result = "arrived" => arrived
      /\ sends' = (sends \ {m}) \cup {answered}
      /\ tried' = [tried EXCEPT ![r].arrived = @ \/ arrived,
                                ![r].failed = IF result = "failed" THEN @ + 1 ELSE @]
  BY DEF Delivered
<1>2. m \in SendType /\ r \in Rows /\ tried[r] \in TriedType
  BY <1>0 DEF TypeOK, SendType
<1>3. /\ answered \in SendType /\ answered.row = r /\ answered.server = m.server
      /\ answered.left = m.left /\ answered.attempts = m.attempts /\ answered.result = result
  BY <1>2 DEF SendType
<1>4. /\ tried' \in [Rows -> TriedType]
      /\ \A q \in Rows \ {r} : tried'[q] = tried[q]
      /\ tried'[r].sent = tried[r].sent
      /\ tried'[r].lost = tried[r].lost
      /\ tried'[r].failed = tried[r].failed + (IF result = "failed" THEN 1 ELSE 0)
      /\ tried[r].arrived \/ arrived => tried'[r].arrived
  <2> DEFINE after == [tried[r] EXCEPT !.arrived = @ \/ arrived,
                                       !.failed = IF result = "failed" THEN @ + 1 ELSE @]
  <2>1. tried' = [tried EXCEPT ![r] = after]
    BY <1>0, <1>1, <1>2 DEF TypeOK, TriedType
  <2>2. tried[r].failed \in Nat
    BY <1>2 DEF TriedType
  <2>3. /\ after.sent = tried[r].sent
        /\ after.lost = tried[r].lost
        /\ after.failed = tried[r].failed + (IF result = "failed" THEN 1 ELSE 0)
    BY <1>2, <2>2 DEF TriedType
  <2>4. after.arrived = (tried[r].arrived \/ arrived)
    BY <1>2 DEF TriedType
  <2>5. after \in TriedType
    <3>1. PICK b \in BOOLEAN : b = (tried[r].arrived \/ arrived)
      OBVIOUS
    <3>2. PICK f \in Nat : f = (IF result = "failed" THEN tried[r].failed + 1 ELSE tried[r].failed)
      BY <2>2
    <3>3. after = [tried[r] EXCEPT !.arrived = b, !.failed = f]
      BY <1>2, <3>1, <3>2 DEF TriedType
    <3> QED
      BY <1>2, <3>3, TriedUpdates
  <2> QED
    BY <1>0, <1>2, <2>1, <2>3, <2>4, <2>5 DEF TypeOK
<1>5. TypeOK'
  BY <1>0, <1>1, <1>3, <1>4 DEF TypeOK, queueing
<1>6. \A n \in sends \ {m} : n.row \in Rows /\ n.row # r
  BY <1>0 DEF OneSender, TypeOK, SendType
<1>7. OneSender'
  BY <1>0, <1>1, <1>3, <1>6 DEF OneSender
<1>8. SendsTrue'
  <2> SUFFICES ASSUME NEW n \in sends' PROVE SendTrue(n)'
    BY DEF SendsTrue
  <2>1. CASE n \in sends \ {m}
    BY <1>0, <1>1, <1>4, <1>6, <2>1 DEF SendsTrue, SendTrue
  <2>2. CASE n = answered
    <3>1. SendTrue(m) /\ RowTrue(r)
      BY <1>0, <1>2 DEF SendsTrue, RowsTrue
    <3>2. result = "arrived" => tried'[r].arrived
      BY <1>1, <1>4
    <3>3. result = "failed" => m.attempts < tried'[r].failed
      <4>1. m.attempts \in Nat /\ tried[r].failed \in Nat /\ m.attempts =< tried[r].failed
        BY <1>2, <3>1 DEF SendTrue, RowTrue, SendType, TriedType
      <4> QED
        BY <1>4, <4>1
    <3> QED
      BY <1>1, <1>3, <2>2, <3>1, <3>2, <3>3 DEF SendTrue
  <2> QED
    BY <1>1, <2>1, <2>2
<1>9. RowsTrue'
  <2> SUFFICES ASSUME NEW q \in Rows PROVE RowTrue(q)'
    BY DEF RowsTrue
  <2>1. RowTrue(q) /\ row' = row
    BY <1>0, <1>1 DEF RowsTrue
  <2>2. CASE q = r
    <3>1. row[q] # NoRow /\ row[q].state = "pending"
      BY <1>0, <2>2 DEF SendsTrue, SendTrue
    <3>2. row[q].attempts \in Nat /\ tried[q].failed \in Nat
      BY <1>0, <3>1, BoundsAssumption DEF TypeOK, RowType, TriedType
    <3> QED
      BY <1>4, <2>1, <2>2, <3>1, <3>2 DEF RowTrue
  <2>3. CASE q # r
    BY <1>4, <2>1, <2>3 DEF RowTrue
  <2> QED
    BY <2>2, <2>3
<1>10. AllCounted'
  <2> SUFFICES ASSUME NEW q \in Rows PROVE Counted(q)'
    BY DEF AllCounted
  <2>1. AwaitedIn(q, sends, passing) <=> AwaitedIn(q, sends, passing)'
    BY <1>1, <1>3 DEF AwaitedIn
  <2>2. Counted(q) /\ tried'[q].sent = tried[q].sent /\ tried'[q].lost = tried[q].lost
    BY <1>0, <1>4 DEF AllCounted
  <2> QED
    BY <1>1, <2>1, <2>2 DEF Counted
<1>11. FailingIsTold'
  BY <1>0, <1>1, ToldKept
<1> QED
  BY <1>5, <1>7, <1>8, <1>9, <1>10, <1>11 DEF AlertInv

(* How it went is recorded: the delivery of a pending row that no other    *)
(* delivery of is under way.                                               *)
LEMMA RecordKeeps ==
    ASSUME AlertInv, NEW m \in sends, NEW wait \in 1..Backoff, Record(m, wait)
    PROVE  AlertInv'
<1> DEFINE r == m.row
           s == IF m.result = "arrived" THEN AfterSuccess(row[r]) ELSE AfterFailure(row[r], m.attempts + 1, wait)
<1>0. TypeOK /\ OneSender /\ SendsTrue /\ RowsTrue /\ AllCounted /\ FailingIsTold
  BY DEF AlertInv
<1>1. /\ UNCHANGED <<queueing, active, mode, faults, tried>>
      /\ m.result # "none" /\ row[r] # NoRow
      /\ row' = [row EXCEPT ![r] = s]
      /\ sends' = sends \ {m}
      /\ passing' = [passing EXCEPT ![m.server] = @ \ {r}]
  BY DEF Record
<1>2. m \in SendType /\ r \in Rows /\ m.server \in Servers /\ row[r] \in RowType /\ tried[r] \in TriedType
  BY <1>0, <1>1 DEF TypeOK, SendType
<1>3. SendTrue(m) /\ RowTrue(r) /\ Counted(r)
  BY <1>0, <1>2 DEF SendsTrue, RowsTrue, AllCounted
<1>4. /\ row[r].attempts \in Nat /\ row[r].attempts < MaxAttempts /\ m.attempts = row[r].attempts
      /\ m.attempts + 1 \in 0..MaxAttempts /\ MaxAttempts \in Nat /\ wait \in Nat
  BY <1>1, <1>2, <1>3, BoundsAssumption DEF SendTrue, RowTrue, RowType
<1>5. s \in RowType /\ s # NoRow
  BY <1>2, <1>4, RowUpdates
<1>6. /\ s.attempts = row[r].attempts + 1
      /\ m.result = "arrived" => s.state = "delivered"
      /\ m.result = "failed" => s.state = (IF row[r].attempts + 1 >= MaxAttempts THEN "dead" ELSE "pending")
  BY <1>2, <1>3, <1>4 DEF AfterSuccess, AfterFailure, RowType, SendTrue, SendType
<1>7. row'[r] = s /\ \A q \in Rows \ {r} : row'[q] = row[q]
  BY <1>0, <1>1, <1>2 DEF TypeOK
<1>8. \A n \in sends' : n \in sends /\ n.row \in Rows /\ n.row # r
  BY <1>0, <1>1 DEF OneSender, TypeOK, SendType
<1>9. TypeOK'
  BY <1>0, <1>1, <1>5 DEF TypeOK, queueing
<1>10. OneSender'
  BY <1>0, <1>8 DEF OneSender
<1>11. SendsTrue'
  BY <1>0, <1>1, <1>7, <1>8 DEF SendsTrue, SendTrue
<1>12. RowsTrue'
  <2> SUFFICES ASSUME NEW q \in Rows PROVE RowTrue(q)'
    BY DEF RowsTrue
  <2>1. CASE q = r
    <3>1. m.result = "arrived" \/ m.result = "failed"
      BY <1>1, <1>2 DEF SendType
    <3>2. CASE m.result = "arrived"
      BY <1>1, <1>3, <1>5, <1>6, <1>7, <2>1, <3>2 DEF SendTrue, RowTrue
    <3>3. CASE m.result = "failed"
      <4>1. row[r].attempts < tried[r].failed /\ tried[r].failed \in Nat
        BY <1>2, <1>3, <1>4, <3>3 DEF SendTrue, TriedType
      <4>2. /\ s.attempts =< tried[r].failed
            /\ s.state = "pending" => s.attempts < MaxAttempts
            /\ s.state = "dead" => s.attempts = MaxAttempts
            /\ s.state # "delivered"
        BY <1>4, <1>6, <3>3, <4>1
      <4> QED
        BY <1>1, <1>5, <1>7, <2>1, <4>2 DEF RowTrue
    <3> QED
      BY <3>1, <3>2, <3>3
  <2>2. CASE q # r
    BY <1>0, <1>1, <1>7, <2>2 DEF RowsTrue, RowTrue
  <2> QED
    BY <2>1, <2>2
<1>13. AllCounted'
  <2> SUFFICES ASSUME NEW q \in Rows PROVE Counted(q)'
    BY DEF AllCounted
  <2>1. CASE q = r
    <3>1. tried[r].sent \in Nat /\ tried[r].lost \in Nat
      BY <1>2 DEF TriedType
    <3>2. tried[r].sent =< row[r].attempts + 1 + tried[r].lost
      BY <1>1, <1>3, <1>4, <3>1 DEF Counted
    <3> QED
      BY <1>1, <1>4, <1>6, <1>7, <2>1, <3>1, <3>2 DEF Counted
  <2>2. CASE q # r
    <3>1. AwaitedIn(q, sends, passing) <=> AwaitedIn(q, sends, passing)'
      <4>1. \A n \in sends : q \in passing[n.server] <=> q \in passing'[n.server]
        BY <1>0, <1>1, <2>2 DEF TypeOK, SendType
      <4> QED
        BY <1>1, <2>2, <4>1 DEF AwaitedIn
    <3> QED
      BY <1>0, <1>1, <1>7, <2>2, <3>1 DEF AllCounted, Counted
  <2> QED
    BY <2>1, <2>2
<1>14. FailingIsTold'
  BY <1>0, <1>1, ToldKept
<1> QED
  BY <1>9, <1>10, <1>11, <1>12, <1>13, <1>14 DEF AlertInv

(* A result that cannot be recorded, or a server that is gone: every       *)
(* delivery that ends is excused.                                          *)
LEMMA ExcusedKeeps ==
    ASSUME AlertInv, NEW R \in SUBSET Rows, tried' = Excused(R), UNCHANGED <<queueing, row, active>>,
           faults' \in Nat, mode' \in [Servers -> {"up", "stopping", "down"}],
           sends' \subseteq sends, passing' \in [Servers -> SUBSET Rows],
           \A m \in sends : m.row \in passing[m.server] =>
                m.row \in R \/ (m \in sends' /\ m.row \in passing'[m.server])
    PROVE  AlertInv'
<1>0. TypeOK /\ OneSender /\ SendsTrue /\ RowsTrue /\ AllCounted /\ FailingIsTold
  BY DEF AlertInv
<1>1. ASSUME NEW r \in Rows
      PROVE  /\ tried'[r] \in TriedType
             /\ tried'[r].sent = tried[r].sent
             /\ tried'[r].failed = tried[r].failed
             /\ tried'[r].arrived = tried[r].arrived
             /\ tried'[r].lost = tried[r].lost + (IF r \in R THEN 1 ELSE 0)
  <2>1. tried[r] \in TriedType /\ tried'[r] = (IF r \in R THEN [tried[r] EXCEPT !.lost = @ + 1] ELSE tried[r])
    BY <1>0 DEF TypeOK, Excused
  <2>2. tried'[r] \in TriedType
    BY <2>1, TriedUpdates
  <2> QED
    BY <2>1, <2>2 DEF TriedType
<1>2. TypeOK'
  <2>1. tried' \in [Rows -> TriedType]
    BY <1>1 DEF Excused
  <2> QED
    BY <1>0, <2>1 DEF TypeOK, queueing
<1>3. OneSender'
  BY <1>0 DEF OneSender
<1>4. SendsTrue'
  BY <1>0, <1>1 DEF SendsTrue, SendTrue, TypeOK, SendType
<1>5. RowsTrue'
  <2> SUFFICES ASSUME NEW r \in Rows PROVE RowTrue(r)'
    BY DEF RowsTrue
  <2>1. RowTrue(r) /\ row'[r] = row[r]
    BY <1>0 DEF RowsTrue
  <2> QED
    BY <1>1, <2>1 DEF RowTrue
<1>6. AllCounted'
  <2> SUFFICES ASSUME NEW r \in Rows, row[r] # NoRow PROVE Counted(r)'
    BY DEF AllCounted, Counted
  <2>1. Counted(r)
    BY <1>0 DEF AllCounted
  <2>2. row[r].attempts \in Nat /\ tried[r].lost \in Nat /\ tried[r].sent \in Nat
    BY <1>0, BoundsAssumption DEF TypeOK, RowType, TriedType
  <2>3. AwaitedIn(r, sends, passing) => r \in R \/ AwaitedIn(r, sends, passing)'
    BY DEF AwaitedIn
  <2> QED
    BY <1>1, <2>1, <2>2, <2>3 DEF Counted
<1>7. FailingIsTold'
  BY <1>0, ToldKept
<1> QED
  BY <1>2, <1>3, <1>4, <1>5, <1>6, <1>7 DEF AlertInv

LEMMA RecordFailsKeeps ==
    ASSUME AlertInv, NEW m \in sends, RecordFails(m)
    PROVE  AlertInv'
<1>0. TypeOK /\ OneSender
  BY DEF AlertInv
<1>1. m.server \in Servers /\ m.row \in Rows /\ passing[m.server] \subseteq Rows
  BY <1>0 DEF TypeOK, SendType
<1>2. /\ UNCHANGED <<queueing, row, active, mode>>
      /\ faults' \in Nat
      /\ sends' = sends \ {m}
      /\ passing' = [passing EXCEPT ![m.server] = IF m.row \in @ THEN {} ELSE @]
      /\ tried' = Excused({m.row} \cup passing[m.server])
  BY <1>0 DEF RecordFails, TypeOK
<1>3. passing' \in [Servers -> SUBSET Rows]
  BY <1>0, <1>1, <1>2 DEF TypeOK
<1>4. ASSUME NEW n \in sends, n.row \in passing[n.server], n.row \notin {m.row} \cup passing[m.server]
      PROVE  n \in sends' /\ n.row \in passing'[n.server]
  <2>1. n.server \in Servers /\ n.server # m.server /\ n # m
    BY <1>0, <1>4 DEF TypeOK, SendType
  <2> QED
    BY <1>0, <1>2, <1>4, <2>1 DEF TypeOK
<1> QED
  BY <1>0, <1>1, <1>2, <1>3, <1>4, ExcusedKeeps DEF TypeOK

LEMMA CrashKeeps ==
    ASSUME AlertInv, NEW p \in Servers, Crash(p)
    PROVE  AlertInv'
<1> DEFINE cut == {m.row : m \in {n \in sends : n.server = p}}
<1>0. TypeOK
  BY DEF AlertInv
<1>1. cut \subseteq Rows
  BY <1>0 DEF TypeOK, SendType
<1>2. /\ UNCHANGED <<queueing, row, active>>
      /\ faults' \in Nat
      /\ sends' = {m \in sends : m.server # p}
      /\ passing' = [passing EXCEPT ![p] = {}]
      /\ tried' = Excused(cut)
      /\ mode' = [mode EXCEPT ![p] = "down"]
  BY <1>0 DEF Crash, Gone, TypeOK
<1>3. passing' \in [Servers -> SUBSET Rows] /\ mode' \in [Servers -> {"up", "stopping", "down"}]
  BY <1>0, <1>2 DEF TypeOK
<1>4. ASSUME NEW m \in sends, m.row \in passing[m.server], m.row \notin cut
      PROVE  m \in sends' /\ m.row \in passing'[m.server]
  BY <1>0, <1>2, <1>4 DEF TypeOK, SendType
<1> QED
  BY <1>0, <1>1, <1>2, <1>3, <1>4, ExcusedKeeps

(* Retention takes a row that is settled, so one nobody delivers. *)
LEMMA SweepKeeps ==
    ASSUME AlertInv, NEW r \in Rows, Sweep(r)
    PROVE  AlertInv'
<1>0. TypeOK /\ OneSender /\ SendsTrue /\ RowsTrue /\ AllCounted /\ FailingIsTold
  BY DEF AlertInv
<1>1. /\ UNCHANGED <<queueing, active, mode, sends, passing, faults>>
      /\ \A m \in sends : m.row # r
      /\ row' = [row EXCEPT ![r] = NoRow]
      /\ tried' = [tried EXCEPT ![r] = Untried]
  BY DEF Sweep, workers
<1>2. /\ row'[r] = NoRow /\ tried'[r] = Untried
      /\ \A q \in Rows \ {r} : row'[q] = row[q] /\ tried'[q] = tried[q]
  BY <1>0, <1>1 DEF TypeOK
<1>3. TypeOK'
  BY <1>0, <1>1, TriedUpdates DEF TypeOK, queueing
<1>4. OneSender' /\ SendsTrue'
  BY <1>0, <1>1, <1>2 DEF OneSender, SendsTrue, SendTrue, TypeOK, SendType
<1>5. RowsTrue'
  BY <1>0, <1>2 DEF RowsTrue, RowTrue, Untried
<1>6. AllCounted'
  BY <1>0, <1>1, <1>2 DEF AllCounted, Counted, AwaitedIn
<1>7. FailingIsTold'
  BY <1>0, <1>1, ToldKept
<1> QED
  BY <1>3, <1>4, <1>5, <1>6, <1>7 DEF AlertInv

(* Time passes for the deliveries and for the leases alike. *)
LEMMA TickKeeps ==
    ASSUME AlertInv, Tick
    PROVE  AlertInv'
<1> DEFINE later(m) == [m EXCEPT !.left = @ - 1]
           due(s) == [s EXCEPT !.wait = @ - 1]
<1>0. TypeOK /\ OneSender /\ SendsTrue /\ RowsTrue /\ AllCounted /\ FailingIsTold
  BY DEF AlertInv
<1>1. /\ UNCHANGED <<queueing, active, mode, passing, faults, tried>>
      /\ \A m \in sends : m.left > 0
      /\ sends' = {later(m) : m \in sends}
      /\ row' = [r \in Rows |-> IF row[r] # NoRow /\ row[r].wait > 0 THEN due(row[r]) ELSE row[r]]
  BY DEF Tick
<1>2. ASSUME NEW m \in sends
      PROVE  /\ later(m) \in SendType
             /\ later(m).server = m.server /\ later(m).row = m.row /\ later(m).attempts = m.attempts
             /\ later(m).result = m.result /\ later(m).left = m.left - 1
             /\ m.row \in Rows /\ m.left \in Nat
  <2>1. m \in SendType /\ m.left > 0
    BY <1>0, <1>1 DEF TypeOK
  <2> QED
    BY <2>1 DEF SendType
<1>3. ASSUME NEW r \in Rows
      PROVE  /\ row[r] = NoRow <=> row'[r] = NoRow
             /\ row[r] # NoRow =>
                  /\ row'[r] \in RowType
                  /\ row'[r].state = row[r].state /\ row'[r].attempts = row[r].attempts
                  /\ row[r].wait \in Nat /\ row'[r].wait = (IF row[r].wait > 0 THEN row[r].wait - 1 ELSE 0)
  <2>1. CASE row[r] = NoRow
    BY <1>1, <2>1
  <2>2. CASE row[r] # NoRow
    <3>1. row[r] \in RowType /\ row[r].wait \in Nat
      BY <1>0, <2>2 DEF TypeOK, RowType
    <3>2. row'[r] = (IF row[r].wait > 0 THEN due(row[r]) ELSE row[r])
      BY <1>1, <2>2
    <3>3. row'[r] \in RowType
      <4>1. row[r].wait > 0 => row[r].wait - 1 \in Nat /\ due(row[r]) = [row[r] EXCEPT !.wait = row[r].wait - 1]
        BY <3>1
      <4> HIDE DEF due
      <4> QED
        BY <3>1, <3>2, <4>1, RowUpdates
    <3> QED
      BY <2>2, <3>1, <3>2, <3>3, AbsentAssumption DEF RowType
  <2> QED
    BY <2>1, <2>2
<1>4. TypeOK'
  <2>1. row' \in [Rows -> RowType \cup {NoRow}]
    <3>1. \A r \in Rows : row'[r] \in RowType \cup {NoRow}
      BY <1>3
    <3> QED
      BY <1>1, <3>1
  <2>2. sends' \in SUBSET SendType
    BY <1>1, <1>2
  <2> QED
    BY <1>0, <1>1, <2>1, <2>2 DEF TypeOK, queueing
<1>5. OneSender'
  <2> SUFFICES ASSUME NEW m \in sends', NEW n \in sends', m.row = n.row PROVE m = n
    BY DEF OneSender
  <2>1. PICK a \in sends, b \in sends : m = later(a) /\ n = later(b)
    BY <1>1
  <2>2. a.row = b.row
    BY <1>2, <2>1
  <2> QED
    BY <1>0, <2>1, <2>2 DEF OneSender
<1>6. SendsTrue'
  <2> SUFFICES ASSUME NEW n \in sends' PROVE SendTrue(n)'
    BY DEF SendsTrue
  <2>1. PICK m \in sends : n = later(m)
    BY <1>1
  <2>2. SendTrue(m)
    BY <1>0 DEF SendsTrue
  <2>3. n.left < row'[n.row].wait
    BY <1>2, <1>3, <2>1, <2>2 DEF SendTrue
  <2> QED
    BY <1>1, <1>2, <1>3, <2>1, <2>2, <2>3 DEF SendTrue
<1>7. RowsTrue'
  BY <1>0, <1>1, <1>3 DEF RowsTrue, RowTrue
<1>8. AllCounted'
  <2> SUFFICES ASSUME NEW r \in Rows PROVE Counted(r)'
    BY DEF AllCounted
  <2>1. AwaitedIn(r, sends, passing) <=> AwaitedIn(r, sends, passing)'
    <3>1. ASSUME NEW m \in sends, m.row = r, r \in passing[m.server]
          PROVE  AwaitedIn(r, sends, passing)'
      <4>1. later(m) \in sends' /\ later(m).row = r /\ r \in passing'[later(m).server]
        BY <1>1, <1>2, <3>1
      <4> QED
        BY <4>1 DEF AwaitedIn
    <3>2. ASSUME NEW n \in sends', n.row = r, r \in passing'[n.server]
          PROVE  AwaitedIn(r, sends, passing)
      <4>1. PICK m \in sends : n = later(m)
        BY <1>1
      <4> QED
        BY <1>1, <1>2, <3>2, <4>1 DEF AwaitedIn
    <3> QED
      BY <3>1, <3>2 DEF AwaitedIn
  <2> QED
    BY <1>0, <1>1, <1>3, <2>1 DEF AllCounted, Counted
<1>9. FailingIsTold'
  BY <1>0, <1>1, ToldKept
<1> QED
  BY <1>4, <1>5, <1>6, <1>7, <1>8, <1>9 DEF AlertInv

---------------------------------------------------------------------------
(* The theorems *)

(* Every step of runs, passes, deliveries, servers and time keeps          *)
(* AlertInv.                                                               *)
LEMMA StepInv == AlertInv /\ [Next]_vars => AlertInv'
<1> SUFFICES ASSUME AlertInv, [Next]_vars PROVE AlertInv'
  OBVIOUS
<1>1. CASE \E o \in Outcomes : (\E r \in Rows : RunEnds(o, r)) \/ EnqueueFails(o)
  BY <1>1, RunEndsKeeps, EnqueueFailsKeeps
<1>2. CASE \E m \in sends : DeliveryStep(m) \/ RecordFails(m)
  BY <1>2, DeliveredKeeps, RecordKeeps, RecordFailsKeeps DEF DeliveryStep
<1>3. CASE \E r \in Rows : Sweep(r)
  BY <1>3, SweepKeeps
<1>4. CASE \E p \in Servers : ServerStep(p) \/ Stop(p) \/ Crash(p)
  BY <1>4, PassKeeps, StoppedKeeps, ModesKeep, CrashKeeps DEF ServerStep
<1>5. CASE Tick \/ SetActive
  BY <1>5, TickKeeps, SetActiveKeeps
<1>6. CASE UNCHANGED vars
  BY <1>6, RowsAlone DEF vars, queueing, workers, AlertInv, TypeOK
<1> QED
  BY <1>1, <1>2, <1>3, <1>4, <1>5, <1>6 DEF Next

(* The inductive invariant: a delivery under way holds the row's lease for *)
(* longer than it may last and knows the row's attempts, rows say what     *)
(* happened, and every delivery is counted, excused or waited for.         *)
THEOREM Inductive == Spec => []AlertInv
  BY InitInv, StepInv, PTL DEF Spec

(* Every table and every delivery keeps its type. *)
THEOREM TypeCorrect == Spec => []TypeOK
<1>1. AlertInv => TypeOK
  BY DEF AlertInv
<1> QED
  BY <1>1, Inductive, PTL

(* A claimed row is one delivery's, for any number of servers and alerts   *)
(* and any lease longer than a pass (claimDue, LEASE_MS).                  *)
THEOREM OneSenderHolds == Spec => []OneSender
<1>1. AlertInv => OneSender
  BY DEF AlertInv
<1> QED
  BY <1>1, Inductive, PTL

(* `delivered` and `dead` are never said falsely (deliverOne). *)
THEOREM RowsTellTheTruth == Spec => []StateIsTrue
<1>1. AlertInv => StateIsTrue
  BY BoundsAssumption DEF AlertInv, RowsTrue, RowTrue, StateIsTrue
<1> QED
  BY <1>1, Inductive, PTL

(* A target is tried ALERT_MAX_ATTEMPTS times, but for the deliveries a    *)
(* crash or a failed statement cut off: a pending row has an attempt left  *)
(* for the one delivery under way, and a settled row has none under way.   *)
THEOREM TriesAreBounded == Spec => []TriesBounded
<1>1. ASSUME AlertInv PROVE TriesBounded
  <2> SUFFICES ASSUME NEW r \in Rows PROVE tried[r].sent =< MaxAttempts + tried[r].lost
    BY DEF TriesBounded
  <2>1. TypeOK /\ SendsTrue /\ RowTrue(r) /\ Counted(r)
    BY <1>1 DEF AlertInv, RowsTrue, AllCounted
  <2>2. tried[r].sent \in Nat /\ tried[r].lost \in Nat /\ MaxAttempts \in Nat
    BY <2>1, BoundsAssumption DEF TypeOK, TriedType
  <2>3. CASE row[r] = NoRow
    BY <2>1, <2>2, <2>3 DEF RowTrue
  <2>4. CASE row[r] # NoRow
    <3>1. row[r].attempts \in 0..MaxAttempts
      BY <2>1, <2>4 DEF TypeOK, RowType
    <3>2. CASE row[r].state = "pending"
      BY <2>1, <2>2, <2>4, <3>1, <3>2 DEF RowTrue, Counted
    <3>3. CASE row[r].state # "pending"
      <4>1. ~AwaitedIn(r, sends, passing)
        BY <2>1, <3>3 DEF SendsTrue, SendTrue, AwaitedIn
      <4> QED
        BY <2>1, <2>2, <2>4, <3>1, <4>1 DEF Counted
    <3> QED
      BY <3>2, <3>3
  <2> QED
    BY <2>3, <2>4
<1> QED
  BY <1>1, Inductive, PTL

(* A failing schedule has told so, whatever muteAfter is: the first        *)
(* failure of a streak is never muted (decideAlert), and state and alert   *)
(* are stored together (enqueueAlertsOrWarn).                              *)
THEOREM FailuresAreTold == Spec => []FailingIsTold
<1>1. AlertInv => FailingIsTold
  BY DEF AlertInv
<1> QED
  BY <1>1, Inductive, PTL
=============================================================================
