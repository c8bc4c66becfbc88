------------------------ MODULE ScheduledRunsProofs ------------------------
(***************************************************************************)
(* Proofs about ScheduledRuns, for any number of servers, tenants,         *)
(* schedules, runs, slots and faults.                                      *)
(***************************************************************************)
EXTENDS ScheduledRuns, FiniteSetTheorems, SequenceTheorems, WellFoundedInduction, TLAPS

---------------------------------------------------------------------------
(* The scheduler's record *)

(* A Scheduler whose lists and counts of tenants are anything of X: what   *)
(* they hold decides who is asked next, never what is true of the runs.    *)
Shape(X) ==
    [pass : [stage : Stages, todo : X, licensed : X, waiting : X],
     licensed : X, waiting : X, kicked : X, kicks : Nat, turn : X, starts : Seq({"pass", "more"}),
     round : [stage : {"none", "ask", "locked", "answered"}, order : X, idle : X, failing : X,
              answer : Runs \cup {NoRun, "full"}],
     inFlight : SUBSET Runs]
Fit(m) == \E X : m \in Shape(X)

(* A round belongs to the start at the chain's head, and has an answer     *)
(* only between a claim's commit and what is done with it.                 *)
InRound(m) == m.round.stage # "none" => m.starts # <<>>
Unanswered(m) == m.round.stage # "answered" => m.round.answer = NoRun
Sound(m) == Fit(m) /\ InRound(m) /\ Unanswered(m)

(* What the steps of a chain of starts leave: no claim is under way. *)
Between(m, n) ==
    Sound(n) /\ n.round.stage \in {"none", "ask"} /\ n.inFlight = m.inFlight

LEMMA NewIsSound == Sound(NewScheduler) /\ Sound(Started)
<1> DEFINE X == {<<>>, {}, NoTenant, 0, TenantList}
<1>1. <<>> \in Seq({"pass", "more"})
  OBVIOUS
<1>2. NewScheduler \in Shape(X) /\ Started \in Shape(X)
  BY <1>1 DEF NewScheduler, Started, NewPass, NoPass, NoRound, Shape, Stages
<1> QED
  BY <1>2 DEF Sound, Fit, InRound, Unanswered, NewScheduler, Started, NewPass, NoPass, NoRound

(* A part of the record is replaced. *)
LEMMA Replace ==
    ASSUME NEW m, Fit(m), NEW x
    PROVE  /\ Fit([m EXCEPT !.waiting = x]) /\ Fit([m EXCEPT !.kicked = x])
           /\ Fit([m EXCEPT !.licensed = x]) /\ Fit([m EXCEPT !.turn = x])
           /\ x \in Nat => Fit([m EXCEPT !.kicks = x])
           /\ x \in SUBSET Runs => Fit([m EXCEPT !.inFlight = x])
           /\ x \in Seq({"pass", "more"}) => Fit([m EXCEPT !.starts = x])
<1>1. PICK X : m \in Shape(X)
  BY DEF Fit
<1> DEFINE Y == X \cup {x}
<1>2. m \in Shape(Y)
  BY <1>1 DEF Shape
<1> QED
  BY <1>2, ZenonT(40) DEF Shape, Fit

LEMMA PassEndedFits ==
    ASSUME NEW m, Fit(m), NEW up \in BOOLEAN
    PROVE  LET n == PassEnded(m, up)
           IN  Fit(n) /\ n.round = m.round /\ n.inFlight = m.inFlight
<1>1. PICK X : m \in Shape(X)
  BY DEF Fit
<1> DEFINE w == m.waiting \cup m.kicked
           Y == X \cup {<<>>, {}, w}
           more == [i \in 1 .. m.kicks |-> "more"]
           ended == [m EXCEPT !.pass = NoPass, !.kicks = 0]
<1>2. m \in Shape(Y) /\ {} \in Y /\ <<>> \in Y /\ w \in Y
  BY <1>1 DEF Shape
<1>3. more \in Seq({"pass", "more"})
  BY <1>2 DEF Shape
<1>4. m.starts \o more \in Seq({"pass", "more"})
  BY <1>2, <1>3 DEF Shape
<1> HIDE DEF Y, more, w
<1>5. ended \in Shape(Y) /\ ended.round = m.round /\ ended.inFlight = m.inFlight /\ ended.starts = m.starts
      /\ ended.waiting = m.waiting /\ ended.kicked = m.kicked
  BY <1>2 DEF Shape, NoPass, Stages
<1> HIDE DEF ended
<1> DEFINE taken == [ended EXCEPT !.waiting = w, !.kicked = {}]
           kept == [taken EXCEPT !.starts = m.starts \o more]
<1>6. taken \in Shape(Y) /\ taken.round = m.round /\ taken.inFlight = m.inFlight /\ taken.starts = m.starts
  BY <1>2, <1>5 DEF Shape
<1>7. taken = TakeKicked(ended)
  BY <1>5 DEF TakeKicked, w
<1> HIDE DEF taken
<1>8. kept \in Shape(Y) /\ kept.round = m.round /\ kept.inFlight = m.inFlight
  BY <1>4, <1>6 DEF Shape
<1>9. PassEnded(m, up) \in {ended, kept}
  BY <1>6, <1>7 DEF PassEnded, ended, more
<1> QED
  BY <1>5, <1>8, <1>9 DEF Fit

LEMMA AskingSound ==
    ASSUME NEW m, Fit(m), m.starts # <<>>
    PROVE  Between(m, Asking(m))
<1>1. PICK X : m \in Shape(X)
  BY DEF Fit
<1> DEFINE o == Order(m)
           Y == X \cup {o, {}, <<>>, 0}
           rd == [stage |-> "ask", order |-> o, idle |-> 0, failing |-> {}, answer |-> NoRun]
           n == [m EXCEPT !.round = rd]
<1>0. Asking(m) = [m EXCEPT !.round = [NoRound EXCEPT !.stage = "ask", !.order = o]]
  BY Zenon DEF Asking
<1> HIDE DEF o
<1>2. Asking(m) = n
  BY <1>0 DEF NoRound
<1>3. n \in Shape(Y) /\ n.round = rd /\ n.starts = m.starts /\ n.inFlight = m.inFlight
  BY <1>1 DEF Shape
<1> QED
  BY <1>2, <1>3 DEF Between, Sound, Fit, InRound, Unanswered

LEMMA NextStartSound ==
    ASSUME NEW m, Fit(m), NEW up \in BOOLEAN, m.round.stage = "none", m.round.answer = NoRun
    PROVE  Between(m, NextStart(m, up))
<1> DEFINE over == [m EXCEPT !.starts = <<>>]
           rest == IF Contains(m.starts, "pass") THEN PassEnded(over, up) ELSE over
           last == [rest EXCEPT !.starts = <<>>]
<1>1. <<>> \in Seq({"pass", "more"})
  OBVIOUS
<1>2. Fit(over)
  BY <1>1, Replace
<1>3. over.round = m.round /\ over.inFlight = m.inFlight
  BY DEF Fit, Shape
<1> HIDE DEF over
<1>4. Fit(rest) /\ rest.round = m.round /\ rest.inFlight = m.inFlight
  BY <1>2, <1>3, PassEndedFits
<1>5. NextStart(m, up) = IF Asks(m, up) THEN Asking(m) ELSE IF Asks(rest, up) THEN Asking(rest) ELSE last
  BY DEF NextStart, over
<1> HIDE DEF rest
<1>6. Fit(last)
  BY <1>1, <1>4, Replace
<1>7. last.round = m.round /\ last.inFlight = m.inFlight
  BY <1>4 DEF Fit, Shape
<1>8. Between(m, last)
  BY <1>6, <1>7 DEF Between, Sound, InRound, Unanswered
<1>9. Asks(m, up) => Between(m, Asking(m))
  BY AskingSound DEF Asks
<1>10. Asks(rest, up) => Between(m, Asking(rest))
  BY <1>4, AskingSound DEF Asks, Between
<1> QED
  BY <1>5, <1>8, <1>9, <1>10

LEMMA StartQueuedSound ==
    ASSUME NEW m, Sound(m), NEW up \in BOOLEAN, NEW kind \in {"pass", "more"}
    PROVE  LET n == StartQueued(m, kind, up)
           IN  \/ Between(m, n) /\ m.round.stage = "none"
               \/ Sound(n) /\ n.round = m.round /\ n.inFlight = m.inFlight
<1> DEFINE longer == Append(m.starts, kind)
           queued == [m EXCEPT !.starts = longer]
<1>1. m.starts \in Seq({"pass", "more"})
  BY DEF Sound, Fit, Shape
<1>2. longer \in Seq({"pass", "more"}) /\ longer # <<>>
  BY <1>1
<1> HIDE DEF longer
<1>3. Fit(queued)
  BY <1>2, Replace DEF Sound
<1>4. queued.round = m.round /\ queued.inFlight = m.inFlight /\ queued.starts = longer
  BY DEF Sound, Fit, Shape
<1>5. StartQueued(m, kind, up) = IF m.starts = <<>> THEN NextStart(queued, up) ELSE queued
  BY DEF StartQueued, longer
<1> HIDE DEF queued
<1>6. CASE m.starts = <<>>
  <2>1. m.round.stage = "none" /\ m.round.answer = NoRun
    BY <1>6 DEF Sound, InRound, Unanswered
  <2> QED
    BY <1>3, <1>4, <1>5, <1>6, <2>1, NextStartSound DEF Between
<1>7. CASE m.starts # <<>>
  <2>1. Sound(queued)
    BY <1>2, <1>3, <1>4 DEF Sound, InRound, Unanswered
  <2> QED
    BY <1>4, <1>5, <1>7, <2>1
<1> QED
  BY <1>6, <1>7

LEMMA RoundGoesOnSound ==
    ASSUME NEW m, Fit(m), NEW up \in BOOLEAN, m.starts # <<>>
    PROVE  Between(m, RoundGoesOn(m, up))
<1>1. PICK X : m \in Shape(X)
  BY DEF Fit
<1>2. Between(m, RoundEnded(m, up))
  <2> DEFINE rest == Tail(m.starts)
             Y == X \cup {<<>>, {}, 0}
             ended == [m EXCEPT !.starts = rest, !.round = NoRound]
             n == IF Head(m.starts) = "pass" THEN PassEnded(ended, up) ELSE ended
  <2>1. rest \in Seq({"pass", "more"})
    BY <1>1 DEF Shape
  <2>2. RoundEnded(m, up) = NextStart(n, up)
    BY DEF RoundEnded
  <2> HIDE DEF rest
  <2>3. ended \in Shape(Y) /\ ended.round = NoRound /\ ended.inFlight = m.inFlight
    BY <1>1, <2>1 DEF Shape, NoRound
  <2> HIDE DEF ended
  <2>4. Fit(n) /\ n.round = NoRound /\ n.inFlight = m.inFlight
    BY <2>3, PassEndedFits DEF Fit
  <2> HIDE DEF n
  <2> QED
    BY <2>2, <2>4, NextStartSound DEF NoRound, Between
<1>3. ASSUME NEW o, NEW i
      PROVE  Between(m, [m EXCEPT !.round = [m.round EXCEPT !.stage = "ask", !.order = o, !.idle = i, !.answer = NoRun]])
  <2> DEFINE Y == X \cup {o, i}
             rd == [m.round EXCEPT !.stage = "ask", !.order = o, !.idle = i, !.answer = NoRun]
             n == [m EXCEPT !.round = rd]
  <2>1. rd \in [stage : {"none", "ask", "locked", "answered"}, order : Y, idle : Y, failing : Y,
                answer : Runs \cup {NoRun, "full"}]
        /\ rd.stage = "ask" /\ rd.answer = NoRun
    BY <1>1 DEF Shape
  <2> HIDE DEF rd
  <2>2. n \in Shape(Y) /\ n.round = rd /\ n.starts = m.starts /\ n.inFlight = m.inFlight
    BY <1>1, <2>1 DEF Shape
  <2> QED
    BY <2>1, <2>2 DEF Between, Sound, Fit, InRound, Unanswered, rd
<1> QED
  <2> DEFINE rd == m.round
             ahead == {k \in 0 .. Len(rd.order) : k < Len(rd.order) - rd.idle /\ rd.order[k + 1] \notin rd.failing}
             k == CHOOSE j \in ahead : \A i \in ahead : j <= i
             o == Rotated(rd.order, k)
             i == rd.idle + k
             on == [rd EXCEPT !.stage = "ask", !.order = o, !.idle = i, !.answer = NoRun]
  <2>1. [rd EXCEPT !.stage = "ask", !.order = Rotated(@, k), !.idle = @ + k, !.answer = NoRun] = on
    BY <1>1 DEF Shape
  <2>2. RoundGoesOn(m, up) \in {RoundEnded(m, up), [m EXCEPT !.round = on]}
    BY <2>1 DEF RoundGoesOn
  <2> HIDE DEF o, i, k, ahead
  <2>3. Between(m, [m EXCEPT !.round = on])
    BY <1>3
  <2> HIDE DEF on
  <2> QED
    BY <1>2, <2>2, <2>3

---------------------------------------------------------------------------
(* The rows *)

Rows ==
    /\ row \in [Runs -> RowType \cup {NoRun}]
    /\ overdue \subseteq With("running")

(* Open runs end, as they were decided, or rows are let go. *)
Fades ==
    /\ row' \in [Runs -> RowType \cup {NoRun}]
    /\ \A r \in Runs :
          \/ row'[r] \in {row[r], NoRun}
          \/ /\ r \in Open /\ row'[r] # NoRun
             /\ row'[r].schedule = row[r].schedule /\ row'[r].status \in {"finished", "closed"}

LEMMA MarkedType ==
    ASSUME Rows, NEW R, R \subseteq Open, NEW st \in {"running", "finished", "closed"}
    PROVE  /\ Marked(R, st) \in [Runs -> RowType \cup {NoRun}]
           /\ \A r \in R :
                 /\ r \in Runs /\ Marked(R, st)[r] # NoRun
                 /\ Marked(R, st)[r].schedule = row[r].schedule /\ Marked(R, st)[r].status = st
           /\ \A r \in Runs \ R : Marked(R, st)[r] = row[r]
<1>1. \A r \in R : r \in Runs /\ row[r] \in RowType
  BY AbsentAssumption DEF Rows, Open, With
<1>2. \A r \in R : /\ [row[r] EXCEPT !.status = st] \in RowType
                   /\ [row[r] EXCEPT !.status = st].schedule = row[r].schedule
                   /\ [row[r] EXCEPT !.status = st].status = st
  BY <1>1 DEF RowType
<1>3. Marked(R, st) = [r \in Runs |-> IF r \in R THEN [row[r] EXCEPT !.status = st] ELSE row[r]]
  BY DEF Marked
<1> QED
  BY <1>1, <1>2, <1>3, AbsentAssumption DEF Rows

LEMMA MarkedFades ==
    ASSUME Rows, NEW R, R \subseteq Open, NEW st \in {"finished", "closed"}, row' = Marked(R, st)
    PROVE  Fades
<1>1. /\ row' \in [Runs -> RowType \cup {NoRun}]
      /\ \A r \in R : row'[r] # NoRun /\ row'[r].schedule = row[r].schedule /\ row'[r].status = st
      /\ \A r \in Runs \ R : row'[r] = row[r]
  BY MarkedType
<1> QED
  BY <1>1 DEF Fades

LEMMA ClosedFades ==
    ASSUME Rows, NEW R, R \subseteq Open, row' = Closed(R)
    PROVE  Fades
<1> DEFINE c == Marked(R, "closed")
<1>1. /\ c \in [Runs -> RowType \cup {NoRun}]
      /\ \A r \in R : c[r] # NoRun /\ c[r].schedule = row[r].schedule /\ c[r].status = "closed"
      /\ \A r \in Runs \ R : c[r] = row[r]
  BY MarkedType
<1>2. row' = [r \in Runs |-> IF r \in R /\ \A p \in Servers : r \notin Holds(p) THEN NoRun ELSE c[r]]
  BY DEF Closed
<1> HIDE DEF c
<1>3. /\ row' \in [Runs -> RowType \cup {NoRun}]
      /\ \A r \in Runs : row'[r] \in {c[r], NoRun}
      /\ \A r \in Runs \ R : row'[r] = c[r]
  BY <1>1, <1>2
<1> QED
  BY <1>1, <1>3 DEF Fades

LEMMA LetGoFades ==
    ASSUME Rows, NEW R, row' = LetGo(R)
    PROVE  Fades
  BY DEF LetGo, Fades, Rows

LEMMA FadesShrinks ==
    ASSUME Rows, Fades
    PROVE  /\ Open' \subseteq Open
           /\ With("running")' \subseteq With("running")
           /\ \A r \in Open' : row'[r] = row[r]
           /\ \A r \in Runs : Ended(r) => row'[r] \in {row[r], NoRun}
  BY DEF Fades, Open, With, Ended, Rows

(* The unit of an active tenant: new rows for the schedules that fired,    *)
(* each a run of its own.                                                  *)
LEMMA FireRows ==
    ASSUME Rows, NEW p \in Servers, NEW D \in SUBSET Schedules, FireUnit(p, D)
    PROVE  LET t == Head(sched[p].pass.todo) IN
           \E I \in SUBSET {r \in Runs : row[r] = NoRun} : \E f \in [I -> Fired(t, D)] :
              /\ \A r, q \in I : f[r] = f[q] => r = q
              /\ \A r \in I : row'[r] = [schedule |-> f[r], status |-> "queued"]
              /\ \A r \in Runs \ I : row'[r] = Closed(Stale(t))[r]
              /\ row' = [r \in Runs |-> row'[r]]
<1> DEFINE t == Head(sched[p].pass.todo)
           none == {r \in Runs : row[r] = NoRun}
           free == SetToSeq(none)
           fired == Fired(t, D)
           ids == SubSeq(free, 1, Cardinality(fired))
           at(r) == CHOOSE i \in DOMAIN ids : ids[i] = r
           I == ToSet(ids)
<1>1. PICK order \in SetToSeqs(fired) :
         row' = [r \in Runs |-> IF r \in I THEN [schedule |-> order[at(r)], status |-> "queued"]
                                ELSE Closed(Stale(t))[r]]
  BY DEF FireUnit
<1>2. Cardinality(fired) <= Len(free)
  BY DEF FireUnit
<1>3. IsFiniteSet(none)
  BY FiniteAssumption, FS_Subset
<1>4. IsFiniteSet(fired)
  BY FiniteAssumption, FS_Subset DEF Fired
<1>5. free \in [1 .. Cardinality(none) -> none] /\ Cardinality(none) \in Nat
  <2> HIDE DEF none
  <2>1. PICK b \in Bijection(1 .. Cardinality(none), none) : TRUE
    BY <1>3, FS_CardinalityType DEF ExistsBijection
  <2>2. b \in [1 .. Cardinality(none) -> none] /\ IsInjective(b)
    BY <2>1 DEF Bijection, Injection, IsInjective
  <2> QED
    BY <1>3, <2>2, FS_CardinalityType DEF SetToSeq
<1>6. Cardinality(fired) \in Nat
  BY <1>4, FS_CardinalityType
<1> HIDE DEF t, free, none, fired
<1>7. /\ ids \in Seq(none) /\ Len(ids) = Cardinality(fired) /\ DOMAIN ids = 1 .. Cardinality(fired)
      /\ \A i \in DOMAIN ids : ids[i] \in none
  <2>1. free \in Seq(none)
    BY <1>5
  <2> QED
    BY <1>2, <1>6, <2>1
<1>8. /\ order \in [1 .. Cardinality(fired) -> fired]
      /\ \A i, j \in 1 .. Cardinality(fired) : i # j => order[i] # order[j]
  BY DEF SetToSeqs
<1> HIDE DEF ids
<1>9. \A r \in I : at(r) \in DOMAIN ids /\ ids[at(r)] = r
  BY DEF ToSet
<1>10. I \in SUBSET none
  BY <1>7, <1>9
<1> HIDE DEF I, at
<1> DEFINE f == [r \in I |-> order[at(r)]]
<1>11. f \in [I -> fired]
  BY <1>7, <1>8, <1>9
<1>12. \A r, q \in I : f[r] = f[q] => r = q
  BY <1>7, <1>8, <1>9
<1>13. \A r \in I : row'[r] = [schedule |-> f[r], status |-> "queued"]
  BY <1>1, <1>10 DEF none
<1>14. (\A r \in Runs \ I : row'[r] = Closed(Stale(t))[r]) /\ row' = [r \in Runs |-> row'[r]]
  BY <1>1
<1> HIDE DEF f
<1> QED
  BY <1>10, <1>11, <1>12, <1>13, <1>14 DEF none, fired, t

---------------------------------------------------------------------------
(* The schedulers, step by step *)

Shaped == \E X : sched \in [Servers -> Shape(X)]
Machines == Shaped /\ \A p \in Servers : InRound(sched[p]) /\ Unanswered(sched[p])
Modes ==
    /\ mode \in [Servers -> {"up", "stopping", "down"}]
    /\ now \in [Servers -> [schedule : Schedules \cup {Nobody}, stage : {"none", "locked", "kick"}]]
    /\ \A p \in Servers : mode[p] = "down" => sched[p] = NewScheduler /\ now[p] = NoRequest

(* A claim is under way only once it began, and a server that gives a      *)
(* running run up says so: what the steps of the schedulers come down to.  *)
LocksSame(q) == sched'[q].round.stage = "locked" => sched'[q].round = sched[q].round \/ ClaimBegins(q)
HoldsOn(q) == Holds(q) \cap With("running")' \subseteq Holds(q)' \cup orphans'

LEMMA ServerStep ==
    ASSUME Machines, NEW p \in Servers, NEW n, Sound(n), Set(p, n),
           n.round.stage = "locked" => n.round = sched[p].round \/ ClaimBegins(p),
           Holds(p) \cap With("running")' \subseteq n.inFlight \cup {n.round.answer} \cup orphans'
    PROVE  sched'[p] = n /\ Machines' /\ \A q \in Servers : LocksSame(q) /\ HoldsOn(q)
<1>1. PICK X : sched \in [Servers -> Shape(X)]
  BY DEF Machines, Shaped
<1>2. PICK Y : n \in Shape(Y)
  BY DEF Sound, Fit
<1>3. Shape(X) \subseteq Shape(X \cup Y) /\ Shape(Y) \subseteq Shape(X \cup Y)
  BY DEF Shape
<1>4. sched' \in [Servers -> Shape(X \cup Y)]
  BY <1>1, <1>2, <1>3 DEF Set
<1>5. sched'[p] = n /\ \A q \in Servers \ {p} : sched'[q] = sched[q]
  BY <1>1 DEF Set
<1>6. Machines'
  BY <1>4, <1>5 DEF Machines, Shaped, Sound, InRound, Unanswered
<1>7. \A q \in Servers : LocksSame(q) /\ HoldsOn(q)
  BY <1>5 DEF LocksSame, HoldsOn, Holds
<1> QED
  BY <1>5, <1>6, <1>7

LEMMA SoundAt ==
    ASSUME Machines, NEW p \in Servers
    PROVE  Sound(sched[p]) /\ sched[p].round.answer \in Runs \cup {NoRun, "full"} /\ sched[p].inFlight \in SUBSET Runs
<1>1. PICK X : sched \in [Servers -> Shape(X)]
  BY DEF Machines, Shaped
<1>2. sched[p] \in Shape(X)
  BY <1>1
<1> QED
  BY <1>2 DEF Machines, Sound, Fit, Shape

(* A step that edits the pass, the lists or the kicks: the round and the   *)
(* runs in flight stay.                                                    *)
LEMMA EditStep ==
    ASSUME Machines, NEW p \in Servers, NEW n, Fit(n), Set(p, n),
           n.round = sched[p].round, n.starts = sched[p].starts, n.inFlight = sched[p].inFlight
    PROVE  Machines' /\ \A q \in Servers : LocksSame(q) /\ HoldsOn(q)
<1>1. Sound(n)
  BY SoundAt DEF Sound, InRound, Unanswered
<1> QED
  BY <1>1, ServerStep DEF Holds

LEMMA NewPassFits ==
    ASSUME NEW m, Fit(m)
    PROVE  LET n == [m EXCEPT !.pass = NewPass]
           IN  Fit(n) /\ n.round = m.round /\ n.starts = m.starts /\ n.inFlight = m.inFlight
<1>1. PICK X : m \in Shape(X)
  BY DEF Fit
<1> DEFINE Y == X \cup {TenantList, <<>>, {}}
           n == [m EXCEPT !.pass = NewPass]
<1>2. NewPass \in [stage : Stages, todo : Y, licensed : Y, waiting : Y]
  BY DEF NewPass, NoPass, Stages
<1> HIDE DEF NewPass
<1>3. n \in Shape(Y) /\ n.round = m.round /\ n.starts = m.starts /\ n.inFlight = m.inFlight
  BY <1>1, <1>2 DEF Shape
<1> QED
  BY <1>3 DEF Fit

(* n is m with another pass. *)
PassOnly(m, n) == Fit(n) /\ n.round = m.round /\ n.starts = m.starts /\ n.inFlight = m.inFlight

LEMMA PassFits ==
    ASSUME NEW m, Fit(m), NEW st \in Stages, NEW x, NEW y
    PROVE  /\ PassOnly(m, [m EXCEPT !.pass.stage = st])
           /\ PassOnly(m, [m EXCEPT !.pass.stage = st, !.pass.todo = x])
           /\ PassOnly(m, [m EXCEPT !.pass.stage = st, !.pass.licensed = x])
           /\ PassOnly(m, [m EXCEPT !.pass.stage = st, !.pass.licensed = x, !.pass.waiting = y])
<1>1. PICK X : m \in Shape(X)
  BY DEF Fit
<1> DEFINE Y == X \cup {x, y}
<1>2. ASSUME NEW ps \in [stage : Stages, todo : Y, licensed : Y, waiting : Y]
      PROVE  PassOnly(m, [m EXCEPT !.pass = ps])
  <2> DEFINE n == [m EXCEPT !.pass = ps]
  <2>1. n \in Shape(Y) /\ n.round = m.round /\ n.starts = m.starts /\ n.inFlight = m.inFlight
    BY <1>1 DEF Shape
  <2> QED
    BY <2>1 DEF Fit, PassOnly
<1>3. /\ [m.pass EXCEPT !.stage = st] \in [stage : Stages, todo : Y, licensed : Y, waiting : Y]
      /\ [m.pass EXCEPT !.stage = st, !.todo = x] \in [stage : Stages, todo : Y, licensed : Y, waiting : Y]
      /\ [m.pass EXCEPT !.stage = st, !.licensed = x] \in [stage : Stages, todo : Y, licensed : Y, waiting : Y]
      /\ [m.pass EXCEPT !.stage = st, !.licensed = x, !.waiting = y]
            \in [stage : Stages, todo : Y, licensed : Y, waiting : Y]
  BY <1>1 DEF Shape
<1>4. /\ [m EXCEPT !.pass.stage = st] = [m EXCEPT !.pass = [m.pass EXCEPT !.stage = st]]
      /\ [m EXCEPT !.pass.stage = st, !.pass.todo = x]
            = [m EXCEPT !.pass = [m.pass EXCEPT !.stage = st, !.todo = x]]
      /\ [m EXCEPT !.pass.stage = st, !.pass.licensed = x]
            = [m EXCEPT !.pass = [m.pass EXCEPT !.stage = st, !.licensed = x]]
      /\ [m EXCEPT !.pass.stage = st, !.pass.licensed = x, !.pass.waiting = y]
            = [m EXCEPT !.pass = [m.pass EXCEPT !.stage = st, !.licensed = x, !.waiting = y]]
  BY <1>1 DEF Shape
<1> QED
  BY <1>2, <1>3, <1>4

LEMMA PassMachines ==
    ASSUME Machines, NEW p \in Servers,
           Tick(p) \/ (\E D \in SUBSET Schedules : FireUnit(p, D)) \/ PassOver(p) \/ Unlicensed(p) \/ UnitFails(p)
    PROVE  Machines' /\ \A q \in Servers : LocksSame(q) /\ HoldsOn(q)
<1> DEFINE m == sched[p]
           t == Head(m.pass.todo)
<1>0. Fit(m)
  BY SoundAt DEF Sound
<1>1. CASE Tick(p)
  BY <1>0, <1>1, NewPassFits, EditStep DEF Tick
<1>2. ASSUME NEW D \in SUBSET Schedules, FireUnit(p, D)
      PROVE  Machines' /\ \A q \in Servers : LocksSame(q) /\ HoldsOn(q)
  <2>1. PICK l, w : Set(p, [m EXCEPT !.pass.stage = "answered", !.pass.licensed = l, !.pass.waiting = w])
    <3> DEFINE free == SetToSeq({r \in Runs : row[r] = NoRun})
               ids == SubSeq(free, 1, Cardinality(Fired(t, D)))
               l == Append(m.pass.licensed, t)
               w == IF HasQueuedRun(t, ids) THEN m.pass.waiting \cup {t} ELSE m.pass.waiting
    <3>1. Set(p, [m EXCEPT !.pass.stage = "answered", !.pass.licensed = Append(@, t),
                            !.pass.waiting = IF HasQueuedRun(t, ids) THEN @ \cup {t} ELSE @])
      BY <1>2 DEF FireUnit
    <3>2. PICK X : m \in Shape(X)
      BY <1>0 DEF Fit
    <3>3. [m EXCEPT !.pass.stage = "answered", !.pass.licensed = Append(@, t),
                    !.pass.waiting = IF HasQueuedRun(t, ids) THEN @ \cup {t} ELSE @]
          = [m EXCEPT !.pass.stage = "answered", !.pass.licensed = l, !.pass.waiting = w]
      <4> HIDE DEF ids, free, t, m
      <4> QED
        BY <3>2 DEF Shape
    <3> QED
      BY <3>1, <3>3
  <2>2. PassOnly(m, [m EXCEPT !.pass.stage = "answered", !.pass.licensed = l, !.pass.waiting = w])
    BY <1>0, PassFits DEF Stages
  <2> QED
    BY <2>1, <2>2, EditStep DEF PassOnly
<1>3. CASE PassOver(p) \/ Unlicensed(p)
  <2>1. Set(p, [m EXCEPT !.pass.stage = "answered"])
    BY <1>3 DEF PassOver, Unlicensed
  <2>2. PassOnly(m, [m EXCEPT !.pass.stage = "answered"])
    BY <1>0, PassFits DEF Stages
  <2> QED
    BY <2>1, <2>2, EditStep DEF PassOnly
<1>4. CASE UnitFails(p)
  <2>1. PICK noted : Set(p, [m EXCEPT !.pass.stage = "answered", !.pass.licensed = @ \o noted])
    BY <1>4 DEF UnitFails
  <2>2. PICK X : m \in Shape(X)
    BY <1>0 DEF Fit
  <2> DEFINE l == m.pass.licensed \o noted
  <2>3. [m EXCEPT !.pass.stage = "answered", !.pass.licensed = @ \o noted]
        = [m EXCEPT !.pass.stage = "answered", !.pass.licensed = l]
    <3> HIDE DEF m
    <3> QED
      BY <2>2 DEF Shape
  <2>4. PassOnly(m, [m EXCEPT !.pass.stage = "answered", !.pass.licensed = l])
    BY <1>0, PassFits DEF Stages
  <2> QED
    BY <2>1, <2>3, <2>4, EditStep DEF PassOnly
<1> QED
  BY <1>1, <1>2, <1>3, <1>4

(* A start that is queued, for the pass or for a freed place.  The runs in *)
(* flight have changed before, if at all.                                  *)
LEMMA StartStep ==
    ASSUME Machines, NEW p \in Servers, NEW m, Sound(m), m.round = sched[p].round,
           NEW kind \in {"pass", "more"}, NEW up \in BOOLEAN, Set(p, StartQueued(m, kind, up)),
           sched[p].inFlight \cap With("running")' \subseteq m.inFlight \cup orphans'
    PROVE  Machines' /\ \A q \in Servers : LocksSame(q) /\ HoldsOn(q)
<1> DEFINE n == StartQueued(m, kind, up)
<1>1. \/ Between(m, n) /\ m.round.stage = "none"
      \/ Sound(n) /\ n.round = m.round /\ n.inFlight = m.inFlight
  BY StartQueuedSound
<1>2. Sound(n) /\ n.inFlight = m.inFlight
  BY <1>1 DEF Between
<1>3. n.round.stage = "locked" => n.round = sched[p].round
  BY <1>1 DEF Between
<1>4. n.round.answer = m.round.answer \/ m.round.answer = NoRun
  BY <1>1 DEF Sound, Unanswered
<1>5. With("running")' \subseteq Runs /\ NoRun \notin Runs
  BY AbsentAssumption DEF With
<1> HIDE DEF n
<1>6. Holds(p) \cap With("running")' \subseteq n.inFlight \cup {n.round.answer} \cup orphans'
  BY <1>2, <1>4, <1>5 DEF Holds
<1> QED
  BY <1>2, <1>3, <1>6, ServerStep DEF n

LEMMA UnitAnsweredMachines ==
    ASSUME Machines, NEW p \in Servers, UnitAnswered(p), Up(p) \in BOOLEAN
    PROVE  Machines' /\ \A q \in Servers : LocksSame(q) /\ HoldsOn(q)
<1> DEFINE todo == Tail(sched[p].pass.todo)
           m == [sched[p] EXCEPT !.pass.stage = "unit", !.pass.todo = todo]
           listed == [m EXCEPT !.licensed = m.pass.licensed, !.waiting = m.pass.waiting]
           taken == [listed EXCEPT !.waiting = listed.waiting \cup listed.kicked, !.kicked = {}]
           n == [taken EXCEPT !.pass = [NoPass EXCEPT !.stage = "starting"]]
<1>0. Fit(sched[p]) /\ Sound(sched[p])
  BY SoundAt DEF Sound
<1>1. PICK X : sched[p] \in Shape(X)
  BY <1>0 DEF Fit
<1>2. [sched[p] EXCEPT !.pass.stage = "unit", !.pass.todo = Tail(@)] = m
  BY <1>1 DEF Shape
<1>3. PassOnly(sched[p], m)
  BY <1>0, PassFits DEF Stages
<1>4. Set(p, IF m.pass.todo = <<>> THEN StartQueued(Listed(m), "pass", Up(p)) ELSE m)
  BY <1>2 DEF UnitAnswered
<1> HIDE DEF m
<1>5. CASE m.pass.todo # <<>>
  BY <1>3, <1>4, <1>5, EditStep DEF PassOnly
<1>6. CASE m.pass.todo = <<>>
  <2>1. PICK Y : m \in Shape(Y)
    BY <1>3 DEF PassOnly, Fit
  <2> DEFINE W == m.pass.waiting \cup m.kicked
             Z == Y \cup {W, {}, <<>>}
  <2>2. listed \in Shape(Y) /\ listed.round = m.round /\ listed.starts = m.starts
        /\ listed.inFlight = m.inFlight /\ listed.waiting = m.pass.waiting /\ listed.kicked = m.kicked
    BY <2>1 DEF Shape
  <2> HIDE DEF listed
  <2>3. taken \in Shape(Z) /\ taken.round = m.round /\ taken.starts = m.starts /\ taken.inFlight = m.inFlight
    BY <2>2 DEF Shape
  <2>4. taken = TakeKicked(listed)
    BY <2>2 DEF TakeKicked, Shape
  <2> HIDE DEF taken
  <2>5. [NoPass EXCEPT !.stage = "starting"] \in [stage : Stages, todo : Z, licensed : Z, waiting : Z]
    BY DEF NoPass, Stages
  <2> HIDE DEF NoPass
  <2>6. n \in Shape(Z) /\ n.round = m.round /\ n.starts = m.starts /\ n.inFlight = m.inFlight
    BY <2>3, <2>5, ZenonT(40) DEF Shape
  <2>7. Listed(m) = n
    BY <2>4 DEF Listed, listed
  <2> HIDE DEF n
  <2>8. Sound(n) /\ n.round = sched[p].round /\ n.inFlight = sched[p].inFlight
    BY <1>0, <1>3, <2>6 DEF Sound, Fit, InRound, Unanswered, PassOnly
  <2>9. Set(p, StartQueued(n, "pass", Up(p)))
    BY <1>4, <1>6, <2>7
  <2> QED
    BY <2>8, <2>9, StartStep
<1> QED
  BY <1>5, <1>6

LEMMA ClaimMachines ==
    ASSUME Machines, NEW p \in Servers, ClaimBegins(p) \/ ClaimCommits(p)
    PROVE  Machines' /\ \A q \in Servers : LocksSame(q) /\ HoldsOn(q)
<1> DEFINE m == sched[p]
           n(st, a) == [m EXCEPT !.round.stage = st, !.round.answer = a]
<1>1. PICK X : m \in Shape(X)
  BY SoundAt DEF Sound, Fit
<1>2. m.starts # <<>> /\ m.round.answer = NoRun
  BY SoundAt DEF Sound, InRound, Unanswered, ClaimBegins, ClaimCommits
<1>3. ASSUME NEW st \in {"locked", "answered"}, NEW a \in Runs \cup {NoRun, "full"}
      PROVE  /\ n(st, a) \in Shape(X) /\ n(st, a).starts = m.starts /\ n(st, a).inFlight = m.inFlight
             /\ n(st, a).round.stage = st /\ n(st, a).round.answer = a
  <2> HIDE DEF m
  <2> QED
    BY <1>1 DEF Shape
<1>4. PICK st \in {"locked", "answered"}, a \in Runs \cup {NoRun, "full"} :
         /\ Set(p, n(st, a))
         /\ st = "locked" => a = NoRun /\ ClaimBegins(p)
  <2>1. CASE ClaimBegins(p)
    BY <2>1 DEF ClaimBegins, SetRound
  <2>2. CASE ClaimCommits(p)
    BY <2>2 DEF ClaimCommits, SetRound, OfTenant, With
  <2> QED
    BY <2>1, <2>2
<1> HIDE DEF n, m
<1>5. Sound(n(st, a))
  BY <1>2, <1>3, <1>4 DEF Sound, Fit, InRound, Unanswered
<1>6. With("running")' \subseteq Runs /\ NoRun \notin Runs
  BY AbsentAssumption DEF With
<1>7. Holds(p) \cap With("running")' \subseteq n(st, a).inFlight \cup {n(st, a).round.answer} \cup orphans'
  BY <1>2, <1>3, <1>6 DEF Holds, m
<1> QED
  BY <1>3, <1>4, <1>5, <1>7, ServerStep

(* What is done with a claim's answer: the round goes on without it.       *)
LEMMA RoundStep ==
    ASSUME Machines, NEW p \in Servers, NEW m, Fit(m), m.starts # <<>>, NEW up \in BOOLEAN,
           Set(p, RoundGoesOn(m, up)),
           Holds(p) \cap With("running")' \subseteq m.inFlight \cup orphans'
    PROVE  /\ sched'[p].round.stage # "locked"
           /\ Machines' /\ \A q \in Servers : LocksSame(q) /\ HoldsOn(q)
<1> DEFINE n == RoundGoesOn(m, up)
<1>1. Between(m, n)
  BY RoundGoesOnSound
<1> HIDE DEF n
<1>2. Sound(n) /\ n.round.stage # "locked" /\ n.inFlight = m.inFlight
  BY <1>1 DEF Between
<1>3. Holds(p) \cap With("running")' \subseteq n.inFlight \cup {n.round.answer} \cup orphans'
  BY <1>2
<1> QED
  BY <1>2, <1>3, ServerStep DEF n

LEMMA AnswerMachines ==
    ASSUME Machines, NEW p \in Servers, ClaimAnswered(p) \/ ClaimFails(p), Up(p) \in BOOLEAN
    PROVE  /\ sched'[p].round.stage # "locked"
           /\ Machines' /\ \A q \in Servers : LocksSame(q) /\ HoldsOn(q)
<1> DEFINE m == sched[p]
           t == Asked(p)
           answer == m.round.answer
<1>1. PICK X : m \in Shape(X)
  BY SoundAt DEF Sound, Fit
<1>2. m.starts # <<>>
  BY SoundAt DEF Sound, InRound, ClaimAnswered, ClaimFails
<1>3. With("running")' \subseteq Runs /\ NoRun \notin Runs /\ "full" \notin Runs
  BY AbsentAssumption DEF With
<1>4. ASSUME NEW n, n \in Shape(X) \/ Fit(n), n.starts = m.starts, Set(p, RoundGoesOn(n, Up(p))),
             m.inFlight \subseteq n.inFlight, {answer} \cap With("running")' \subseteq n.inFlight \cup orphans'
      PROVE  /\ sched'[p].round.stage # "locked"
             /\ Machines' /\ \A q \in Servers : LocksSame(q) /\ HoldsOn(q)
  <2>1. Fit(n)
    BY <1>4 DEF Fit
  <2>2. Holds(p) \cap With("running")' \subseteq n.inFlight \cup orphans'
    BY <1>4 DEF Holds
  <2> QED
    BY <1>2, <1>4, <2>1, <2>2, RoundStep
<1>5. ASSUME NEW o, NEW i, NEW f, NEW w, NEW tu
      PROVE  /\ Fit([m EXCEPT !.round = [m.round EXCEPT !.order = o, !.idle = i]])
             /\ Fit([m EXCEPT !.round = [m.round EXCEPT !.order = o, !.idle = i], !.waiting = w])
             /\ Fit([m EXCEPT !.round = [m.round EXCEPT !.order = o, !.idle = i, !.failing = f], !.turn = tu])
             /\ \A r \in Runs :
                   Fit([m EXCEPT !.inFlight = @ \cup {r}, !.turn = tu, !.round.order = o, !.round.idle = i])
  <2> DEFINE Y == X \cup {o, i, f, w, tu}
  <2> HIDE DEF m
  <2>1. m \in Shape(Y)
    BY <1>1 DEF Shape
  <2>2. /\ [m EXCEPT !.round = [m.round EXCEPT !.order = o, !.idle = i]] \in Shape(Y)
        /\ [m EXCEPT !.round = [m.round EXCEPT !.order = o, !.idle = i], !.waiting = w] \in Shape(Y)
    BY <2>1 DEF Shape
  <2>3. [m EXCEPT !.round = [m.round EXCEPT !.order = o, !.idle = i, !.failing = f], !.turn = tu] \in Shape(Y)
    BY <2>1 DEF Shape
  <2>4. \A r \in Runs :
           [m EXCEPT !.inFlight = @ \cup {r}, !.turn = tu, !.round.order = o, !.round.idle = i] \in Shape(Y)
    BY <2>1 DEF Shape
  <2> QED
    BY <2>2, <2>3, <2>4 DEF Fit
<1> DEFINE o == Rotated(m.round.order, 1)
           i == m.round.idle + 1
<1>6. EmptyTurn(m.round) = [m.round EXCEPT !.order = o, !.idle = i]
  <2>1. m.round \in [stage : {"none", "ask", "locked", "answered"}, order : X, idle : X, failing : X,
                     answer : Runs \cup {NoRun, "full"}]
    BY <1>1 DEF Shape
  <2> QED
    BY <2>1 DEF EmptyTurn
<1>7. CASE ClaimAnswered(p)
  <2>1. CASE answer \in Runs /\ Set(p, RoundGoesOn(Launched(m, answer), Up(p)))
    <3> DEFINE tu == Following(m.round)
               n == [m EXCEPT !.inFlight = @ \cup {answer}, !.turn = tu, !.round.order = o, !.round.idle = 0]
    <3>1. Launched(m, answer) = n
      <4> HIDE DEF m, tu
      <4> QED
        BY <1>1 DEF Launched, Shape, tu
    <3>2. Fit(n)
      BY <1>5, <2>1
    <3>3. n.starts = m.starts /\ n.inFlight = m.inFlight \cup {answer}
      <4> HIDE DEF m, o, tu
      <4> QED
        BY <1>1 DEF Shape
    <3> HIDE DEF n
    <3> QED
      BY <1>4, <2>1, <3>1, <3>2, <3>3
  <2>2. CASE answer = "full" /\ Set(p, RoundGoesOn([m EXCEPT !.round = EmptyTurn(@)], Up(p)))
    <3> DEFINE n == [m EXCEPT !.round = [m.round EXCEPT !.order = o, !.idle = i]]
    <3>1. [m EXCEPT !.round = EmptyTurn(@)] = n
      BY <1>1, <1>6 DEF Shape
    <3>2. Fit(n)
      BY <1>5
    <3>3. n.starts = m.starts /\ n.inFlight = m.inFlight
      <4> HIDE DEF m, o, i
      <4> QED
        BY <1>1 DEF Shape
    <3> HIDE DEF n
    <3> QED
      BY <1>3, <1>4, <2>2, <3>1, <3>2, <3>3
  <2>3. CASE answer = NoRun
             /\ Set(p, RoundGoesOn([m EXCEPT !.round = EmptyTurn(@), !.waiting = @ \ {t}], Up(p)))
    <3> DEFINE w == m.waiting \ {t}
               n == [m EXCEPT !.round = [m.round EXCEPT !.order = o, !.idle = i], !.waiting = w]
    <3>1. [m EXCEPT !.round = EmptyTurn(@), !.waiting = @ \ {t}] = n
      BY <1>1, <1>6 DEF Shape
    <3>2. Fit(n)
      BY <1>5
    <3>3. n.starts = m.starts /\ n.inFlight = m.inFlight
      <4> HIDE DEF m, o, i, w
      <4> QED
        BY <1>1 DEF Shape
    <3> HIDE DEF n
    <3> QED
      BY <1>3, <1>4, <2>3, <3>1, <3>2, <3>3
  <2> QED
    BY <1>7, <2>1, <2>2, <2>3 DEF ClaimAnswered
<1>8. CASE ClaimFails(p)
  <2> DEFINE tu == IF m.turn = t THEN Following(m.round) ELSE m.turn
             f == m.round.failing \cup {t}
             n == [m EXCEPT !.round = [m.round EXCEPT !.order = o, !.idle = i, !.failing = f], !.turn = tu]
  <2>1. [m EXCEPT !.round = [EmptyTurn(m.round) EXCEPT !.failing = @ \cup {t}], !.turn = tu] = n
    <3>1. [[m.round EXCEPT !.order = o, !.idle = i] EXCEPT !.failing = @ \cup {t}]
          = [m.round EXCEPT !.order = o, !.idle = i, !.failing = f]
      <4> HIDE DEF m, o, i, t
      <4> QED
        BY <1>1 DEF Shape
    <3>2. [EmptyTurn(m.round) EXCEPT !.failing = @ \cup {t}]
          = [m.round EXCEPT !.order = o, !.idle = i, !.failing = f]
      BY <1>6, <3>1
    <3> HIDE DEF m, o, i, t, f, tu
    <3> QED
      BY <1>1, <3>2 DEF Shape
  <2>2. Set(p, RoundGoesOn(n, Up(p)))
    BY <1>8, <2>1 DEF ClaimFails
  <2>3. Fit(n)
    BY <1>5
  <2>4. n.starts = m.starts /\ n.inFlight = m.inFlight
    <3> HIDE DEF m, o, i, f, tu
    <3> QED
      BY <1>1 DEF Shape
  <2>5. {answer} \cap With("running")' \subseteq orphans'
    <3>1. With("running")' \subseteq With("running")
      BY <1>8 DEF ClaimFails, LetGo, With
    <3> QED
      BY <1>8, <3>1 DEF ClaimFails
  <2> HIDE DEF n
  <2> QED
    BY <1>4, <2>2, <2>3, <2>4, <2>5
<1> QED
  BY <1>7, <1>8

LEMMA FreeMachines ==
    ASSUME Machines, NEW p \in Servers, NEW r \in Runs, Finish(p, r) \/ StoreFails(p, r), Up(p) \in BOOLEAN
    PROVE  Machines' /\ \A q \in Servers : LocksSame(q) /\ HoldsOn(q)
<1> DEFINE left == sched[p].inFlight \ {r}
           m == [sched[p] EXCEPT !.inFlight = left]
<1>1. Sound(sched[p]) /\ left \in SUBSET Runs
  BY SoundAt
<1>2. PICK X : sched[p] \in Shape(X)
  BY <1>1 DEF Sound, Fit
<1>3. [sched[p] EXCEPT !.inFlight = @ \ {r}] = m
  BY <1>2 DEF Shape
<1>4. Set(p, IF Up(p) THEN StartQueued(m, "more", Up(p)) ELSE m)
  BY <1>3 DEF Finish, StoreFails, Free
<1> HIDE DEF left
<1>5. m \in Shape(X) /\ m.round = sched[p].round /\ m.starts = sched[p].starts /\ m.inFlight = left
  BY <1>1, <1>2 DEF Shape
<1> HIDE DEF m
<1>6. Sound(m)
  BY <1>1, <1>5 DEF Sound, Fit, InRound, Unanswered
<1>7. sched[p].inFlight \cap With("running")' \subseteq m.inFlight \cup orphans'
  <2>1. CASE Finish(p, r)
    <3>1. r \notin With("running")'
      BY <2>1 DEF Finish, LetGo, With
    <3> QED
      BY <1>5, <3>1 DEF left
  <2>2. CASE StoreFails(p, r)
    BY <1>5, <2>2 DEF StoreFails, left
  <2> QED
    BY <2>1, <2>2
<1>8. CASE Up(p)
  BY <1>4, <1>5, <1>6, <1>7, <1>8, StartStep
<1>9. CASE ~Up(p)
  <2>1. Set(p, m)
    BY <1>4, <1>9
  <2>2. Holds(p) \cap With("running")' \subseteq m.inFlight \cup {m.round.answer} \cup orphans'
    BY <1>5, <1>7 DEF Holds
  <2> QED
    BY <1>5, <1>6, <2>1, <2>2, ServerStep
<1> QED
  BY <1>8, <1>9

LEMMA KickMachines ==
    ASSUME Machines, NEW p \in Servers, Kick(p)
    PROVE  Machines' /\ \A q \in Servers : LocksSame(q) /\ HoldsOn(q)
<1> DEFINE k == sched[p].kicked \cup {TenantOf[now[p].schedule]}
           m == [sched[p] EXCEPT !.kicked = k]
<1>1. PICK X : sched[p] \in Shape(X)
  BY SoundAt DEF Sound, Fit
<1>2. [sched[p] EXCEPT !.kicked = @ \cup {TenantOf[now[p].schedule]}] = m
  BY <1>1 DEF Shape
<1> HIDE DEF k
<1>3. \/ Set(p, m)
      \/ Set(p, [m EXCEPT !.pass = NewPass])
      \/ Set(p, [m EXCEPT !.kicks = @ + 1])
  BY <1>2 DEF Kick, k
<1>4. Fit(m)
  BY SoundAt, Replace DEF Sound
<1>5. m.round = sched[p].round /\ m.starts = sched[p].starts /\ m.inFlight = sched[p].inFlight
  BY <1>1 DEF Shape
<1> HIDE DEF m
<1>6. CASE Set(p, m)
  BY <1>4, <1>5, <1>6, EditStep
<1>7. CASE Set(p, [m EXCEPT !.pass = NewPass])
  BY <1>4, <1>5, <1>7, NewPassFits, EditStep
<1>8. CASE Set(p, [m EXCEPT !.kicks = @ + 1])
  <2>1. PICK Y : m \in Shape(Y)
    BY <1>4 DEF Fit
  <2> DEFINE n == [m EXCEPT !.kicks = @ + 1]
  <2>2. n \in Shape(Y) /\ n.round = m.round /\ n.starts = m.starts /\ n.inFlight = m.inFlight
    BY <2>1, SMTT(40) DEF Shape
  <2> HIDE DEF n
  <2>3. Fit(n)
    BY <2>2 DEF Fit
  <2> QED
    BY <1>5, <1>8, <2>2, <2>3, EditStep DEF n
<1> QED
  BY <1>3, <1>6, <1>7, <1>8

LEMMA LifeMachines ==
    ASSUME Machines, Modes, NEW p \in Servers, Stopped(p) \/ Crash(p) \/ Restart(p)
    PROVE  Machines' /\ \A q \in Servers : LocksSame(q) /\ HoldsOn(q)
<1>1. /\ Sound(NewScheduler) /\ Sound(Started)
      /\ NewScheduler.round.stage = "none" /\ NewScheduler.inFlight = {} /\ NewScheduler.round.answer = NoRun
      /\ Started.round.stage = "none" /\ NewScheduler.starts = <<>>
  BY NewIsSound DEF NewScheduler, Started, NoRound
<1>2. With("running")' \subseteq Runs /\ NoRun \notin Runs
  BY AbsentAssumption DEF With
<1>3. CASE Crash(p)
  <2>1. With("running")' \subseteq With("running")
    BY <1>3 DEF Crash, LetGo, With
  <2>2. Holds(p) \cap With("running")' \subseteq orphans'
    BY <1>3, <2>1 DEF Crash
  <2> QED
    BY <1>1, <1>3, <2>2, ServerStep DEF Crash
<1>4. CASE Stopped(p)
  <2>1. sched[p].inFlight = {} /\ sched[p].round.answer = NoRun
    BY <1>4, SoundAt DEF Stopped, Idle, Sound, InRound, Unanswered
  <2> QED
    BY <1>1, <1>2, <1>4, <2>1, ServerStep DEF Stopped, Holds
<1>5. CASE Restart(p)
  <2>1. sched[p].inFlight = {} /\ sched[p].round.answer = NoRun
    BY <1>1, <1>5 DEF Restart, Modes
  <2> QED
    BY <1>1, <1>2, <1>5, <2>1, ServerStep DEF Restart, Holds
<1> QED
  BY <1>3, <1>4, <1>5

LEMMA MachinesStay ==
    ASSUME Machines, UNCHANGED sched
    PROVE  Machines' /\ \A q \in Servers : LocksSame(q) /\ HoldsOn(q)
  BY DEF Machines, Shaped, LocksSame, HoldsOn, Holds, InRound, Unanswered

(* Every step keeps the schedulers sound. *)
LEMMA MachinesStep ==
    ASSUME Machines, Modes, [Next]_vars
    PROVE  Machines' /\ \A q \in Servers : LocksSame(q) /\ HoldsOn(q)
<1>0. \A p \in Servers : Up(p) \in BOOLEAN
  BY DEF Up
<1>1. ASSUME NEW p \in Servers,
             \/ \E r \in Runs : Store(p, r) \/ RunNowCommits(p, r)
             \/ \E s \in Schedules : RunNowBegins(p, s)
             \/ Stop(p)
      PROVE  UNCHANGED sched
  BY <1>1 DEF Store, RunNowCommits, RunNowBegins, Stop
<1>2. ASSUME NEW r \in Runs, Cancel(r) \/ Overdue(r) PROVE UNCHANGED sched
  BY <1>2 DEF Cancel, Overdue
<1>3. ASSUME NEW t, NEW st, SetStatus(t, st) PROVE UNCHANGED sched
  BY <1>3 DEF SetStatus
<1>4. CASE UNCHANGED vars
  BY <1>4, MachinesStay DEF vars
<1>5. ASSUME NEW p \in Servers, PassStep(p) \/ Tick(p) \/ UnitFails(p)
      PROVE  Machines' /\ \A q \in Servers : LocksSame(q) /\ HoldsOn(q)
  BY <1>0, <1>5, PassMachines, UnitAnsweredMachines DEF PassStep
<1>6. ASSUME NEW p \in Servers, ClaimStep(p) \/ ClaimBegins(p) \/ ClaimFails(p)
      PROVE  Machines' /\ \A q \in Servers : LocksSame(q) /\ HoldsOn(q)
  BY <1>0, <1>6, ClaimMachines, AnswerMachines DEF ClaimStep
<1>7. ASSUME NEW p \in Servers, NEW r \in Runs, Finish(p, r) \/ StoreFails(p, r)
      PROVE  Machines' /\ \A q \in Servers : LocksSame(q) /\ HoldsOn(q)
  BY <1>0, <1>7, FreeMachines
<1> QED
  BY <1>1, <1>2, <1>3, <1>4, <1>5, <1>6, <1>7, KickMachines, LifeMachines, MachinesStay DEF Next, RequestStep

(* A server that is down does nothing, and comes back as a new one. *)
LEMMA ModesStep ==
    ASSUME Machines, Modes, [Next]_vars
    PROVE  Modes'
<1> DEFINE NowType == [schedule : Schedules \cup {Nobody}, stage : {"none", "locked", "kick"}]
<1>0. NewScheduler.pass.stage = "none" /\ NewScheduler.round.stage = "none" /\ NewScheduler.inFlight = {}
      /\ NoRequest.stage = "none" /\ NoRequest \in NowType
  BY DEF NewScheduler, NoPass, NoRound, NoRequest
<1>1. PICK X : sched \in [Servers -> Shape(X)]
  BY DEF Machines, Shaped
<1>2. mode \in [Servers -> {"up", "stopping", "down"}] /\ now \in [Servers -> NowType]
  BY DEF Modes
<1>3. ASSUME NEW p \in Servers, NEW n, Set(p, n), UNCHANGED <<mode, now>>, mode[p] # "down"
      PROVE  Modes'
  <2>1. \A q \in Servers : q # p => sched'[q] = sched[q]
    BY <1>1, <1>3 DEF Set
  <2> QED
    BY <1>2, <1>3, <2>1 DEF Modes
<1>4. ASSUME NEW p \in Servers, PassStep(p) \/ Tick(p) \/ UnitFails(p) PROVE Modes'
  <2>1. mode[p] # "down"
    BY <1>0, <1>4 DEF PassStep, Tick, UnitFails, FireUnit, PassOver, Unlicensed, UnitAnswered, Up, Modes
  <2>2. UNCHANGED <<mode, now>>
    BY <1>4 DEF PassStep, Tick, UnitFails, FireUnit, PassOver, Unlicensed, UnitAnswered
  <2>3. \E n : Set(p, n)
    BY <1>4, Zenon DEF PassStep, Tick, UnitFails, FireUnit, PassOver, Unlicensed, UnitAnswered
  <2> QED
    BY <1>3, <2>1, <2>2, <2>3
<1>5. ASSUME NEW p \in Servers, ClaimStep(p) \/ ClaimBegins(p) \/ ClaimFails(p) PROVE Modes'
  <2>1. mode[p] # "down"
    BY <1>0, <1>5 DEF ClaimStep, ClaimCommits, ClaimAnswered, ClaimBegins, ClaimFails, Modes
  <2>2. UNCHANGED <<mode, now>>
    BY <1>5 DEF ClaimStep, ClaimCommits, ClaimAnswered, ClaimBegins, ClaimFails
  <2>3. \E n : Set(p, n)
    BY <1>5, Zenon DEF ClaimStep, ClaimCommits, ClaimAnswered, ClaimBegins, ClaimFails, SetRound
  <2> QED
    BY <1>3, <2>1, <2>2, <2>3
<1>6. ASSUME NEW p \in Servers, NEW r \in Runs, Finish(p, r) \/ StoreFails(p, r) PROVE Modes'
  <2>1. mode[p] # "down"
    BY <1>0, <1>6 DEF Finish, StoreFails, Modes
  <2>2. UNCHANGED <<mode, now>>
    BY <1>6 DEF Finish, StoreFails
  <2>3. \E n : Set(p, n)
    BY <1>6, Zenon DEF Finish, StoreFails, Free
  <2> QED
    BY <1>3, <2>1, <2>2, <2>3
<1>7. ASSUME NEW p \in Servers, Kick(p) PROVE Modes'
  <2>1. mode[p] # "down"
    BY <1>0, <1>7 DEF Kick, Modes
  <2>2. \E n : Set(p, n)
    BY <1>7, Zenon DEF Kick
  <2>3. \A q \in Servers : q # p => sched'[q] = sched[q]
    BY <1>1, <2>2 DEF Set
  <2>4. now' = [now EXCEPT ![p] = NoRequest] /\ mode' = mode
    BY <1>7 DEF Kick
  <2> QED
    BY <1>0, <1>2, <2>1, <2>3, <2>4 DEF Modes
<1>8. ASSUME NEW p \in Servers, NEW s \in Schedules, RunNowBegins(p, s) PROVE Modes'
  <2>1. mode[p] = "up" /\ UNCHANGED <<mode, sched>> /\ now' = [now EXCEPT ![p] = [schedule |-> s, stage |-> "locked"]]
    BY <1>8 DEF RunNowBegins, Up
  <2> QED
    BY <1>2, <2>1 DEF Modes
<1>9. ASSUME NEW p \in Servers, NEW r \in Runs, RunNowCommits(p, r) PROVE Modes'
  <2>1. now[p].stage = "locked" /\ UNCHANGED <<mode, sched>> /\ now' = [now EXCEPT ![p].stage = "kick"]
    BY <1>9 DEF RunNowCommits
  <2>2. mode[p] # "down"
    BY <1>0, <2>1 DEF Modes
  <2>3. now' \in [Servers -> NowType] /\ \A q \in Servers : q # p => now'[q] = now[q]
    BY <1>2, <2>1
  <2> QED
    BY <1>2, <2>1, <2>2, <2>3 DEF Modes
<1>10. ASSUME NEW p \in Servers, Stop(p) PROVE Modes'
  <2>1. mode' = [mode EXCEPT ![p] = "stopping"] /\ UNCHANGED <<now, sched>>
    BY <1>10 DEF Stop
  <2> QED
    BY <1>2, <2>1 DEF Modes
<1>11. ASSUME NEW p \in Servers, Stopped(p) \/ Crash(p) PROVE Modes'
  <2>1. /\ mode' = [mode EXCEPT ![p] = "down"] /\ sched' = [sched EXCEPT ![p] = NewScheduler]
        /\ now' = [now EXCEPT ![p] = NoRequest] \/ (now' = now /\ now[p] = NoRequest)
    BY <1>11 DEF Stopped, Crash, Set
  <2>2. sched'[p] = NewScheduler /\ \A q \in Servers : q # p => sched'[q] = sched[q]
    BY <1>1, <2>1
  <2> QED
    BY <1>0, <1>2, <2>1, <2>2 DEF Modes
<1>12. ASSUME NEW p \in Servers, Restart(p) PROVE Modes'
  <2>1. mode' = [mode EXCEPT ![p] = "up"] /\ sched' = [sched EXCEPT ![p] = Started] /\ now' = now
    BY <1>12 DEF Restart, Set
  <2>2. \A q \in Servers : q # p => sched'[q] = sched[q]
    BY <1>1, <2>1
  <2> QED
    BY <1>2, <2>1, <2>2 DEF Modes
<1>13. ASSUME UNCHANGED <<mode, now, sched>> PROVE Modes'
  BY <1>13 DEF Modes
<1>14. ASSUME NEW p \in Servers, NEW r \in Runs, Store(p, r) PROVE Modes'
  BY <1>13, <1>14 DEF Store
<1>15. ASSUME NEW r \in Runs, Cancel(r) \/ Overdue(r) PROVE Modes'
  BY <1>13, <1>15 DEF Cancel, Overdue
<1>16. ASSUME NEW t, NEW st, SetStatus(t, st) PROVE Modes'
  BY <1>13, <1>16 DEF SetStatus
<1>17. CASE UNCHANGED vars
  BY <1>13, <1>17 DEF vars
<1> QED
  BY <1>4, <1>5, <1>6, <1>7, <1>8, <1>9, <1>10, <1>11, <1>12, <1>14, <1>15, <1>16, <1>17 DEF Next, RequestStep

---------------------------------------------------------------------------
(* The rows, step by step *)

LEMMA RowKinds ==
    ASSUME Rows, [Next]_vars
    PROVE  \/ Fades
           \/ \E p \in Servers, D \in SUBSET Schedules : FireUnit(p, D)
           \/ \E p \in Servers : ClaimCommits(p)
           \/ \E p \in Servers, r \in Runs : RunNowCommits(p, r)
<1>1. ASSUME UNCHANGED row PROVE Fades
  BY <1>1 DEF Fades, Rows
<1>2. \A t : OfTenant(t, With("queued")) \cup Stale(t) \subseteq Open
  BY DEF OfTenant, Stale, Open, Rows
<1>3. ASSUME NEW p \in Servers, PassOver(p) PROVE Fades
  BY <1>2, <1>3, ClosedFades DEF PassOver
<1>4. ASSUME NEW p \in Servers, Tick(p) \/ Unlicensed(p) \/ UnitFails(p) \/ UnitAnswered(p) PROVE Fades
  BY <1>1, <1>4 DEF Tick, Unlicensed, UnitFails, UnitAnswered, tables
<1>5. ASSUME NEW p \in Servers, ClaimBegins(p) \/ ClaimAnswered(p) \/ Kick(p) PROVE Fades
  BY <1>1, <1>5 DEF ClaimBegins, ClaimAnswered, Kick, tables
<1>6. ASSUME NEW p \in Servers, ClaimFails(p) \/ Crash(p) PROVE Fades
  BY <1>6, LetGoFades DEF ClaimFails, Crash
<1>7. ASSUME NEW p \in Servers, NEW r \in Runs, Finish(p, r) PROVE Fades
  BY <1>7, LetGoFades DEF Finish
<1>8. ASSUME NEW p \in Servers, NEW r \in Runs, Store(p, r) PROVE Fades
  <2>1. {r} \subseteq Open /\ row' = Marked({r}, "finished")
    BY <1>8 DEF Store, Open
  <2> QED
    BY <2>1, MarkedFades
<1>9. ASSUME NEW p \in Servers, NEW r \in Runs, StoreFails(p, r) PROVE Fades
  BY <1>1, <1>9 DEF StoreFails, tables
<1>10. ASSUME NEW p \in Servers, NEW s \in Schedules, RunNowBegins(p, s) PROVE Fades
  BY <1>1, <1>10 DEF RunNowBegins, tables
<1>11. ASSUME NEW p \in Servers, Stop(p) \/ Stopped(p) \/ Restart(p) PROVE Fades
  BY <1>1, <1>11 DEF Stop, Stopped, Restart, tables
<1>12. ASSUME NEW r \in Runs, Cancel(r) PROVE Fades
  BY <1>12, ClosedFades DEF Cancel
<1>13. ASSUME NEW r \in Runs, Overdue(r) PROVE Fades
  BY <1>1, <1>13 DEF Overdue
<1>14. ASSUME NEW t, NEW st, SetStatus(t, st) PROVE Fades
  BY <1>1, <1>14 DEF SetStatus, tables
<1>15. CASE UNCHANGED vars
  BY <1>1, <1>15 DEF vars, tables
<1> QED
  BY <1>3, <1>4, <1>5, <1>6, <1>7, <1>8, <1>9, <1>10, <1>11, <1>12, <1>13, <1>14, <1>15
  DEF Next, PassStep, ClaimStep, RequestStep

(* The stale runs of the unit's tenant are over; new runs are queued. *)
LEMMA FireKeeps ==
    ASSUME Rows, NEW p \in Servers, NEW D \in SUBSET Schedules, FireUnit(p, D)
    PROVE  LET t == Head(sched[p].pass.todo) IN
           /\ row' \in [Runs -> RowType \cup {NoRun}]
           /\ \A r \in Runs : row[r] # NoRun /\ r \notin Stale(t) => row'[r] = row[r]
           /\ \A r \in Stale(t) : row'[r] = NoRun \/ row'[r].status = "closed"
           /\ With("running")' = With("running") \ Stale(t)
           /\ \A r \in Open' : \/ r \in Open \ Stale(t) /\ row'[r] = row[r]
                               \/ row[r] = NoRun /\ row'[r].schedule \in Fired(t, D)
           /\ \A r, q \in Open' :
                 row[r] = NoRun /\ row[q] = NoRun /\ row'[r].schedule = row'[q].schedule => r = q
<1> DEFINE t == Head(sched[p].pass.todo)
           c == Closed(Stale(t))
<1>1. PICK I \in SUBSET {r \in Runs : row[r] = NoRun} : \E f \in [I -> Fired(t, D)] :
              /\ \A r, q \in I : f[r] = f[q] => r = q
              /\ \A r \in I : row'[r] = [schedule |-> f[r], status |-> "queued"]
              /\ \A r \in Runs \ I : row'[r] = c[r]
              /\ row' = [r \in Runs |-> row'[r]]
  BY FireRows
<1>2. PICK f \in [I -> Fired(t, D)] :
              /\ \A r, q \in I : f[r] = f[q] => r = q
              /\ \A r \in I : row'[r] = [schedule |-> f[r], status |-> "queued"]
              /\ \A r \in Runs \ I : row'[r] = c[r]
              /\ row' = [r \in Runs |-> row'[r]]
  BY <1>1
<1>3. Stale(t) \subseteq With("running") /\ With("running") \subseteq Open /\ Open \subseteq Runs
  BY DEF Stale, OfTenant, Rows, Open, With
<1>4. /\ \A r \in Runs \ Stale(t) : c[r] = row[r]
      /\ \A r \in Stale(t) : c[r] = NoRun \/ (c[r].status = "closed" /\ c[r] \in RowType)
  <2> DEFINE k == Marked(Stale(t), "closed")
  <2>1. /\ k \in [Runs -> RowType \cup {NoRun}]
        /\ \A r \in Stale(t) : k[r] # NoRun /\ k[r].schedule = row[r].schedule /\ k[r].status = "closed"
        /\ \A r \in Runs \ Stale(t) : k[r] = row[r]
    BY <1>3, MarkedType
  <2>2. c = [r \in Runs |-> IF r \in Stale(t) /\ \A q \in Servers : r \notin Holds(q) THEN NoRun ELSE k[r]]
    BY DEF Closed
  <2> HIDE DEF k, c, t
  <2> QED
    BY <1>3, <2>1, <2>2
<1> HIDE DEF c, t
<1>5. Fired(t, D) \subseteq Schedules
  BY DEF Fired
<1>6. \A r \in I : row[r] = NoRun /\ row'[r].schedule = f[r] /\ row'[r].status = "queued" /\ row'[r] \in RowType
  <2> SUFFICES ASSUME NEW r \in I
               PROVE  row[r] = NoRun /\ row'[r].schedule = f[r] /\ row'[r].status = "queued" /\ row'[r] \in RowType
    OBVIOUS
  <2>1. f[r] \in Schedules /\ row[r] = NoRun
    BY <1>5
  <2>2. row'[r] = [schedule |-> f[r], status |-> "queued"]
    BY <1>2
  <2> QED
    BY <2>1, <2>2 DEF RowType
<1>7. \A r \in Runs : row'[r] \in RowType \cup {NoRun}
  BY <1>2, <1>4, <1>6 DEF Rows
<1>8. row' \in [Runs -> RowType \cup {NoRun}]
  <2>1. row' = [r \in Runs |-> row'[r]]
    BY <1>2
  <2> QED
    BY <1>7, <2>1
<1>9. \A r \in Runs : row[r] # NoRun /\ r \notin Stale(t) => row'[r] = row[r]
  BY <1>2, <1>4, <1>6
<1>10. \A r \in Stale(t) : row'[r] = NoRun \/ row'[r].status = "closed"
  <2>1. \A r \in Stale(t) : r \in Runs \ I
    BY <1>3, <1>6 DEF With
  <2> QED
    BY <1>2, <1>4, <2>1
<1>11. \A r \in Runs \ I : row[r] = NoRun => row'[r] = NoRun
  BY <1>2, <1>3, <1>4 DEF With
<1>12. With("running")' = With("running") \ Stale(t)
  <2>1. With("running")' = {r \in Runs : row'[r] # NoRun /\ row'[r].status = "running"}
    BY DEF With
  <2> QED
    BY <1>6, <1>9, <1>10, <1>11, <2>1 DEF With
<1>13. Open' = {r \in Runs : row'[r] # NoRun /\ row'[r].status \in {"queued", "running"}}
  BY DEF Open, With
<1>14. \A r \in Open' : \/ r \in Open \ Stale(t) /\ row'[r] = row[r]
                        \/ r \in I
  BY <1>6, <1>9, <1>10, <1>11, <1>13 DEF Open, With
<1>15. \A r \in I : row'[r].schedule \in Fired(t, D)
  BY <1>6
<1>16. \A r, q \in Open' :
          row[r] = NoRun /\ row[q] = NoRun /\ row'[r].schedule = row'[q].schedule => r = q
  BY <1>2, <1>6, <1>14 DEF Open, With
<1> QED
  BY <1>6, <1>8, <1>9, <1>10, <1>12, <1>14, <1>15, <1>16 DEF t

(* A run is claimed, if one waits. *)
LEMMA ClaimRows ==
    ASSUME Rows, NEW p \in Servers, ClaimCommits(p)
    PROVE  \/ UNCHANGED row /\ UNCHANGED <<overdue, orphans>>
           \/ \E r \in OfTenant(Asked(p), With("queued")) :
                 /\ row' \in [Runs -> RowType \cup {NoRun}]
                 /\ row'[r] # NoRun /\ row'[r].schedule = row[r].schedule /\ row'[r].status = "running"
                 /\ \A q \in Runs \ {r} : row'[q] = row[q]
                 /\ UNCHANGED <<overdue, orphans>>
                 /\ SetRound(p, "answered", r)
<1>1. CASE UNCHANGED <<tables, history>>
  BY <1>1 DEF tables, history
<1>2. ASSUME NEW r \in OfTenant(Asked(p), With("queued")), row' = Marked({r}, "running"),
             UNCHANGED <<overdue, orphans>>, SetRound(p, "answered", r)
      PROVE  \E k \in OfTenant(Asked(p), With("queued")) :
                 /\ row' \in [Runs -> RowType \cup {NoRun}]
                 /\ row'[k] # NoRun /\ row'[k].schedule = row[k].schedule /\ row'[k].status = "running"
                 /\ \A q \in Runs \ {k} : row'[q] = row[q]
                 /\ UNCHANGED <<overdue, orphans>>
                 /\ SetRound(p, "answered", k)
  <2>1. {r} \subseteq Open
    BY DEF OfTenant, Open
  <2>2. /\ row' \in [Runs -> RowType \cup {NoRun}]
        /\ row'[r] # NoRun /\ row'[r].schedule = row[r].schedule /\ row'[r].status = "running"
        /\ \A q \in Runs \ {r} : row'[q] = row[q]
    BY <1>2, <2>1, MarkedType
  <2> QED
    BY <1>2, <2>2
<1> QED
  BY <1>1, <1>2 DEF ClaimCommits

(* Run now's run is new. *)
LEMMA RequestRows ==
    ASSUME Rows, NEW p \in Servers, NEW r \in Runs, RunNowCommits(p, r), now[p].schedule \in Schedules
    PROVE  /\ row' \in [Runs -> RowType \cup {NoRun}]
           /\ row[r] = NoRun /\ row'[r] = [schedule |-> now[p].schedule, status |-> "queued"]
           /\ \A q \in Runs \ {r} : row'[q] = row[q]
<1>1. [schedule |-> now[p].schedule, status |-> "queued"] \in RowType
  BY DEF RowType
<1> QED
  BY <1>1 DEF RunNowCommits, Rows

---------------------------------------------------------------------------
(* One open run of a schedule *)

(* A Run now between its lock and its commit has the schedule to itself.   *)
RequestAlone ==
    \A p \in Servers : now[p].stage = "locked" =>
        /\ now[p].schedule \in Schedules
        /\ schedLock[now[p].schedule] = p
        /\ ~HasOpenRun(now[p].schedule, Open)
ScheduleInv ==
    /\ schedLock \in [Schedules -> Servers \cup {Nobody}]
    /\ RequestAlone /\ OneOpenRun

(* While no schedule gets a run, nothing changes for the requests. *)
LEMMA FadingSchedules ==
    ASSUME Rows, ScheduleInv, Open' \subseteq Open, \A r \in Open' : row'[r].schedule = row[r].schedule
    PROVE  /\ OneOpenRun'
           /\ \A s \in Schedules : ~HasOpenRun(s, Open) => ~HasOpenRun(s, Open)'
  BY DEF ScheduleInv, OneOpenRun, HasOpenRun

LEMMA ScheduleStep ==
    ASSUME Rows, Modes, ScheduleInv, [Next]_vars
    PROVE  ScheduleInv'
<1> DEFINE LockType == [Schedules -> Servers \cup {Nobody}]
<1>0. /\ schedLock \in LockType /\ Nobody \notin Servers
      /\ now \in [Servers -> [schedule : Schedules \cup {Nobody}, stage : {"none", "locked", "kick"}]]
      /\ NoRequest.stage = "none"
  BY AbsentAssumption DEF ScheduleInv, Modes, NoRequest
<1>1. ASSUME NEW p \in Servers, NEW D \in SUBSET Schedules, FireUnit(p, D) PROVE ScheduleInv'
  <2> DEFINE t == Head(sched[p].pass.todo)
  <2>1. UNCHANGED <<schedLock, now>> /\ D \in DueSets(t)
    BY <1>1 DEF FireUnit, locks
  <2>2. /\ \A r \in Open' : \/ r \in Open \ Stale(t) /\ row'[r] = row[r]
                            \/ row[r] = NoRun /\ row'[r].schedule \in Fired(t, D)
        /\ \A r, q \in Open' :
              row[r] = NoRun /\ row[q] = NoRun /\ row'[r].schedule = row'[q].schedule => r = q
    BY <1>1, FireKeeps
  <2> HIDE DEF t
  <2>3. \A s \in Fired(t, D) : schedLock[s] = Nobody /\ \A r \in Open \ Stale(t) : row[r].schedule # s
    BY <2>1 DEF Fired, DueSets, HasOpenRun
  <2>4. OneOpenRun'
    <3> SUFFICES ASSUME NEW r \in Open', NEW q \in Open', row'[r].schedule = row'[q].schedule
                 PROVE  r = q
      BY DEF OneOpenRun
    <3> QED
      BY <2>2, <2>3 DEF ScheduleInv, OneOpenRun
  <2>5. RequestAlone'
    <3> SUFFICES ASSUME NEW q \in Servers, now[q].stage = "locked"
                 PROVE  /\ now[q].schedule \in Schedules /\ schedLock[now[q].schedule] = q
                        /\ \A r \in Open' : row'[r].schedule # now[q].schedule
      BY <2>1 DEF RequestAlone, HasOpenRun
    <3>1. now[q].schedule \in Schedules /\ schedLock[now[q].schedule] = q /\ ~HasOpenRun(now[q].schedule, Open)
      BY DEF ScheduleInv, RequestAlone
    <3>2. now[q].schedule \notin Fired(t, D)
      BY <1>0, <2>3, <3>1
    <3>3. \A r \in Open' : row'[r].schedule # now[q].schedule
      BY <2>2, <3>1, <3>2 DEF HasOpenRun
    <3> QED
      BY <2>1, <3>1, <3>3 DEF HasOpenRun
  <2> QED
    BY <1>0, <2>1, <2>4, <2>5 DEF ScheduleInv
<1>2. ASSUME NEW p \in Servers, ClaimCommits(p) PROVE ScheduleInv'
  <2>1. UNCHANGED <<schedLock, now>>
    BY <1>2 DEF ClaimCommits
  <2>2. Open' \subseteq Open /\ \A r \in Open' : row'[r].schedule = row[r].schedule
    <3>1. CASE UNCHANGED row
      BY <3>1 DEF Open, With
    <3>2. ASSUME NEW r \in OfTenant(Asked(p), With("queued")),
                 row'[r] # NoRun, row'[r].schedule = row[r].schedule, row'[r].status = "running",
                 \A q \in Runs \ {r} : row'[q] = row[q]
          PROVE  Open' \subseteq Open /\ \A q \in Open' : row'[q].schedule = row[q].schedule
      BY <3>2 DEF Open, With, OfTenant
    <3> QED
      BY <1>2, <3>1, <3>2, ClaimRows
  <2>3. OneOpenRun' /\ \A s \in Schedules : ~HasOpenRun(s, Open) => ~HasOpenRun(s, Open)'
    BY <2>2, FadingSchedules
  <2> QED
    BY <2>1, <2>3 DEF ScheduleInv, RequestAlone
<1>3. ASSUME NEW p \in Servers, NEW r \in Runs, RunNowCommits(p, r) PROVE ScheduleInv'
  <2> DEFINE s == now[p].schedule
  <2>1. s \in Schedules /\ schedLock[s] = p /\ ~HasOpenRun(s, Open)
    BY <1>3 DEF RunNowCommits, ScheduleInv, RequestAlone
  <2>2. /\ row[r] = NoRun /\ row'[r] = [schedule |-> s, status |-> "queued"]
        /\ \A q \in Runs \ {r} : row'[q] = row[q]
    BY <1>3, <2>1, RequestRows
  <2>3. schedLock' = Unlocked(p) /\ now' = [now EXCEPT ![p].stage = "kick"]
    BY <1>3 DEF RunNowCommits
  <2>4. \A q \in Open' : (q = r /\ row'[q].schedule = s) \/ (q \in Open /\ row'[q] = row[q])
    BY <2>2 DEF Open, With
  <2>5. OneOpenRun'
    <3> SUFFICES ASSUME NEW a \in Open', NEW b \in Open', row'[a].schedule = row'[b].schedule
                 PROVE  a = b
      BY DEF OneOpenRun
    <3> QED
      BY <2>1, <2>4 DEF ScheduleInv, OneOpenRun, HasOpenRun
  <2>6. RequestAlone'
    <3> SUFFICES ASSUME NEW q \in Servers, now'[q].stage = "locked"
                 PROVE  /\ now'[q].schedule \in Schedules /\ schedLock'[now'[q].schedule] = q
                        /\ \A k \in Open' : row'[k].schedule # now'[q].schedule
      BY DEF RequestAlone, HasOpenRun
    <3>1. q # p /\ now'[q] = now[q]
      BY <1>0, <2>3
    <3>2. now[q].schedule \in Schedules /\ schedLock[now[q].schedule] = q /\ ~HasOpenRun(now[q].schedule, Open)
      BY <3>1 DEF ScheduleInv, RequestAlone
    <3>3. schedLock'[now[q].schedule] = q /\ now[q].schedule # s
      BY <2>1, <2>3, <3>1, <3>2 DEF Unlocked
    <3> QED
      BY <2>4, <3>1, <3>2, <3>3 DEF HasOpenRun
  <2>7. schedLock' \in LockType
    BY <1>0, <2>3 DEF Unlocked
  <2> QED
    BY <2>5, <2>6, <2>7 DEF ScheduleInv
<1>4. ASSUME Fades PROVE ScheduleInv'
  <2>1. OneOpenRun' /\ \A s \in Schedules : ~HasOpenRun(s, Open) => ~HasOpenRun(s, Open)'
    BY <1>4, FadesShrinks, FadingSchedules
  <2>2. CASE UNCHANGED <<schedLock, now>>
    BY <2>1, <2>2 DEF ScheduleInv, RequestAlone
  <2>3. ASSUME NEW p \in Servers, UNCHANGED schedLock \/ schedLock' = Unlocked(p),
               now' = [now EXCEPT ![p] = NoRequest]
        PROVE  ScheduleInv'
    <3>1. schedLock' \in LockType
      BY <1>0, <2>3 DEF Unlocked
    <3>2. RequestAlone'
      <4> SUFFICES ASSUME NEW q \in Servers, now'[q].stage = "locked"
                   PROVE  /\ now'[q].schedule \in Schedules /\ schedLock'[now'[q].schedule] = q
                          /\ \A k \in Open' : row'[k].schedule # now'[q].schedule
        BY DEF RequestAlone, HasOpenRun
      <4>1. q # p /\ now'[q] = now[q]
        BY <1>0, <2>3
      <4>2. now[q].schedule \in Schedules /\ schedLock[now[q].schedule] = q /\ ~HasOpenRun(now[q].schedule, Open)
        BY <4>1 DEF ScheduleInv, RequestAlone
      <4>3. schedLock'[now[q].schedule] = q
        BY <2>3, <4>1, <4>2 DEF Unlocked
      <4> QED
        BY <2>1, <4>1, <4>2, <4>3 DEF HasOpenRun
    <3> QED
      BY <2>1, <3>1, <3>2 DEF ScheduleInv
  <2>4. ASSUME NEW p \in Servers, NEW s \in Schedules, RunNowBegins(p, s) PROVE ScheduleInv'
    <3>1. /\ schedLock[s] = Nobody /\ ~HasOpenRun(s, Open)
          /\ schedLock' = [schedLock EXCEPT ![s] = p]
          /\ now' = [now EXCEPT ![p] = [schedule |-> s, stage |-> "locked"]]
      BY <2>4 DEF RunNowBegins
    <3>2. RequestAlone'
      <4> SUFFICES ASSUME NEW q \in Servers, now'[q].stage = "locked"
                   PROVE  /\ now'[q].schedule \in Schedules /\ schedLock'[now'[q].schedule] = q
                          /\ \A k \in Open' : row'[k].schedule # now'[q].schedule
        BY DEF RequestAlone, HasOpenRun
      <4>1. CASE q = p
        <5>1. now'[q].schedule = s /\ schedLock'[s] = p
          BY <1>0, <3>1, <4>1
        <5> QED
          BY <2>1, <3>1, <4>1, <5>1 DEF HasOpenRun
      <4>2. CASE q # p
        <5>1. now'[q] = now[q]
          BY <1>0, <3>1, <4>2
        <5>2. now[q].schedule \in Schedules /\ schedLock[now[q].schedule] = q /\ ~HasOpenRun(now[q].schedule, Open)
          BY <5>1 DEF ScheduleInv, RequestAlone
        <5>3. schedLock'[now[q].schedule] = q
          BY <1>0, <3>1, <5>2
        <5> QED
          BY <2>1, <5>1, <5>2, <5>3 DEF HasOpenRun
      <4> QED
        BY <4>1, <4>2
    <3> QED
      BY <1>0, <2>1, <3>1, <3>2 DEF ScheduleInv
  <2>5. ASSUME NEW p \in Servers, Kick(p) \/ Crash(p) PROVE ScheduleInv'
    BY <2>3, <2>5 DEF Kick, Crash, locks
  <2>6. ASSUME NEW p \in Servers, PassStep(p) \/ Tick(p) \/ UnitFails(p) PROVE ScheduleInv'
    BY <2>2, <2>6 DEF PassStep, FireUnit, PassOver, Unlicensed, UnitAnswered, Tick, UnitFails, locks
  <2>7. ASSUME NEW p \in Servers, ClaimStep(p) \/ ClaimBegins(p) \/ ClaimFails(p) PROVE ScheduleInv'
    BY <2>2, <2>7 DEF ClaimStep, ClaimCommits, ClaimAnswered, ClaimBegins, ClaimFails, locks
  <2>8. ASSUME NEW p \in Servers, NEW r \in Runs, Store(p, r) \/ Finish(p, r) \/ StoreFails(p, r)
        PROVE  ScheduleInv'
    BY <2>2, <2>8 DEF Store, Finish, StoreFails, locks
  <2>9. ASSUME NEW p \in Servers, Stop(p) \/ Stopped(p) \/ Restart(p) PROVE ScheduleInv'
    BY <2>2, <2>9 DEF Stop, Stopped, Restart, locks
  <2>10. ASSUME NEW r \in Runs, Cancel(r) \/ Overdue(r) PROVE ScheduleInv'
    BY <2>2, <2>10 DEF Cancel, Overdue, locks
  <2>11. ASSUME NEW t, NEW st, SetStatus(t, st) PROVE ScheduleInv'
    BY <2>2, <2>11 DEF SetStatus, locks
  <2>12. CASE UNCHANGED vars
    BY <2>2, <2>12 DEF vars, locks
  <2> QED
    BY <1>3, <2>4, <2>5, <2>6, <2>7, <2>8, <2>9, <2>10, <2>11, <2>12 DEF Next, RequestStep
<1> QED
  BY <1>1, <1>2, <1>3, <1>4, RowKinds

---------------------------------------------------------------------------
(* The rows are kept in order. *)
LEMMA RowsStep ==
    ASSUME Rows, ScheduleInv, [Next]_vars
    PROVE  Rows'
<1>0. With("running")' = {r \in Runs : row'[r] # NoRun /\ row'[r].status = "running"}
  BY DEF With
<1>1. ASSUME NEW p \in Servers, NEW D \in SUBSET Schedules, FireUnit(p, D) PROVE Rows'
  <2> DEFINE t == Head(sched[p].pass.todo)
  <2>1. overdue' = overdue \ Stale(t)
    BY <1>1 DEF FireUnit
  <2>2. row' \in [Runs -> RowType \cup {NoRun}] /\ With("running")' = With("running") \ Stale(t)
    BY <1>1, FireKeeps
  <2> QED
    BY <2>1, <2>2 DEF Rows
<1>2. ASSUME NEW p \in Servers, ClaimCommits(p) PROVE Rows'
  <2>1. CASE UNCHANGED row /\ UNCHANGED overdue
    BY <2>1 DEF Rows, With
  <2>2. ASSUME NEW r \in OfTenant(Asked(p), With("queued")), row' \in [Runs -> RowType \cup {NoRun}],
               \A q \in Runs \ {r} : row'[q] = row[q], UNCHANGED overdue
        PROVE  Rows'
    <3>1. r \notin overdue
      BY DEF OfTenant, With, Rows
    <3> QED
      BY <2>2, <3>1 DEF Rows, With
  <2> QED
    BY <1>2, <2>1, <2>2, ClaimRows
<1>3. ASSUME NEW p \in Servers, NEW r \in Runs, RunNowCommits(p, r) PROVE Rows'
  <2>1. now[p].schedule \in Schedules
    BY <1>3 DEF RunNowCommits, ScheduleInv, RequestAlone
  <2>2. /\ row' \in [Runs -> RowType \cup {NoRun}] /\ row[r] = NoRun
        /\ \A q \in Runs \ {r} : row'[q] = row[q]
    BY <1>3, <2>1, RequestRows
  <2>3. overdue' = overdue
    BY <1>3 DEF RunNowCommits
  <2> QED
    BY <2>2, <2>3 DEF Rows, With
<1>4. ASSUME Fades, \A r \in overdue' : r \in With("running") /\ row'[r] = row[r] PROVE Rows'
  BY <1>4 DEF Fades, Rows, With
<1>5. ASSUME Fades PROVE Rows'
  <2> USE <1>5
  <2>1. CASE UNCHANGED row /\ UNCHANGED overdue
    BY <1>4, <2>1 DEF Rows
  <2>2. ASSUME NEW R, row' = LetGo(R), UNCHANGED overdue PROVE Rows'
    <3>1. \A r \in With("running") : row'[r] = row[r]
      BY <2>2 DEF LetGo, With, Ended
    <3> QED
      BY <1>4, <2>2, <3>1 DEF Rows
  <2>3. ASSUME NEW R, row' = Closed(R), overdue' \subseteq overdue \ R PROVE Rows'
    <3>1. \A r \in overdue' : row'[r] = row[r]
      BY <2>3 DEF Closed, Marked, Rows, With
    <3> QED
      BY <1>4, <2>3, <3>1 DEF Rows
  <2>4. ASSUME NEW p \in Servers, PassOver(p) PROVE Rows'
    <3> DEFINE t == Head(sched[p].pass.todo)
               skipped == OfTenant(t, With("queued"))
    <3>1. row' = Closed(skipped \cup Stale(t)) /\ overdue' = overdue \ Stale(t)
      BY <2>4 DEF PassOver
    <3>2. overdue \cap skipped = {}
      BY DEF Rows, With, OfTenant
    <3> QED
      BY <2>3, <3>1, <3>2
  <2>5. ASSUME NEW r \in Runs, Cancel(r) PROVE Rows'
    BY <2>3, <2>5 DEF Cancel
  <2>6. ASSUME NEW r \in Runs, Overdue(r) PROVE Rows'
    BY <1>4, <2>6 DEF Overdue, Rows
  <2>7. ASSUME NEW p \in Servers, NEW r \in Runs, Store(p, r) PROVE Rows'
    <3>1. \A q \in overdue' : row'[q] = row[q]
      BY <2>7 DEF Store, Marked, Rows, With
    <3> QED
      BY <1>4, <2>7, <3>1 DEF Store, Rows
  <2>8. ASSUME NEW p \in Servers, NEW r \in Runs, Finish(p, r) PROVE Rows'
    BY <2>2, <2>8 DEF Finish
  <2>9. ASSUME NEW p \in Servers, ClaimFails(p) \/ Crash(p) PROVE Rows'
    BY <2>2, <2>9 DEF ClaimFails, Crash
  <2>10. ASSUME NEW p \in Servers, NEW r \in Runs, StoreFails(p, r) PROVE Rows'
    BY <2>1, <2>10 DEF StoreFails, tables
  <2>11. ASSUME NEW p \in Servers, Tick(p) \/ Unlicensed(p) \/ UnitFails(p) \/ UnitAnswered(p) PROVE Rows'
    BY <2>1, <2>11 DEF Tick, Unlicensed, UnitFails, UnitAnswered, tables
  <2>12. ASSUME NEW p \in Servers, ClaimBegins(p) \/ ClaimAnswered(p) \/ Kick(p) PROVE Rows'
    BY <2>1, <2>12 DEF ClaimBegins, ClaimAnswered, Kick, tables
  <2>13. ASSUME NEW p \in Servers, NEW s \in Schedules, RunNowBegins(p, s) PROVE Rows'
    BY <2>1, <2>13 DEF RunNowBegins, tables
  <2>14. ASSUME NEW p \in Servers, Stop(p) \/ Stopped(p) \/ Restart(p) PROVE Rows'
    BY <2>1, <2>14 DEF Stop, Stopped, Restart, tables
  <2>15. ASSUME NEW t, NEW st, SetStatus(t, st) PROVE Rows'
    BY <2>1, <2>15 DEF SetStatus, tables
  <2>16. CASE UNCHANGED vars
    BY <2>1, <2>16 DEF vars, tables
  <2> QED
    BY <1>1, <1>2, <1>3, <2>4, <2>5, <2>6, <2>7, <2>8, <2>9, <2>10, <2>11, <2>12, <2>13, <2>14, <2>15, <2>16
    DEF Next, PassStep, ClaimStep, RequestStep
<1> QED
  BY <1>1, <1>2, <1>3, <1>5, RowKinds
---------------------------------------------------------------------------
(* The slots of a tenant *)

(* A claim between its count and its commit has the tenant's slots to      *)
(* itself, and one is free.                                                *)
Running(t) == Cardinality(OfTenant(t, With("running")))
SlotHeld ==
    \A p \in Servers, t \in Tenants :
        sched[p].round.stage = "locked" /\ Asked(p) = t => slotLock[t] = p /\ Running(t) < RunSlots
SlotInv == slotLock \in [Tenants -> Servers \cup {Nobody}] /\ SlotHeld /\ SlotsKept

LEMMA RunningCounts ==
    ASSUME Rows
    PROVE  /\ \A r \in With("running") \cup With("queued") : RunTenant(r) \in Tenants
           /\ \A t : IsFiniteSet(OfTenant(t, With("running"))) /\ Running(t) \in Nat
<1>1. \A t : OfTenant(t, With("running")) \in SUBSET Runs
  BY DEF OfTenant, With
<1>2. \A t : IsFiniteSet(OfTenant(t, With("running")))
  BY <1>1, FS_Subset, FiniteAssumption
<1>3. \A t : Running(t) \in Nat
  BY <1>2, FS_CardinalityType DEF Running
<1>4. \A r \in With("running") \cup With("queued") : row[r].schedule \in Schedules
  BY AbsentAssumption DEF Rows, RowType, With
<1> QED
  BY <1>2, <1>3, <1>4, TenantsAssumption DEF RunTenant

(* Only a claim marks a run running. *)
LEMMA RunningShrinks ==
    ASSUME Rows, [Next]_vars
    PROVE  \/ \E p \in Servers : ClaimCommits(p)
           \/ With("running")' \subseteq With("running") /\ \A r \in With("running")' : row'[r] = row[r]
<1> DEFINE Less == With("running")' \subseteq With("running") /\ \A r \in With("running")' : row'[r] = row[r]
<1>0. With("running")' = {r \in Runs : row'[r] # NoRun /\ row'[r].status = "running"}
  BY DEF With
<1>1. CASE Fades
  BY <1>1, FadesShrinks DEF Open
<1>2. ASSUME NEW p \in Servers, NEW D \in SUBSET Schedules, FireUnit(p, D) PROVE Less
  <2> DEFINE t == Head(sched[p].pass.todo)
  <2>1. /\ \A r \in Runs : row[r] # NoRun /\ r \notin Stale(t) => row'[r] = row[r]
        /\ With("running")' = With("running") \ Stale(t)
    BY <1>2, FireKeeps
  <2> HIDE DEF t
  <2> QED
    BY <2>1 DEF With
<1>3. ASSUME NEW p \in Servers, NEW r \in Runs, RunNowCommits(p, r) PROVE Less
  <2>1. /\ row' = [row EXCEPT ![r] = [schedule |-> now[p].schedule, status |-> "queued"]]
    BY <1>3 DEF RunNowCommits
  <2>2. row'[r].status = "queued" /\ \A q \in Runs \ {r} : row'[q] = row[q]
    BY <2>1 DEF Rows
  <2> QED
    BY <1>0, <2>2 DEF With
<1> QED
  BY <1>1, <1>2, <1>3, RowKinds

LEMMA FewerRunning ==
    ASSUME Rows, With("running")' \subseteq With("running"), \A r \in With("running")' : row'[r] = row[r]
    PROVE  \A t : Running(t)' \in Nat /\ Running(t)' <= Running(t)
<1> SUFFICES ASSUME NEW t PROVE Running(t)' \in Nat /\ Running(t)' <= Running(t)
  OBVIOUS
<1>1. OfTenant(t, With("running"))' \in SUBSET OfTenant(t, With("running"))
  BY DEF OfTenant, RunTenant
<1>2. IsFiniteSet(OfTenant(t, With("running"))) /\ IsFiniteSet(OfTenant(t, With("running"))')
  BY <1>1, RunningCounts, FS_Subset
<1>3. Cardinality(OfTenant(t, With("running"))') <= Cardinality(OfTenant(t, With("running")))
      /\ Cardinality(OfTenant(t, With("running"))') \in Nat
  BY <1>1, <1>2, FS_Subset, FS_CardinalityType
<1> QED
  BY <1>3 DEF Running

(* A lock is taken by a claim that begins, and let go with the claim. *)
LEMMA SlotKinds ==
    ASSUME Machines, Modes, [Next]_vars
    PROVE  \/ UNCHANGED slotLock
           \/ \E p \in Servers : slotLock' = Unslot(p) /\ sched'[p].round.stage # "locked"
           \/ \E p \in Servers : ClaimBegins(p)
<1> DEFINE Kinds == \/ UNCHANGED slotLock
                    \/ \E p \in Servers : slotLock' = Unslot(p) /\ sched'[p].round.stage # "locked"
                    \/ \E p \in Servers : ClaimBegins(p)
<1>0. PICK X : sched \in [Servers -> Shape(X)]
  BY DEF Machines, Shaped
<1>1. ASSUME NEW p \in Servers, ClaimCommits(p) PROVE Kinds
  <2>1. slotLock' = Unslot(p)
    BY <1>1 DEF ClaimCommits
  <2>2. \E a : sched' = [sched EXCEPT ![p] = [sched[p] EXCEPT !.round.stage = "answered", !.round.answer = a]]
    BY <1>1 DEF ClaimCommits, SetRound, Set
  <2>3. sched'[p].round.stage = "answered"
    BY <1>0, <2>2 DEF Shape
  <2> QED
    BY <2>1, <2>3
<1>2. ASSUME NEW p \in Servers, ClaimFails(p) PROVE Kinds
  <2>1. Up(p) \in BOOLEAN
    BY DEF Up
  <2> QED
    BY <1>2, <2>1, AnswerMachines DEF ClaimFails
<1>3. ASSUME NEW p \in Servers, Stopped(p) \/ Crash(p) PROVE Kinds
  <2>1. sched' = [sched EXCEPT ![p] = NewScheduler] /\ slotLock' = Unslot(p)
    BY <1>3 DEF Stopped, Crash, Set
  <2>2. sched'[p].round.stage = "none"
    BY <1>0, <2>1 DEF NewScheduler, NoRound
  <2> QED
    BY <2>1, <2>2
<1>4. ASSUME NEW p \in Servers, Tick(p) \/ PassStep(p) \/ UnitFails(p) \/ ClaimAnswered(p) PROVE Kinds
  BY <1>4 DEF Tick, PassStep, FireUnit, PassOver, Unlicensed, UnitAnswered, UnitFails, ClaimAnswered, locks
<1>5. ASSUME NEW p \in Servers, NEW r \in Runs, Store(p, r) \/ Finish(p, r) \/ StoreFails(p, r) \/ RunNowCommits(p, r)
      PROVE  Kinds
  BY <1>5 DEF Store, Finish, StoreFails, RunNowCommits, locks
<1>6. ASSUME NEW p \in Servers, NEW s \in Schedules, RunNowBegins(p, s) PROVE Kinds
  BY <1>6 DEF RunNowBegins
<1>7. ASSUME NEW p \in Servers, Kick(p) \/ Stop(p) \/ Restart(p) PROVE Kinds
  BY <1>7 DEF Kick, Stop, Restart, locks
<1>8. ASSUME NEW r \in Runs, Cancel(r) \/ Overdue(r) PROVE Kinds
  BY <1>8 DEF Cancel, Overdue, locks
<1>9. ASSUME NEW t, NEW st, SetStatus(t, st) PROVE Kinds
  BY <1>9 DEF SetStatus, locks
<1>10. CASE UNCHANGED vars
  BY <1>10 DEF vars, locks
<1> QED
  BY <1>1, <1>2, <1>3, <1>4, <1>5, <1>6, <1>7, <1>8, <1>9, <1>10 DEF Next, ClaimStep, RequestStep

(* The run claimed takes the slot that was seen free, under the lock that  *)
(* kept every other claim of the tenant away.                              *)
LEMMA ClaimSlots ==
    ASSUME Rows, Machines, SlotInv, NEW p \in Servers, ClaimCommits(p)
    PROVE  /\ SlotsKept'
           /\ \A t \in Tenants : slotLock[t] # p => Running(t)' = Running(t)
<1> DEFINE t0 == Asked(p)
           mine == OfTenant(t0, With("queued"))
<1>1. CASE UNCHANGED row
  <2>1. \A t : Running(t)' = Running(t)
    BY <1>1 DEF Running, OfTenant, With, RunTenant
  <2> QED
    BY <2>1 DEF SlotInv, SlotsKept, Running
<1>2. ASSUME NEW r \in mine, row'[r] # NoRun, row'[r].schedule = row[r].schedule, row'[r].status = "running",
             \A q \in Runs \ {r} : row'[q] = row[q]
      PROVE  SlotsKept' /\ \A t \in Tenants : slotLock[t] # p => Running(t)' = Running(t)
  <2>1. r \in Runs /\ RunTenant(r) = t0 /\ t0 \in Tenants
    BY RunningCounts DEF OfTenant, With
  <2>2. slotLock[t0] = p /\ Running(t0) < RunSlots
    BY <2>1 DEF SlotInv, SlotHeld, ClaimCommits
  <2>3. With("running")' = With("running") \cup {r}
    BY <1>2, <2>1 DEF With
  <2>4. \A q \in With("running")' : TenantOf[row'[q].schedule] = RunTenant(q)
    BY <1>2, <2>3 DEF RunTenant, With
  <2>5. \A t : OfTenant(t, With("running"))' = {q \in With("running")' : TenantOf[row'[q].schedule] = t}
    BY DEF OfTenant, RunTenant
  <2> HIDE DEF mine, t0
  <2>6. \A t : OfTenant(t, With("running"))' =
                 IF t = t0 THEN OfTenant(t, With("running")) \cup {r} ELSE OfTenant(t, With("running"))
    BY <2>1, <2>3, <2>4, <2>5 DEF OfTenant
  <2>7. \A t : t # t0 => Running(t)' = Running(t)
    BY <2>6 DEF Running
  <2>8. ASSUME NEW t, t = t0 PROVE Running(t)' <= RunSlots
    <3>1. IsFiniteSet(OfTenant(t, With("running"))) /\ Running(t) \in Nat
      BY RunningCounts
    <3>2. OfTenant(t, With("running"))' = OfTenant(t, With("running")) \cup {r}
      BY <2>6, <2>8
    <3>3. Running(t)' \in {Running(t), Running(t) + 1}
      BY <3>1, <3>2, FS_AddElement DEF Running
    <3> QED
      BY <2>2, <2>8, <3>1, <3>3, CapsAssumption
  <2> QED
    BY <2>2, <2>7, <2>8 DEF SlotInv, SlotsKept, Running
<1> QED
  BY <1>1, <1>2, ClaimRows

LEMMA SlotStep ==
    ASSUME Rows, Machines, Modes, SlotInv, [Next]_vars
    PROVE  SlotInv'
<1> DEFINE LockType == [Tenants -> Servers \cup {Nobody}]
<1>0. /\ slotLock \in LockType /\ Nobody \notin Servers /\ RunSlots \in Nat
      /\ \A t : Running(t) \in Nat
  BY AbsentAssumption, CapsAssumption, RunningCounts DEF SlotInv
<1>1. PICK X : sched \in [Servers -> Shape(X)]
  BY DEF Machines, Shaped
<1>2. \A q \in Servers : LocksSame(q)
  BY MachinesStep
<1>3. ASSUME NEW p \in Servers, ClaimCommits(p) PROVE SlotInv'
  <2>1. slotLock' = Unslot(p)
    BY <1>3 DEF ClaimCommits
  <2>2. \E a : sched' = [sched EXCEPT ![p] = [sched[p] EXCEPT !.round.stage = "answered", !.round.answer = a]]
    BY <1>3 DEF ClaimCommits, SetRound, Set
  <2>3. sched'[p].round.stage = "answered" /\ \A q \in Servers : q # p => sched'[q] = sched[q]
    BY <1>1, <2>2 DEF Shape
  <2>4. SlotsKept' /\ \A t \in Tenants : slotLock[t] # p => Running(t)' = Running(t)
    BY <1>3, ClaimSlots
  <2>5. SlotHeld'
    <3> SUFFICES ASSUME NEW q \in Servers, NEW t \in Tenants,
                        sched'[q].round.stage = "locked", Head(sched'[q].round.order) = t
                 PROVE  slotLock'[t] = q /\ Running(t)' < RunSlots
      BY DEF SlotHeld, Asked
    <3>1. q # p /\ sched'[q] = sched[q]
      BY <2>3
    <3>2. slotLock[t] = q /\ Running(t) < RunSlots
      BY <3>1 DEF SlotInv, SlotHeld, Asked
    <3> QED
      BY <2>1, <2>4, <3>1, <3>2 DEF Unslot
  <2> QED
    BY <1>0, <2>1, <2>4, <2>5 DEF SlotInv, Unslot
<1>4. ASSUME \A t : Running(t)' \in Nat /\ Running(t)' <= Running(t) PROVE SlotInv'
  <2>1. SlotsKept'
    <3>1. \A t \in Tenants : Running(t) <= RunSlots
      BY DEF SlotInv, SlotsKept, Running
    <3>2. \A t \in Tenants : Running(t)' <= RunSlots
      BY <1>0, <1>4, <3>1
    <3> QED
      BY <3>2 DEF SlotsKept, Running
  <2>2. \A t : Running(t) < RunSlots => Running(t)' < RunSlots
    BY <1>0, <1>4
  <2>3. ASSUME NEW p \in Servers, ClaimBegins(p) PROVE SlotInv'
    <3> DEFINE t == Asked(p)
    <3>1. slotLock[t] = Nobody
      BY <2>3 DEF ClaimBegins
    <3>2. \E st, a : /\ sched' = [sched EXCEPT ![p] = [sched[p] EXCEPT !.round.stage = st, !.round.answer = a]]
                     /\ \/ UNCHANGED slotLock /\ st = "answered"
                        \/ slotLock' = [slotLock EXCEPT ![t] = p] /\ Running(t) < RunSlots
      BY <2>3 DEF ClaimBegins, SetRound, Set, Running
    <3>3. PICK st, a : /\ sched' = [sched EXCEPT ![p] = [sched[p] EXCEPT !.round.stage = st, !.round.answer = a]]
                       /\ \/ UNCHANGED slotLock /\ st = "answered"
                          \/ slotLock' = [slotLock EXCEPT ![t] = p] /\ Running(t) < RunSlots
      BY <3>2
    <3>4. /\ \A q \in Servers : q # p => sched'[q] = sched[q]
          /\ sched'[p].round.stage = st /\ sched'[p].round.order = sched[p].round.order
      BY <1>1, <3>3 DEF Shape
    <3>5. SlotHeld'
      <4> SUFFICES ASSUME NEW q \in Servers, NEW u \in Tenants,
                          sched'[q].round.stage = "locked", Head(sched'[q].round.order) = u
                   PROVE  slotLock'[u] = q /\ Running(u)' < RunSlots
        BY DEF SlotHeld, Asked
      <4>1. CASE q = p
        <5>1. u = t
          BY <3>4, <4>1 DEF Asked
        <5> HIDE DEF t
        <5> QED
          BY <1>0, <2>2, <3>3, <3>4, <4>1, <5>1
      <4>2. CASE q # p
        <5>1. sched'[q] = sched[q]
          BY <3>4, <4>2
        <5>2. slotLock[u] = q /\ Running(u) < RunSlots
          BY <5>1 DEF SlotInv, SlotHeld, Asked
        <5> HIDE DEF t
        <5>3. slotLock'[u] = q
          BY <1>0, <3>1, <3>3, <5>2
        <5> QED
          BY <2>2, <5>2, <5>3
      <4> QED
        BY <4>1, <4>2
    <3> HIDE DEF t
    <3> QED
      BY <1>0, <2>1, <3>3, <3>5 DEF SlotInv
  <2>4. ASSUME \A p \in Servers : ~ClaimBegins(p) PROVE SlotInv'
    <3>1. ASSUME NEW q \in Servers, NEW t \in Tenants,
                 sched'[q].round.stage = "locked", Head(sched'[q].round.order) = t
          PROVE  slotLock[t] = q /\ Running(t)' < RunSlots
      <4>1. sched'[q].round = sched[q].round
        BY <1>2, <2>4, <3>1 DEF LocksSame
      <4>2. slotLock[t] = q /\ Running(t) < RunSlots
        BY <3>1, <4>1 DEF SlotInv, SlotHeld, Asked
      <4> QED
        BY <2>2, <4>2
    <3>2. CASE UNCHANGED slotLock
      BY <1>0, <2>1, <3>1, <3>2 DEF SlotInv, SlotHeld, Asked
    <3>3. ASSUME NEW p \in Servers, slotLock' = Unslot(p), sched'[p].round.stage # "locked" PROVE SlotInv'
      <4>1. slotLock' \in LockType
        BY <1>0, <3>3 DEF Unslot
      <4>2. SlotHeld'
        <5> SUFFICES ASSUME NEW q \in Servers, NEW t \in Tenants,
                            sched'[q].round.stage = "locked", Head(sched'[q].round.order) = t
                     PROVE  slotLock'[t] = q /\ Running(t)' < RunSlots
          BY DEF SlotHeld, Asked
        <5>1. q # p
          BY <3>3
        <5> QED
          BY <3>1, <3>3, <5>1 DEF Unslot
      <4> QED
        BY <2>1, <4>1, <4>2 DEF SlotInv
    <3> QED
      BY <2>4, <3>2, <3>3, SlotKinds
  <2> QED
    BY <2>3, <2>4
<1> QED
  BY <1>3, <1>4, RunningShrinks, FewerRunning

---------------------------------------------------------------------------
(* No run is left behind *)

(* Only a run that is not running any more leaves the orphans. *)
LEMMA OrphansStay ==
    ASSUME Rows, [Next]_vars
    PROVE  orphans \cap With("running")' \subseteq orphans'
<1>0. With("running")' = {r \in Runs : row'[r] # NoRun /\ row'[r].status = "running"}
  BY DEF With
<1>1. ASSUME NEW R, R \subseteq Open, row' = Closed(R), orphans \ R \subseteq orphans'
      PROVE  orphans \cap With("running")' \subseteq orphans'
  <2> DEFINE c == Marked(R, "closed")
  <2>1. \A r \in R : r \in Runs /\ c[r].status = "closed"
    BY <1>1, MarkedType
  <2>2. \A r \in R : row'[r] \in {NoRun, c[r]}
    BY <1>1, <2>1 DEF Closed
  <2> HIDE DEF c
  <2> QED
    BY <1>0, <1>1, <2>1, <2>2
<1>2. \A t : OfTenant(t, With("queued")) \cup Stale(t) \subseteq Open
  BY DEF OfTenant, Stale, Open, Rows
<1>3. ASSUME NEW p \in Servers, PassOver(p) PROVE orphans \cap With("running")' \subseteq orphans'
  BY <1>1, <1>2, <1>3 DEF PassOver
<1>4. ASSUME NEW r \in Runs, Cancel(r) PROVE orphans \cap With("running")' \subseteq orphans'
  BY <1>1, <1>4 DEF Cancel
<1>5. ASSUME NEW p \in Servers, NEW D \in SUBSET Schedules, FireUnit(p, D)
      PROVE  orphans \cap With("running")' \subseteq orphans'
  <2> DEFINE t == Head(sched[p].pass.todo)
  <2>1. orphans' = orphans \ Stale(t)
    BY <1>5 DEF FireUnit
  <2>2. With("running")' = With("running") \ Stale(t)
    BY <1>5, FireKeeps
  <2> QED
    BY <2>1, <2>2
<1>6. ASSUME NEW p \in Servers, Tick(p) \/ Unlicensed(p) \/ UnitFails(p) \/ UnitAnswered(p)
      PROVE  orphans \subseteq orphans'
  BY <1>6 DEF Tick, Unlicensed, UnitFails, UnitAnswered, history
<1>7. ASSUME NEW p \in Servers, ClaimStep(p) \/ ClaimBegins(p) \/ ClaimFails(p) PROVE orphans \subseteq orphans'
  BY <1>7 DEF ClaimStep, ClaimCommits, ClaimAnswered, ClaimBegins, ClaimFails, history
<1>8. ASSUME NEW p \in Servers, NEW r \in Runs, Store(p, r) \/ Finish(p, r) \/ StoreFails(p, r) \/ RunNowCommits(p, r)
      PROVE  orphans \subseteq orphans'
  BY <1>8 DEF Store, Finish, StoreFails, RunNowCommits, history
<1>9. ASSUME NEW p \in Servers, NEW s \in Schedules, RunNowBegins(p, s) PROVE orphans \subseteq orphans'
  BY <1>9 DEF RunNowBegins, history
<1>10. ASSUME NEW p \in Servers, Kick(p) \/ Stop(p) \/ Stopped(p) \/ Crash(p) \/ Restart(p)
       PROVE  orphans \subseteq orphans'
  BY <1>10 DEF Kick, Stop, Stopped, Crash, Restart, history
<1>11. ASSUME NEW r \in Runs, Overdue(r) PROVE orphans \subseteq orphans'
  BY <1>11 DEF Overdue, history
<1>12. ASSUME NEW t, NEW st, SetStatus(t, st) PROVE orphans \subseteq orphans'
  BY <1>12 DEF SetStatus, history
<1>13. CASE UNCHANGED vars
  BY <1>13 DEF vars, history
<1> QED
  BY <1>3, <1>4, <1>5, <1>6, <1>7, <1>8, <1>9, <1>10, <1>11, <1>12, <1>13 DEF Next, PassStep, RequestStep

LEMMA BehindStep ==
    ASSUME Rows, Machines, Modes, StopLeavesNothing, [Next]_vars
    PROVE  StopLeavesNothing'
<1>1. StopLeavesNothing <=> \A r \in With("running") : r \in orphans \/ \E p \in Servers : r \in Holds(p)
  BY DEF StopLeavesNothing, Holds
<1>2. StopLeavesNothing' <=> \A r \in With("running")' : r \in orphans' \/ \E p \in Servers : r \in Holds(p)'
  BY DEF StopLeavesNothing, Holds
<1>3. ASSUME NEW r \in With("running"), r \in With("running")'
      PROVE  r \in orphans' \/ \E p \in Servers : r \in Holds(p)'
  <2>1. CASE r \in orphans
    BY <1>3, <2>1, OrphansStay
  <2>2. ASSUME NEW p \in Servers, r \in Holds(p) PROVE r \in orphans' \/ r \in Holds(p)'
    <3>1. HoldsOn(p)
      BY MachinesStep
    <3> QED
      BY <1>3, <2>2, <3>1 DEF HoldsOn
  <2> QED
    BY <1>1, <1>3, <2>1, <2>2
<1>4. ASSUME NEW p \in Servers, ClaimCommits(p), NEW r \in With("running")', r \notin With("running")
      PROVE  r \in Holds(p)'
  <2>1. PICK X : sched \in [Servers -> Shape(X)]
    BY DEF Machines, Shaped
  <2>2. ASSUME UNCHANGED row PROVE FALSE
    BY <1>4, <2>2 DEF With
  <2>3. PICK k \in OfTenant(Asked(p), With("queued")) :
            (\A q \in Runs \ {k} : row'[q] = row[q]) /\ SetRound(p, "answered", k)
    BY <1>4, <2>2, ClaimRows
  <2>4. r = k
    BY <1>4, <2>3 DEF With
  <2>5. sched' = [sched EXCEPT ![p] = [sched[p] EXCEPT !.round.stage = "answered", !.round.answer = k]]
    BY <2>3 DEF SetRound, Set
  <2>6. sched'[p].round.answer = k
    BY <2>1, <2>5 DEF Shape
  <2> QED
    BY <2>4, <2>6 DEF Holds
<1> QED
  BY <1>2, <1>3, <1>4, RunningShrinks

---------------------------------------------------------------------------
(* How a run ended stands *)

LEMMA OutcomeStep ==
    ASSUME Rows, ScheduleInv, [Next]_vars, NEW r \in Runs, Ended(r)
    PROVE  row'[r] \in {row[r], NoRun}
<1>0. r \notin With("queued") \cup With("running") /\ row[r] # NoRun
  BY DEF Ended, With
<1>1. CASE Fades
  BY <1>1, FadesShrinks
<1>2. ASSUME NEW p \in Servers, NEW D \in SUBSET Schedules, FireUnit(p, D) PROVE row'[r] = row[r]
  <2>1. \A t : r \notin Stale(t)
    BY <1>0 DEF Stale, OfTenant, Rows
  <2> QED
    BY <1>0, <1>2, <2>1, FireKeeps
<1>3. ASSUME NEW p \in Servers, ClaimCommits(p) PROVE row'[r] = row[r]
  BY <1>0, <1>3, ClaimRows DEF OfTenant
<1>4. ASSUME NEW p \in Servers, NEW k \in Runs, RunNowCommits(p, k) PROVE row'[r] = row[r]
  <2>1. now[p].schedule \in Schedules
    BY <1>4 DEF RunNowCommits, ScheduleInv, RequestAlone
  <2> QED
    BY <1>0, <1>4, <2>1, RequestRows
<1> QED
  BY <1>1, <1>2, <1>3, <1>4, RowKinds

---------------------------------------------------------------------------
(* The lists of tenants *)

LEMMA LeastExists ==
    ASSUME NEW T \in SUBSET Nat, T # {}
    PROVE  \E i \in T : \A j \in T : i <= j
<1>1. IsWellFoundedOn(OpToRel(<, Nat), Nat)
  BY NatLessThanWellFounded
<1>2. PICK x \in T : \A y \in T : ~(<<y, x>> \in OpToRel(<, Nat))
  BY <1>1, WFMin
<1>3. \A y \in T : ~(y < x)
  BY <1>2 DEF OpToRel
<1> QED
  BY <1>3

(* Filtered keeps what is in the set, and puts nothing else in. *)
LEMMA FilteredProperties ==
    ASSUME NEW S, NEW s \in Seq(S), NEW W
    PROVE  /\ Filtered(s, W) \in Seq(S)
           /\ \A t \in ToSet(s) \cap W : \E i \in 1 .. Len(Filtered(s, W)) : Filtered(s, W)[i] = t
<1> DEFINE kept == {i \in DOMAIN s : s[i] \in W}
           upTo(i) == {j \in kept : j <= i}
           c == Cardinality(kept)
           f == [i \in kept |-> Cardinality(upTo(i))]
           at(n) == CHOOSE i \in kept : Cardinality(upTo(i)) = n
<1>1. Filtered(s, W) = [n \in 1 .. c |-> s[at(n)]]
  BY DEF Filtered
<1>2. kept \subseteq 1 .. Len(s) /\ kept \subseteq Nat /\ IsFiniteSet(kept) /\ c \in Nat
  <2>1. IsFiniteSet(1 .. Len(s)) /\ kept \subseteq 1 .. Len(s)
    BY FS_Interval
  <2> QED
    BY <2>1, FS_Subset, FS_CardinalityType
<1> HIDE DEF kept
<1>3. ASSUME NEW i \in kept
      PROVE  IsFiniteSet(upTo(i)) /\ Cardinality(upTo(i)) \in 1 .. c
  <2>1. upTo(i) \in SUBSET kept /\ i \in upTo(i)
    BY <1>2
  <2>2. IsFiniteSet(upTo(i)) /\ Cardinality(upTo(i)) \in Nat /\ Cardinality(upTo(i)) <= c
    BY <1>2, <2>1, FS_Subset, FS_CardinalityType
  <2>3. Cardinality(upTo(i)) # 0
    BY <2>1, <2>2, FS_EmptySet
  <2> QED
    BY <2>2, <2>3
<1>4. ASSUME NEW i \in kept, NEW j \in kept, Cardinality(upTo(i)) = Cardinality(upTo(j))
      PROVE  i = j
  <2>1. ASSUME NEW x \in kept, NEW y \in kept, x < y, Cardinality(upTo(x)) = Cardinality(upTo(y))
        PROVE  FALSE
    <3>1. upTo(x) \in SUBSET upTo(y) /\ y \in upTo(y) /\ y \notin upTo(x)
      <4>1. \A e \in kept : e \in Nat
        BY <1>2
      <4>2. \A e \in kept : e <= x => e <= y
        BY <2>1, <4>1
      <4> QED
        BY <2>1, <4>1, <4>2
    <3>2. IsFiniteSet(upTo(y))
      BY <1>3
    <3> HIDE DEF upTo
    <3>3. upTo(y) = upTo(x)
      BY <2>1, <3>1, <3>2, FS_Subset
    <3> QED
      BY <3>1, <3>3
  <2>2. i \in Nat /\ j \in Nat
    BY <1>2
  <2> QED
    BY <1>4, <2>1, <2>2
<1>5. f \in Injection(kept, 1 .. c)
  BY <1>3, <1>4 DEF Injection, IsInjective
<1>6. IsFiniteSet(1 .. c) /\ Cardinality(1 .. c) = c
  BY <1>2, FS_Interval
<1>7. f \in Surjection(kept, 1 .. c)
  BY <1>5, <1>6, FS_Injection
<1>8. \A n \in 1 .. c : \E i \in kept : Cardinality(upTo(i)) = n
  BY <1>7 DEF Surjection
<1> HIDE DEF upTo, f
<1>9. \A n \in 1 .. c : at(n) \in kept
  BY <1>8
<1>10. \A i \in kept : at(Cardinality(upTo(i))) = i
  BY <1>4
<1> HIDE DEF at, c
<1>11. \A n \in 1 .. c : s[at(n)] \in S
  <2>1. \A i \in kept : s[i] \in S
    BY <1>2, ElementOfSeq
  <2> QED
    BY <1>9, <2>1
<1>12. Filtered(s, W) \in Seq(S) /\ Len(Filtered(s, W)) = c
  BY <1>1, <1>2, <1>11
<1>13. ASSUME NEW t \in ToSet(s) \cap W
       PROVE  \E i \in 1 .. Len(Filtered(s, W)) : Filtered(s, W)[i] = t
  <2>1. PICK i \in kept : s[i] = t
    BY DEF ToSet, kept
  <2>2. Cardinality(upTo(i)) \in 1 .. c
    BY <1>3
  <2>3. Filtered(s, W)[Cardinality(upTo(i))] = t
    BY <1>1, <1>10, <2>1, <2>2
  <2> QED
    BY <1>12, <2>2, <2>3
<1> QED
  BY <1>12, <1>13

LEMMA RotatedProperties ==
    ASSUME NEW S, NEW s \in Seq(S), NEW k \in 0 .. Len(s)
    PROVE  /\ Rotated(s, k) \in Seq(S) /\ Len(Rotated(s, k)) = Len(s)
           /\ \A i \in 1 .. Len(s) - k : Rotated(s, k)[i] = s[i + k]
           /\ \A i \in 1 .. k : Rotated(s, k)[Len(s) - k + i] = s[i]
<1> DEFINE front == SubSeq(s, 1, k)
           back == SubSeq(s, k + 1, Len(s))
<1>1. k \in Nat /\ Len(s) \in Nat /\ k <= Len(s)
  OBVIOUS
<1>2. /\ front \in Seq(S) /\ Len(front) = k
      /\ \A i \in 1 .. k : front[i] = s[i]
  <2>1. \A i \in 1 .. k : s[i] \in S
    BY <1>1
  <2> QED
    BY <1>1, <2>1, SubSeqProperties
<1>3. /\ back \in Seq(S) /\ Len(back) = Len(s) - k
      /\ \A i \in 1 .. Len(s) - k : back[i] = s[i + k]
  <2>1. \A i \in k + 1 .. Len(s) : s[i] \in S
    BY <1>1
  <2>2. /\ back \in Seq(S) /\ Len(back) = IF k + 1 <= Len(s) THEN Len(s) - (k + 1) + 1 ELSE 0
        /\ \A i \in 1 .. Len(s) - (k + 1) + 1 : back[i] = s[(k + 1) + i - 1]
    BY <1>1, <2>1, SubSeqProperties
  <2> QED
    BY <1>1, <2>2
<1> HIDE DEF front, back
<1>4. /\ back \o front \in Seq(S) /\ Len(back \o front) = Len(s)
      /\ \A i \in 1 .. Len(s) : (back \o front)[i] = IF i <= Len(s) - k THEN back[i] ELSE front[i - (Len(s) - k)]
  <2>1. /\ back \o front \in Seq(S) /\ Len(back \o front) = Len(back) + Len(front)
        /\ \A i \in 1 .. Len(back) + Len(front) :
              (back \o front)[i] = IF i <= Len(back) THEN back[i] ELSE front[i - Len(back)]
    BY <1>2, <1>3, ConcatProperties
  <2>2. Len(back) + Len(front) = Len(s)
    BY <1>1, <1>2, <1>3
  <2> QED
    BY <1>3, <2>1, <2>2
<1>5. Rotated(s, k) = back \o front
  BY DEF Rotated, front, back
<1>6. \A i \in 1 .. k : /\ Len(s) - k + i \in 1 .. Len(s) /\ ~(Len(s) - k + i <= Len(s) - k)
                        /\ Len(s) - k + i - (Len(s) - k) = i
  BY <1>1
<1>7. \A i \in 1 .. k : Rotated(s, k)[Len(s) - k + i] = s[i]
  <2> SUFFICES ASSUME NEW i \in 1 .. k PROVE (back \o front)[Len(s) - k + i] = s[i]
    BY <1>5
  <2> DEFINE j == Len(s) - k + i
  <2>1. j \in 1 .. Len(s) /\ ~(j <= Len(s) - k) /\ j - (Len(s) - k) = i
    BY <1>6
  <2> HIDE DEF j
  <2>2. (back \o front)[j] = front[i]
    BY <1>4, <2>1
  <2> QED
    BY <1>2, <2>2 DEF j
<1>8. \A i \in 1 .. Len(s) - k : Rotated(s, k)[i] = s[i + k]
  <2>1. \A i \in 1 .. Len(s) - k : i \in 1 .. Len(s) /\ i <= Len(s) - k
    BY <1>1
  <2> QED
    BY <1>3, <1>4, <1>5, <2>1
<1> QED
  BY <1>4, <1>5, <1>7, <1>8

(* The order of a round has every licensed tenant with a run waiting. *)
LEMMA OrderProperties ==
    ASSUME NEW m \in SchedulerType
    PROVE  /\ Order(m) \in Seq(Tenants)
           /\ \A t \in ToSet(m.licensed) \cap m.waiting : \E i \in 1 .. Len(Order(m)) : Order(m)[i] = t
<1> DEFINE s == m.licensed
           turns == {i \in DOMAIN s : s[i] = m.turn}
           from == IF turns = {} THEN s ELSE Rotated(s, Min(turns) - 1)
<1>1. s \in Seq(Tenants)
  BY DEF SchedulerType
<1>2. Order(m) = Filtered(from, m.waiting)
  BY DEF Order
<1> HIDE DEF s
<1>3. from \in Seq(Tenants) /\ ToSet(s) \subseteq ToSet(from)
  <2>1. CASE turns = {}
    BY <1>1, <2>1
  <2>2. CASE turns # {}
    <3> DEFINE k == Min(turns) - 1
    <3>1. turns \subseteq 1 .. Len(s) /\ turns \in SUBSET Nat
      BY <1>1
    <3> HIDE DEF turns
    <3>2. \E i \in turns : \A j \in turns : i =< j
      BY <2>2, <3>1, LeastExists
    <3>3. Min(turns) \in turns
      BY <3>2 DEF Min
    <3>4. k \in 0 .. Len(s)
      <4> HIDE DEF k, from, turns
      <4>1. Min(turns) \in 1 .. Len(s)
        BY <3>1, <3>3
      <4>2. Len(s) \in Nat
        BY <1>1, LenProperties
      <4> QED
        BY <4>1, <4>2 DEF k
    <3>5. from = Rotated(s, k)
      BY <2>2
    <3> HIDE DEF k, from
    <3>6. /\ from \in Seq(Tenants) /\ Len(from) = Len(s)
          /\ \A i \in 1 .. Len(s) - k : from[i] = s[i + k]
          /\ \A i \in 1 .. k : from[Len(s) - k + i] = s[i]
      BY <1>1, <3>4, <3>5, RotatedProperties
    <3>7. ASSUME NEW i \in 1 .. Len(s) PROVE s[i] \in ToSet(from)
      <4>1. Len(s) \in Nat /\ DOMAIN from = 1 .. Len(s)
        BY <1>1, <3>6
      <4>2. CASE i <= k
        <5>1. Len(s) - k + i \in 1 .. Len(s) /\ i \in 1 .. k
          BY <3>4, <4>1, <4>2
        <5>2. from[Len(s) - k + i] = s[i]
          BY <3>6, <5>1
        <5> QED
          BY <4>1, <5>1, <5>2 DEF ToSet
      <4>3. CASE i > k
        <5>1. i - k \in 1 .. Len(s) /\ i - k \in 1 .. Len(s) - k /\ (i - k) + k = i
          BY <3>4, <4>1, <4>3
        <5>2. from[i - k] = s[i]
          BY <3>6, <5>1
        <5> QED
          BY <4>1, <5>1, <5>2 DEF ToSet
      <4> QED
        BY <3>4, <4>1, <4>2, <4>3
    <3> QED
      BY <1>1, <3>6, <3>7 DEF ToSet
  <2> QED
    BY <2>1, <2>2
<1> HIDE DEF from
<1> QED
  BY <1>2, <1>3, FilteredProperties DEF s

---------------------------------------------------------------------------
(* What a Run now is owed *)

Passing(m) == m.pass.stage \in {"unit", "answered"}

(* The chain of starts, as long as the scheduler is not stopped. *)
PassEndedUp(m) == PassEnded(m, TRUE)
AsksUp(m) == HasRoom(m) /\ m.starts # <<>> /\ Order(m) # <<>>
NextStartUp(m) == NextStart(m, TRUE)
StartQueuedUp(m, kind) == StartQueued(m, kind, TRUE)
RoundGoesOnUp(m) == RoundGoesOn(m, TRUE)

(* The pass under way will list a tenant if it lists its license. *)
Listing(m, t) == t \in ToSet(m.pass.licensed) => t \in m.pass.waiting \cup m.kicked

(* A kick waits for the start of the pass that is over. *)
Behind(m, t) == m.pass.stage = "starting" /\ t \in m.kicked /\ m.kicks > 0

(* The round under way will ask the tenant, or another start follows it. *)
InTurn(rd, t) == t \notin rd.failing /\ \E i \in 1 .. Len(rd.order) - rd.idle : rd.order[i] = t
Pending(m, t) == m.starts # <<>> /\ (InTurn(m.round, t) \/ Tail(m.starts) # <<>>)

(* What holds of a tenant one of whose runs is promised: between steps, as *)
(* the next start of the chain begins, and as one is added to it.          *)
Cared(m, t) ==
    IF Passing(m) THEN Listing(m, t)
    ELSE Behind(m, t) \/ (t \in ToSet(m.licensed) => t \in m.waiting /\ (HasRoom(m) => Pending(m, t)))
Owed(m, t) ==
    IF Passing(m) THEN Listing(m, t)
    ELSE Behind(m, t) \/ (t \in ToSet(m.licensed) => t \in m.waiting /\ (HasRoom(m) => m.starts # <<>>))
Noted(m, t) ==
    IF Passing(m) THEN Listing(m, t) ELSE Behind(m, t) \/ (t \in ToSet(m.licensed) => t \in m.waiting)

(* The start of a pass is in the chain, once, until that pass is over. *)
Passes(m) == {i \in 1 .. Len(m.starts) : m.starts[i] = "pass"}
Linked(m) ==
    /\ m.pass.stage = "starting" <=> Passes(m) # {}
    /\ \A i, j \in Passes(m) : i = j
    /\ m.kicks > 0 => m.pass.stage # "none"
    /\ m.pass.stage = "answered" => m.pass.todo # <<>>
RoundOn(m) ==
    /\ m.round.stage = "none" <=> m.starts = <<>>
    /\ m.round.stage # "none" => m.round.idle < Len(m.round.order)
Orderly(m) == m \in SchedulerType /\ Linked(m) /\ RoundOn(m)

LEMMA PassEndedGives ==
    ASSUME NEW m \in SchedulerType, NEW n, n = PassEndedUp(m)
    PROVE  /\ n \in SchedulerType /\ n.pass = NoPass /\ n.kicks = 0
           /\ n.round = m.round /\ n.inFlight = m.inFlight /\ n.licensed = m.licensed
           /\ Passes(n) = Passes(m)
           /\ m.kicks = 0 => n.waiting = m.waiting /\ n.starts = m.starts
           /\ m.kicks > 0 => n.waiting = m.waiting \cup m.kicked /\ n.starts # <<>>
<1> DEFINE w == m.waiting \cup m.kicked
           more == [i \in 1 .. m.kicks |-> "more"]
           ended == [m EXCEPT !.pass = NoPass, !.kicks = 0]
           taken == [ended EXCEPT !.waiting = w, !.kicked = {}]
           longer == m.starts \o more
           kept == [taken EXCEPT !.starts = longer]
<1>1. /\ m.starts \in Seq({"pass", "more"}) /\ m.kicks \in Nat
      /\ m.waiting \in SUBSET Tenants /\ m.kicked \in SUBSET Tenants
  BY DEF SchedulerType
<1>2. more \in Seq({"pass", "more"}) /\ Len(more) = m.kicks /\ \A i \in 1 .. m.kicks : more[i] = "more"
  BY <1>1
<1> HIDE DEF more
<1>3. /\ longer \in Seq({"pass", "more"}) /\ Len(longer) = Len(m.starts) + m.kicks
      /\ \A i \in 1 .. Len(m.starts) + m.kicks :
            longer[i] = IF i <= Len(m.starts) THEN m.starts[i] ELSE more[i - Len(m.starts)]
  BY <1>1, <1>2, ConcatProperties
<1> HIDE DEF longer
<1>4. NoPass \in PassType
  BY DEF NoPass, PassType, Stages
<1>5. /\ ended \in SchedulerType /\ ended.pass = NoPass /\ ended.kicks = 0 /\ ended.starts = m.starts
      /\ ended.round = m.round /\ ended.inFlight = m.inFlight /\ ended.licensed = m.licensed
      /\ ended.waiting = m.waiting /\ ended.kicked = m.kicked
  BY <1>4 DEF SchedulerType
<1> HIDE DEF ended
<1>6. /\ taken \in SchedulerType /\ taken.pass = NoPass /\ taken.kicks = 0 /\ taken.starts = m.starts
      /\ taken.round = m.round /\ taken.inFlight = m.inFlight /\ taken.licensed = m.licensed
      /\ taken.waiting = w
  BY <1>1, <1>5 DEF SchedulerType
<1>7. taken = TakeKicked(ended)
  BY <1>5 DEF TakeKicked
<1> HIDE DEF taken
<1>8. /\ kept \in SchedulerType /\ kept.pass = NoPass /\ kept.kicks = 0 /\ kept.starts = longer
      /\ kept.round = m.round /\ kept.inFlight = m.inFlight /\ kept.licensed = m.licensed
      /\ kept.waiting = w
  BY <1>3, <1>6 DEF SchedulerType
<1>9. n = IF m.kicks > 0 THEN [taken EXCEPT !.starts = @ \o more] ELSE ended
  BY <1>7 DEF PassEndedUp, PassEnded, ended, more
<1>10. m.kicks > 0 => n = kept
  BY <1>6, <1>9 DEF longer
<1>13. ~(m.kicks > 0) => n = ended
  BY <1>9
<1>14. n = ended => Passes(n) = Passes(m)
  BY <1>5 DEF Passes
<1> HIDE DEF kept
<1>11. CASE m.kicks = 0
  <2>1. n = ended
    BY <1>1, <1>11, <1>13
  <2> QED
    BY <1>5, <1>11, <1>14, <2>1
<1>12. CASE m.kicks > 0
  <2>1. n = kept
    BY <1>10, <1>12
  <2>2. Passes(n) = Passes(m)
    <3>1. \A i \in 1 .. Len(longer) : longer[i] = "pass" <=> i <= Len(m.starts) /\ m.starts[i] = "pass"
      <4> SUFFICES ASSUME NEW i \in 1 .. Len(longer), ~(i <= Len(m.starts)) PROVE longer[i] = "more"
        BY <1>1, <1>3
      <4>1. i - Len(m.starts) \in 1 .. m.kicks
        BY <1>1, <1>3
      <4> QED
        BY <1>2, <1>3, <4>1
    <3>2. 1 .. Len(m.starts) \subseteq 1 .. Len(longer)
      BY <1>1, <1>3
    <3> QED
      BY <1>1, <1>8, <2>1, <3>1, <3>2 DEF Passes
  <2>3. longer # <<>>
    BY <1>1, <1>3, <1>12
  <2> QED
    BY <1>8, <1>12, <2>1, <2>2, <2>3
<1> QED
  BY <1>1, <1>11, <1>12

(* A start that asks begins a round in which every tenant has its turn. *)
LEMMA AskingServes ==
    ASSUME NEW m \in SchedulerType, Linked(m), AsksUp(m), NEW n, n = Asking(m)
    PROVE  Orderly(n) /\ \A t \in Tenants : Owed(m, t) => Cared(n, t)
<1> DEFINE o == Order(m)
           rd == [NoRound EXCEPT !.stage = "ask", !.order = o]
<1>1. o \in Seq(Tenants) /\ o # <<>> /\ HasRoom(m) /\ m.starts # <<>>
  BY OrderProperties DEF AsksUp
<1>2. \A t \in ToSet(m.licensed) \cap m.waiting : \E i \in 1 .. Len(o) : o[i] = t
  BY OrderProperties
<1>3. n = [m EXCEPT !.round = [NoRound EXCEPT !.stage = "ask", !.order = o]]
  BY DEF Asking
<1> HIDE DEF o
<1>4. rd.stage = "ask" /\ rd.order = o /\ rd.idle = 0 /\ rd.failing = {}
  BY DEF NoRound
<1>5. rd \in RoundType
  BY <1>1 DEF RoundType, NoRound
<1> HIDE DEF rd
<1> DEFINE k == [m EXCEPT !.round = rd]
<1>6. /\ k \in SchedulerType /\ k.round = rd /\ k.pass = m.pass /\ k.kicks = m.kicks /\ k.kicked = m.kicked
      /\ k.starts = m.starts /\ k.licensed = m.licensed /\ k.waiting = m.waiting
  BY <1>5 DEF SchedulerType
<1>7. n = k
  BY <1>3 DEF rd
<1> HIDE DEF k
<1>8. Linked(n)
  BY <1>6, <1>7 DEF Linked, Passes, Passing
<1>9. RoundOn(n)
  <2>1. Len(o) \in Nat /\ Len(o) # 0
    BY <1>1
  <2> QED
    BY <1>1, <1>4, <1>6, <1>7, <2>1 DEF RoundOn
<1>10. ASSUME NEW t \in Tenants, Owed(m, t) PROVE Cared(n, t)
  <2>1. Len(o) \in Nat
    BY <1>1
  <2>2. t \in ToSet(m.licensed) \cap m.waiting => InTurn(rd, t)
    BY <1>2, <1>4, <2>1 DEF InTurn
  <2> QED
    BY <1>1, <1>6, <1>7, <1>10, <2>2 DEF Cared, Owed, Pending, Passing, Listing, Behind
<1> QED
  BY <1>6, <1>7, <1>8, <1>9, <1>10 DEF Orderly

(* The next start of the chain keeps what was owed. *)
LEMMA NextStartServes ==
    ASSUME NEW m \in SchedulerType, Linked(m), m.round.stage = "none", NEW n, n = NextStartUp(m)
    PROVE  Orderly(n) /\ \A t \in Tenants : Owed(m, t) => Cared(n, t)
<1> DEFINE over == [m EXCEPT !.starts = <<>>]
           rest == IF Contains(m.starts, "pass") THEN PassEndedUp(over) ELSE over
           last == [rest EXCEPT !.starts = <<>>]
<1>1. /\ over \in SchedulerType /\ over.starts = <<>> /\ over.round = m.round /\ over.pass = m.pass
      /\ over.kicks = m.kicks /\ over.kicked = m.kicked /\ over.licensed = m.licensed
      /\ over.waiting = m.waiting /\ over.inFlight = m.inFlight
  <2>1. <<>> \in Seq({"pass", "more"})
    OBVIOUS
  <2> QED
    BY <2>1 DEF SchedulerType
<1>2. n = IF AsksUp(m) THEN Asking(m) ELSE IF AsksUp(rest) THEN Asking(rest) ELSE last
  <2>1. n = IF Asks(m, TRUE) THEN Asking(m) ELSE IF Asks(rest, TRUE) THEN Asking(rest) ELSE last
    BY Zenon DEF NextStartUp, NextStart, PassEndedUp, over
  <2>2. \A x : Asks(x, TRUE) <=> AsksUp(x)
    BY Zenon DEF Asks, AsksUp
  <2> HIDE DEF rest, last, over
  <2> QED
    BY <2>1, <2>2, Zenon
<1>3. Contains(m.starts, "pass") <=> Passes(m) # {}
  BY DEF Contains, Passes
<1>4. Passes(over) = {}
  BY <1>1 DEF Passes
<1> HIDE DEF over
<1>5. ASSUME ~AsksUp(m), NEW t \in Tenants, t \in ToSet(m.licensed) \cap m.waiting, m.starts # <<>>
      PROVE  ~HasRoom(m)
  BY <1>5, OrderProperties DEF AsksUp
<1>6. CASE AsksUp(m)
  BY <1>2, <1>6, AskingServes
<1>7. CASE ~AsksUp(m) /\ Passes(m) = {}
  <2>1. rest = over
    BY <1>3, <1>7
  <2>2. ~AsksUp(rest)
    BY <1>1, <2>1 DEF AsksUp
  <2>3. last = over
    <3> HIDE DEF rest
    <3> QED
      BY <1>1, <2>1 DEF SchedulerType
  <2>4. n = over
    BY <1>2, <1>7, <2>2, <2>3
  <2> HIDE DEF rest, last
  <2>5. Orderly(n)
    BY <1>1, <1>4, <1>7, <2>4 DEF Orderly, Linked, RoundOn, Passing
  <2>6. ASSUME NEW t \in Tenants, Owed(m, t) PROVE Cared(n, t)
    <3>1. HasRoom(over) <=> HasRoom(m)
      BY <1>1 DEF HasRoom
    <3> QED
      BY <1>1, <1>5, <1>7, <2>4, <2>6, <3>1 DEF Owed, Cared, Passing, Listing, Behind, Linked
  <2> QED
    BY <2>5, <2>6
<1>8. CASE ~AsksUp(m) /\ Passes(m) # {}
  <2>1. rest = PassEndedUp(over) /\ m.pass.stage = "starting" /\ m.starts # <<>>
    BY <1>3, <1>8 DEF Linked, Passes
  <2>2. /\ rest \in SchedulerType /\ rest.pass = NoPass /\ rest.kicks = 0
        /\ rest.round = m.round /\ rest.inFlight = m.inFlight /\ rest.licensed = m.licensed
        /\ Passes(rest) = {}
        /\ m.kicks = 0 => rest.waiting = m.waiting /\ rest.starts = <<>>
        /\ m.kicks > 0 => rest.waiting = m.waiting \cup m.kicked /\ rest.starts # <<>>
    BY <1>1, <1>4, <2>1, PassEndedGives
  <2> HIDE DEF rest
  <2>3. Linked(rest) /\ ~Passing(rest)
    BY <2>2 DEF Linked, NoPass, Passing
  <2>4. HasRoom(rest) <=> HasRoom(m)
    BY <2>2 DEF HasRoom
  <2>5. m.kicks \in Nat
    BY DEF SchedulerType
  <2>6. ASSUME NEW t \in Tenants, Owed(m, t), t \in ToSet(rest.licensed)
        PROVE  t \in rest.waiting /\ (HasRoom(rest) => rest.starts # <<>>)
    <3>1. CASE Behind(m, t)
      BY <2>2, <3>1 DEF Behind
    <3>2. CASE ~Behind(m, t)
      <4>1. t \in m.waiting
        BY <2>1, <2>2, <2>6, <3>2 DEF Owed, Passing
      <4>2. ~HasRoom(m)
        BY <1>5, <1>8, <2>1, <2>2, <2>6, <4>1
      <4> QED
        BY <2>2, <2>4, <2>5, <4>1, <4>2
    <3> QED
      BY <3>1, <3>2
  <2>7. \A t \in Tenants : Owed(m, t) => Owed(rest, t)
    BY <2>3, <2>6 DEF Owed
  <2>8. CASE AsksUp(rest)
    BY <1>2, <1>8, <2>2, <2>3, <2>7, <2>8, AskingServes
  <2>9. CASE ~AsksUp(rest)
    <3>1. n = last
      BY <1>2, <1>8, <2>9
    <3>2. /\ last \in SchedulerType /\ last.starts = <<>> /\ last.round = m.round /\ last.pass = NoPass
          /\ last.kicks = 0 /\ last.licensed = rest.licensed /\ last.waiting = rest.waiting
          /\ last.inFlight = m.inFlight
      <4>1. <<>> \in Seq({"pass", "more"})
        OBVIOUS
      <4> QED
        BY <2>2, <4>1 DEF SchedulerType
    <3>3. Passes(last) = {}
      BY <3>2 DEF Passes
    <3> HIDE DEF last
    <3>4. Orderly(n)
      BY <3>1, <3>2, <3>3 DEF Orderly, Linked, RoundOn, Passing, NoPass
    <3>5. ASSUME NEW t \in Tenants, Owed(m, t) PROVE Cared(n, t)
      <4>1. HasRoom(last) <=> HasRoom(rest)
        BY <2>2, <3>2 DEF HasRoom
      <4>2. t \in ToSet(rest.licensed) /\ HasRoom(rest) => t \notin rest.waiting
        <5>1. t \in ToSet(rest.licensed) /\ HasRoom(rest) => rest.starts # <<>>
          BY <2>6, <3>5
        <5>2. ASSUME t \in ToSet(rest.licensed) \cap rest.waiting PROVE Order(rest) # <<>>
          BY <2>2, <5>2, OrderProperties
        <5> QED
          BY <2>9, <5>1, <5>2 DEF AsksUp
      <4>3. t \in ToSet(rest.licensed) => t \in rest.waiting /\ ~HasRoom(rest)
        BY <2>6, <3>5, <4>2
      <4> QED
        BY <3>1, <3>2, <4>1, <4>3 DEF Cared, Passing, NoPass
    <3> QED
      BY <3>4, <3>5
  <2> QED
    BY <2>8, <2>9
<1> QED
  BY <1>6, <1>7, <1>8

(* A start added to the chain serves every tenant that waits. *)
LEMMA StartQueuedServes ==
    ASSUME NEW m \in SchedulerType, RoundOn(m), NEW kind \in {"pass", "more"},
           Linked([m EXCEPT !.starts = Append(m.starts, kind)]), NEW n, n = StartQueuedUp(m, kind)
    PROVE  Orderly(n) /\ \A t \in Tenants : Noted(m, t) => Cared(n, t)
<1> DEFINE longer == Append(m.starts, kind)
           queued == [m EXCEPT !.starts = longer]
<1>1. m.starts \in Seq({"pass", "more"})
  BY DEF SchedulerType
<1>2. longer \in Seq({"pass", "more"}) /\ Len(longer) = Len(m.starts) + 1 /\ longer # <<>>
  BY <1>1
<1>3. n = IF m.starts = <<>> THEN NextStartUp(queued) ELSE queued
  <2>1. [m EXCEPT !.starts = Append(@, kind)] = queued
    BY DEF SchedulerType
  <2> HIDE DEF queued
  <2> QED
    BY <2>1, Zenon DEF StartQueuedUp, StartQueued, NextStartUp
<1> HIDE DEF longer
<1>4. /\ queued \in SchedulerType /\ queued.starts = longer /\ queued.round = m.round /\ queued.pass = m.pass
      /\ queued.kicks = m.kicks /\ queued.kicked = m.kicked /\ queued.licensed = m.licensed
      /\ queued.waiting = m.waiting /\ queued.inFlight = m.inFlight
  BY <1>2 DEF SchedulerType
<1>5. Linked(queued)
  BY DEF longer
<1> HIDE DEF queued
<1>6. HasRoom(queued) <=> HasRoom(m)
  BY <1>4 DEF HasRoom
<1>7. CASE m.starts = <<>>
  <2>1. queued.round.stage = "none"
    BY <1>4, <1>7 DEF RoundOn
  <2>2. \A t \in Tenants : Noted(m, t) => Owed(queued, t)
    BY <1>2, <1>4 DEF Noted, Owed, Passing, Listing, Behind
  <2> QED
    BY <1>3, <1>4, <1>5, <1>7, <2>1, <2>2, NextStartServes
<1>8. CASE m.starts # <<>>
  <2>1. n = queued
    BY <1>3, <1>8
  <2>2. RoundOn(queued)
    BY <1>2, <1>4, <1>8 DEF RoundOn
  <2>3. Tail(longer) # <<>>
    <3>1. Len(m.starts) \in Nat /\ Len(m.starts) # 0
      BY <1>1, <1>8
    <3>2. Len(Tail(longer)) = Len(longer) - 1
      BY <1>2, HeadTailProperties
    <3> QED
      BY <1>2, <3>1, <3>2
  <2>4. \A t \in Tenants : Noted(m, t) => Cared(queued, t)
    BY <1>2, <1>4, <2>3 DEF Noted, Cared, Passing, Listing, Behind, Pending
  <2> QED
    BY <1>4, <1>5, <2>1, <2>2, <2>4 DEF Orderly
<1> QED
  BY <1>7, <1>8

(* A round ends when the server is full or nobody is left to ask. *)
LEMMA RoundEndedServes ==
    ASSUME NEW m \in SchedulerType, Linked(m), m.starts # <<>>, NEW n, n = RoundEnded(m, TRUE)
    PROVE  /\ Orderly(n)
           /\ \A t \in Tenants : Cared(m, t) /\ (HasRoom(m) => ~InTurn(m.round, t)) => Cared(n, t)
<1> DEFINE rest == Tail(m.starts)
           ended == [m EXCEPT !.starts = rest, !.round = NoRound]
           x == IF Head(m.starts) = "pass" THEN PassEndedUp(ended) ELSE ended
<1>1. m.starts \in Seq({"pass", "more"}) /\ m.kicks \in Nat
  BY DEF SchedulerType
<1>2. /\ rest \in Seq({"pass", "more"}) /\ Len(rest) = Len(m.starts) - 1
      /\ \A i \in 1 .. Len(rest) : rest[i] = m.starts[i + 1]
  BY <1>1, HeadTailProperties
<1>3. Len(m.starts) \in Nat \ {0} /\ Head(m.starts) = m.starts[1]
  BY <1>1
<1>4. n = NextStartUp(x)
  BY Zenon DEF RoundEnded, NextStartUp, PassEndedUp
<1> HIDE DEF rest
<1>5. NoRound \in RoundType /\ NoRound.stage = "none"
  <2>1. <<>> \in Seq(Tenants)
    OBVIOUS
  <2> QED
    BY <2>1 DEF NoRound, RoundType
<1>6. /\ ended \in SchedulerType /\ ended.starts = rest /\ ended.round = NoRound /\ ended.pass = m.pass
      /\ ended.kicks = m.kicks /\ ended.kicked = m.kicked /\ ended.licensed = m.licensed
      /\ ended.waiting = m.waiting /\ ended.inFlight = m.inFlight
  <2> HIDE DEF NoRound
  <2> QED
    BY <1>2, <1>5 DEF SchedulerType
<1> HIDE DEF ended
<1>7. HasRoom(ended) <=> HasRoom(m)
  BY <1>6 DEF HasRoom
<1>8. \A i \in Passes(ended) : i \in Nat /\ i + 1 \in Passes(m)
  BY <1>2, <1>3, <1>6 DEF Passes
<1>9. \A i \in Passes(m) : i = 1 \/ (i \in Nat /\ i - 1 \in Passes(ended))
  <2> SUFFICES ASSUME NEW i \in Passes(m), i # 1 PROVE i \in Nat /\ i - 1 \in Passes(ended)
    OBVIOUS
  <2>1. i \in 2 .. Len(m.starts) /\ m.starts[i] = "pass"
    BY <1>3 DEF Passes
  <2>2. i - 1 \in 1 .. Len(rest) /\ (i - 1) + 1 = i
    BY <1>2, <1>3, <2>1
  <2>3. rest[i - 1] = "pass"
    BY <1>2, <2>1, <2>2
  <2> QED
    BY <1>6, <2>1, <2>2, <2>3 DEF Passes
<1>10. ASSUME NEW t \in Tenants, Cared(m, t), HasRoom(m) => ~InTurn(m.round, t), ~Passing(m), ~Behind(m, t),
              t \in ToSet(m.licensed)
       PROVE  t \in m.waiting /\ (HasRoom(m) => rest # <<>>)
  BY <1>10 DEF Cared, Pending, rest
<1>11. x.round.stage = "none" /\ x \in SchedulerType /\ Linked(x)
       /\ \A t \in Tenants : Cared(m, t) /\ (HasRoom(m) => ~InTurn(m.round, t)) => Owed(x, t)
  <2>1. CASE Head(m.starts) # "pass"
    <3>1. x = ended
      BY <2>1
    <3>2. 1 \notin Passes(m)
      BY <1>3, <2>1 DEF Passes
    <3>3. Passes(ended) # {} <=> Passes(m) # {}
      BY <1>8, <1>9, <3>2
    <3>4. \A i, j \in Passes(ended) : i = j
      <4> SUFFICES ASSUME NEW i \in Passes(ended), NEW j \in Passes(ended) PROVE i = j
        OBVIOUS
      <4>1. i \in Nat /\ j \in Nat /\ i + 1 \in Passes(m) /\ j + 1 \in Passes(m)
        BY <1>8
      <4>2. i + 1 = j + 1
        BY <4>1 DEF Linked
      <4> QED
        BY <4>1, <4>2
    <3> HIDE DEF x
    <3>5. Linked(x)
      BY <1>6, <3>1, <3>3, <3>4 DEF Linked, Passing
    <3>6. \A t \in Tenants : Cared(m, t) /\ (HasRoom(m) => ~InTurn(m.round, t)) => Owed(x, t)
      BY <1>6, <1>7, <1>10, <3>1 DEF Cared, Owed, Passing, Listing, Behind
    <3> QED
      BY <1>5, <1>6, <3>1, <3>5, <3>6
  <2>2. CASE Head(m.starts) = "pass"
    <3>1. x = PassEndedUp(ended)
      BY <2>2
    <3>2. 1 \in Passes(m)
      BY <1>3, <2>2 DEF Passes
    <3>3. Passes(ended) = {}
      <4> SUFFICES ASSUME NEW i \in Passes(ended) PROVE FALSE
        OBVIOUS
      <4>1. i \in Nat /\ i + 1 \in Passes(m) /\ i \in 1 .. Len(rest)
        BY <1>6, <1>8 DEF Passes
      <4>2. i + 1 = 1
        BY <3>2, <4>1 DEF Linked
      <4> QED
        BY <4>1, <4>2
    <3>4. m.pass.stage = "starting"
      BY <3>2 DEF Linked
    <3> HIDE DEF x
    <3>5. /\ x \in SchedulerType /\ x.pass = NoPass /\ x.kicks = 0
          /\ x.round = NoRound /\ x.inFlight = m.inFlight /\ x.licensed = m.licensed
          /\ Passes(x) = {}
          /\ m.kicks = 0 => x.waiting = m.waiting /\ x.starts = rest
          /\ m.kicks > 0 => x.waiting = m.waiting \cup m.kicked /\ x.starts # <<>>
      BY <1>6, <3>1, <3>3, PassEndedGives
    <3>6. Linked(x)
      BY <3>5 DEF Linked, Passing, NoPass
    <3>7. HasRoom(x) <=> HasRoom(m)
      BY <3>5 DEF HasRoom
    <3>8. ASSUME NEW t \in Tenants, Cared(m, t), HasRoom(m) => ~InTurn(m.round, t)
          PROVE  Owed(x, t)
      <4>1. ~Passing(m) /\ ~Passing(x)
        BY <3>4, <3>5 DEF Passing, NoPass
      <4>2. CASE Behind(m, t)
        BY <3>5, <4>1, <4>2 DEF Behind, Owed
      <4>3. CASE ~Behind(m, t)
        <5>1. t \in ToSet(m.licensed) => t \in m.waiting /\ (HasRoom(m) => rest # <<>>)
          BY <1>10, <3>8, <4>1, <4>3
        <5> QED
          BY <1>1, <3>5, <3>7, <4>1, <5>1 DEF Owed
      <4> QED
        BY <4>2, <4>3
    <3> QED
      BY <1>5, <3>5, <3>6, <3>8
  <2> QED
    BY <2>1, <2>2
<1> HIDE DEF x
<1> QED
  BY <1>4, <1>11, NextStartServes

(* The round goes on with the next tenant that is not failing, or ends. *)
LEMMA RoundGoesOnServes ==
    ASSUME NEW m \in SchedulerType, Linked(m), m.starts # <<>>, m.round.idle <= Len(m.round.order),
           NEW n, n = RoundGoesOnUp(m)
    PROVE  Orderly(n) /\ \A t \in Tenants : Cared(m, t) => Cared(n, t)
<1> DEFINE rd == m.round
           s == rd.order
           ahead == {k \in 0 .. Len(s) : k < Len(s) - rd.idle /\ s[k + 1] \notin rd.failing}
           k == CHOOSE j \in ahead : \A i \in ahead : j <= i
           o == Rotated(s, k)
           on == [rd EXCEPT !.stage = "ask", !.order = o, !.idle = rd.idle + k, !.answer = NoRun]
           x == [m EXCEPT !.round = on]
<1>1. rd \in RoundType
  BY DEF SchedulerType
<1>2. s \in Seq(Tenants) /\ Len(s) \in Nat /\ rd.idle \in Nat /\ rd.idle <= Len(s)
  BY <1>1 DEF RoundType
<1>3. n = IF HasRoom(m) /\ ahead # {} THEN x ELSE RoundEnded(m, TRUE)
  <2>1. [rd EXCEPT !.stage = "ask", !.order = Rotated(@, k), !.idle = @ + k, !.answer = NoRun] = on
    <3> HIDE DEF k
    <3> QED
      BY <1>1 DEF RoundType
  <2>2. n = IF TRUE /\ HasRoom(m) /\ ahead # {}
            THEN [m EXCEPT !.round = [rd EXCEPT !.stage = "ask", !.order = Rotated(@, k), !.idle = @ + k, !.answer = NoRun]]
            ELSE RoundEnded(m, TRUE)
    BY Zenon DEF RoundGoesOnUp, RoundGoesOn
  <2> HIDE DEF on, ahead, k, s
  <2> QED
    BY <2>1, <2>2, Zenon
<1>4. \A t : InTurn(rd, t) => \E i \in 1 .. Len(s) - rd.idle : s[i] = t /\ i - 1 \in ahead
  <2> SUFFICES ASSUME NEW t, InTurn(rd, t) PROVE \E i \in 1 .. Len(s) - rd.idle : s[i] = t /\ i - 1 \in ahead
    OBVIOUS
  <2>1. PICK i \in 1 .. Len(s) - rd.idle : s[i] = t
    BY DEF InTurn
  <2>2. t \notin rd.failing
    BY DEF InTurn
  <2>3. i - 1 \in 0 .. Len(s) /\ i - 1 < Len(s) - rd.idle /\ (i - 1) + 1 = i
    BY <1>2, <2>1
  <2> HIDE DEF rd, s
  <2> QED
    BY <2>1, <2>2, <2>3
<1>5. CASE ~(HasRoom(m) /\ ahead # {})
  <2>1. \A t \in Tenants : HasRoom(m) => ~InTurn(rd, t)
    BY <1>4, <1>5
  <2>2. n = RoundEnded(m, TRUE)
    BY <1>3, <1>5, Zenon
  <2> HIDE DEF ahead, k, o, on, x
  <2> QED
    BY <2>1, <2>2, RoundEndedServes
<1>6. CASE HasRoom(m) /\ ahead # {}
  <2>1. ahead \in SUBSET Nat
    BY <1>2
  <2>2. \E j \in ahead : \A i \in ahead : j <= i
    BY <1>6, <2>1, LeastExists
  <2>3. k \in ahead /\ \A i \in ahead : k <= i
    <3> HIDE DEF ahead
    <3> QED
      BY <2>2
  <2>4. n = x
    BY <1>3, <1>6, Zenon
  <2> HIDE DEF k, x
  <2>5. k \in 0 .. Len(s) /\ k \in Nat /\ k < Len(s) - rd.idle
    BY <1>2, <2>3
  <2> HIDE DEF ahead
  <2>6. /\ o \in Seq(Tenants) /\ Len(o) = Len(s)
        /\ \A i \in 1 .. Len(s) - k : o[i] = s[i + k]
    BY <1>2, <2>5, RotatedProperties
  <2> HIDE DEF o, s, rd
  <2>7. /\ on \in RoundType /\ on.stage = "ask" /\ on.order = o /\ on.idle = rd.idle + k /\ on.failing = rd.failing
    <3>1. rd.idle + k \in Nat
      BY <1>2, <2>5
    <3> QED
      BY <1>1, <2>6, <3>1 DEF RoundType
  <2> HIDE DEF on
  <2>8. /\ x \in SchedulerType /\ x.starts = m.starts /\ x.round = on /\ x.pass = m.pass
        /\ x.kicks = m.kicks /\ x.kicked = m.kicked /\ x.licensed = m.licensed
        /\ x.waiting = m.waiting /\ x.inFlight = m.inFlight
    BY <2>7 DEF SchedulerType, x
  <2>9. Linked(x)
    BY <2>8 DEF Linked, Passes, Passing
  <2>10. RoundOn(x)
    <3>1. rd.idle + k < Len(o)
      BY <1>2, <2>5, <2>6
    <3> QED
      BY <2>7, <2>8, <3>1 DEF RoundOn
  <2>11. ASSUME NEW t \in Tenants, InTurn(rd, t) PROVE InTurn(on, t)
    <3>1. PICK i \in 1 .. Len(s) - rd.idle : s[i] = t /\ i - 1 \in ahead
      BY <1>4, <2>11
    <3>2. k <= i - 1
      BY <2>3, <3>1
    <3>3. i - k \in 1 .. Len(o) - (rd.idle + k) /\ i - k \in 1 .. Len(s) - k /\ (i - k) + k = i
      BY <1>2, <2>5, <2>6, <3>2
    <3>4. o[i - k] = t
      BY <2>6, <3>1, <3>3
    <3> QED
      BY <2>7, <2>11, <3>3, <3>4 DEF InTurn
  <2>12. HasRoom(x) <=> HasRoom(m)
    BY <2>8 DEF HasRoom
  <2> HIDE DEF rd
  <2>13. \A t \in Tenants : Cared(m, t) => Cared(x, t)
    BY <2>8, <2>11, <2>12 DEF Cared, Passing, Listing, Behind, Pending, rd
  <2> QED
    BY <2>4, <2>8, <2>9, <2>10, <2>13 DEF Orderly
<1> QED
  BY <1>5, <1>6

---------------------------------------------------------------------------
(* The promises, step by step *)

(* The server is about to kick for the tenant. *)
Coming(p, t) == now[p].stage = "kick" /\ TenantOf[now[p].schedule] = t

(* A server that is up serves every tenant a run of which it was kicked    *)
(* for, or is about to be.                                                 *)
Kept(p) ==
    /\ Orderly(sched[p])
    /\ \A r \in promised[p] \ missed[p] : Coming(p, RunTenant(r)) \/ Cared(sched[p], RunTenant(r))
KickInv ==
    /\ promised \in [Servers -> SUBSET Runs] /\ missed \in [Servers -> SUBSET Runs]
    /\ \A p \in Servers : promised[p] \subseteq With("queued")
    /\ \A p \in Servers : now[p].stage = "kick" => now[p].schedule \in Schedules
    /\ \A p \in Servers : Up(p) => Kept(p)

(* What a step that makes no promise leaves of them. *)
Fewer ==
    /\ promised' \in [Servers -> SUBSET Runs] /\ missed' \in [Servers -> SUBSET Runs]
    /\ \A p \in Servers :
          promised'[p] \subseteq promised[p] /\ promised'[p] \cap missed[p] \subseteq missed'[p]
RowsStay == \A p \in Servers : \A r \in promised'[p] : row'[r] = row[r]

(* The rows of runs that are queued and not named stay as they are. *)
LEMMA QueuedRowsStay ==
    ASSUME NEW r \in With("queued"), NEW R
    PROVE  /\ r \notin R => Closed(R)[r] = row[r] /\ Marked(R, "finished")[r] = row[r] /\ Marked(R, "running")[r] = row[r]
           /\ LetGo(R)[r] = row[r]
<1>1. r \in Runs /\ ~Ended(r)
  BY DEF With, Ended
<1> QED
  BY <1>1 DEF Closed, Marked, LetGo

(* A step that answers R keeps the other promises. *)
LEMMA AnsweredFewer ==
    ASSUME KickInv, NEW R, Answered(R)
    PROVE  Fewer /\ \A p \in Servers : promised'[p] \cap R = {}
  BY DEF KickInv, Answered, Fewer

LEMMA HistoryFewer ==
    ASSUME KickInv, UNCHANGED <<promised, missed>>
    PROVE  Fewer
  BY DEF KickInv, Fewer

(* A server gives its answers, or forgets what it was asked. *)
LEMMA DroppedFewer ==
    ASSUME KickInv, NEW p \in Servers, NEW R,
           \/ promised' = [promised EXCEPT ![p] = promised[p] \ R] /\ missed' = missed
           \/ promised' = [promised EXCEPT ![p] = {}] /\ missed' = [missed EXCEPT ![p] = {}]
           \/ promised' = promised /\ missed' = [missed EXCEPT ![p] = missed[p] \cup R] /\ R \in SUBSET Runs
    PROVE  Fewer
  BY DEF KickInv, Fewer

LEMMA PromiseKinds ==
    ASSUME Rows, KickInv, [Next]_vars
    PROVE  \/ Fewer /\ RowsStay
           \/ \E p \in Servers, r \in Runs : RunNowCommits(p, r)
<1>0. \A p \in Servers : promised[p] \subseteq With("queued")
  BY DEF KickInv
<1>1. ASSUME Fewer, UNCHANGED row PROVE Fewer /\ RowsStay
  BY <1>1 DEF RowsStay
<1>2. ASSUME Fewer, NEW R, \A p \in Servers : promised'[p] \cap R = {},
             row' = Closed(R) \/ row' = Marked(R, "finished") \/ row' = Marked(R, "running")
      PROVE  Fewer /\ RowsStay
  <2> SUFFICES ASSUME NEW p \in Servers, NEW r \in promised'[p] PROVE row'[r] = row[r]
    BY <1>2 DEF RowsStay
  <2>1. r \in With("queued") /\ r \notin R
    BY <1>0, <1>2 DEF Fewer
  <2> QED
    BY <1>2, <2>1, QueuedRowsStay
<1>3. ASSUME Fewer, NEW R, row' = LetGo(R) PROVE Fewer /\ RowsStay
  <2> SUFFICES ASSUME NEW p \in Servers, NEW r \in promised'[p] PROVE row'[r] = row[r]
    BY <1>3 DEF RowsStay
  <2>1. r \in With("queued")
    BY <1>0, <1>3 DEF Fewer
  <2> QED
    BY <1>3, <2>1, QueuedRowsStay
<1>4. With("queued") \cap With("running") = {}
  BY DEF With
<1>5. ASSUME NEW p \in Servers, NEW D \in SUBSET Schedules, FireUnit(p, D) PROVE Fewer /\ RowsStay
  <2>1. Fewer
    BY <1>5, HistoryFewer DEF FireUnit
  <2> SUFFICES ASSUME NEW q \in Servers, NEW r \in promised'[q] PROVE row'[r] = row[r]
    BY <2>1 DEF RowsStay
  <2>2. r \in With("queued")
    BY <1>0, <2>1 DEF Fewer
  <2>3. r \in Runs /\ row[r] # NoRun /\ \A t : r \notin Stale(t)
    BY <1>4, <2>2 DEF With, Stale, OfTenant, Rows
  <2> QED
    BY <1>5, <2>3, FireKeeps
<1>6. ASSUME NEW p \in Servers, PassOver(p) PROVE Fewer /\ RowsStay
  <2> DEFINE t == Head(sched[p].pass.todo)
             skipped == OfTenant(t, With("queued"))
             R == skipped \cup Stale(t)
  <2>1. Answered(skipped) /\ row' = Closed(R)
    BY <1>6 DEF PassOver
  <2>2. Fewer /\ \A q \in Servers : promised'[q] \cap skipped = {}
    BY <2>1, AnsweredFewer
  <2>3. \A q \in Servers : promised'[q] \cap Stale(t) = {}
    BY <1>0, <1>4, <2>2 DEF Fewer, Stale, OfTenant, Rows
  <2> HIDE DEF skipped
  <2> QED
    BY <1>2, <2>1, <2>2, <2>3
<1>7. ASSUME NEW p \in Servers, UnitFails(p) PROVE Fewer /\ RowsStay
  <2> DEFINE R == OfTenant(Head(sched[p].pass.todo), promised[p])
  <2>1. missed' = missed /\ UNCHANGED row /\ promised' = [promised EXCEPT ![p] = promised[p] \ R]
    BY <1>7 DEF UnitFails, tables
  <2> HIDE DEF R
  <2>2. Fewer
    BY <2>1, DroppedFewer
  <2> QED
    BY <1>1, <2>1, <2>2
<1>8. ASSUME NEW p \in Servers, ClaimCommits(p) PROVE Fewer /\ RowsStay
  <2>1. CASE UNCHANGED <<tables, history>>
    BY <1>1, <2>1, HistoryFewer DEF tables, history
  <2>2. ASSUME NEW r, row' = Marked({r}, "running"), Answered({r}) PROVE Fewer /\ RowsStay
    BY <1>2, <2>2, AnsweredFewer
  <2> QED
    BY <1>8, <2>1, <2>2 DEF ClaimCommits
<1>9. ASSUME NEW p \in Servers, ClaimAnswered(p) PROVE Fewer /\ RowsStay
  <2>1. UNCHANGED row
    BY <1>9 DEF ClaimAnswered, tables
  <2>2. CASE UNCHANGED history
    BY <1>1, <2>1, <2>2, HistoryFewer DEF history
  <2>3. CASE promised' = [promised EXCEPT ![p] = @ \ OfTenant(Asked(p), @)] /\ missed' = missed
    <3> DEFINE R == OfTenant(Asked(p), promised[p])
    <3>1. promised' = [promised EXCEPT ![p] = promised[p] \ R]
      BY <2>3
    <3> HIDE DEF R
    <3>2. Fewer
      BY <2>3, <3>1, DroppedFewer
    <3> QED
      BY <1>1, <2>1, <3>2
  <2>4. CASE missed' = [missed EXCEPT ![p] = @ \cup OfTenant(Asked(p), promised[p])] /\ promised' = promised
    <3> DEFINE R == OfTenant(Asked(p), promised[p])
    <3>1. R \in SUBSET Runs
      BY DEF KickInv, OfTenant
    <3>2. missed' = [missed EXCEPT ![p] = missed[p] \cup R]
      BY <2>4
    <3> HIDE DEF R
    <3>3. Fewer
      BY <2>4, <3>1, <3>2, DroppedFewer
    <3> QED
      BY <1>1, <2>1, <3>3
  <2> QED
    BY <1>9, <2>2, <2>3, <2>4 DEF ClaimAnswered
<1>10. ASSUME NEW p \in Servers, ClaimFails(p) PROVE Fewer /\ RowsStay
  <2> DEFINE R == OfTenant(Asked(p), promised[p])
  <2>1. missed' = missed /\ row' = LetGo({sched[p].round.answer})
        /\ promised' = [promised EXCEPT ![p] = promised[p] \ R]
    BY <1>10 DEF ClaimFails
  <2> HIDE DEF R
  <2>2. Fewer
    BY <2>1, DroppedFewer
  <2> QED
    BY <1>3, <2>1, <2>2
<1>11. ASSUME NEW p \in Servers, NEW r \in Runs, Store(p, r) PROVE Fewer /\ RowsStay
  <2>1. Fewer /\ row' = Marked({r}, "finished") /\ r \in With("running")
    BY <1>11, HistoryFewer DEF Store, history
  <2>2. \A q \in Servers : promised'[q] \cap {r} = {}
    BY <1>0, <1>4, <2>1 DEF Fewer
  <2> QED
    BY <1>2, <2>1, <2>2
<1>12. ASSUME NEW p \in Servers, NEW r \in Runs, Finish(p, r) PROVE Fewer /\ RowsStay
  BY <1>3, <1>12, HistoryFewer DEF Finish, history
<1>13. ASSUME NEW p \in Servers, NEW r \in Runs, StoreFails(p, r) PROVE Fewer /\ RowsStay
  BY <1>1, <1>13, HistoryFewer DEF StoreFails, tables
<1>14. ASSUME NEW r \in Runs, Cancel(r) PROVE Fewer /\ RowsStay
  BY <1>2, <1>14, AnsweredFewer DEF Cancel
<1>15. ASSUME NEW p \in Servers, Stop(p) PROVE Fewer /\ RowsStay
  <2>1. UNCHANGED row /\ promised' = [promised EXCEPT ![p] = {}] /\ missed' = [missed EXCEPT ![p] = {}]
    BY <1>15 DEF Stop, tables
  <2>2. Fewer
    BY <2>1, DroppedFewer
  <2> QED
    BY <1>1, <2>1, <2>2
<1>16. ASSUME NEW p \in Servers, Crash(p) PROVE Fewer /\ RowsStay
  <2>1. row' = LetGo(Holds(p)) /\ promised' = [promised EXCEPT ![p] = {}] /\ missed' = [missed EXCEPT ![p] = {}]
    BY <1>16 DEF Crash
  <2>2. Fewer
    BY <2>1, DroppedFewer
  <2> QED
    BY <1>3, <2>1, <2>2
<1>17. ASSUME NEW p \in Servers,
              Tick(p) \/ Unlicensed(p) \/ UnitAnswered(p) \/ ClaimBegins(p) \/ Kick(p) \/ Stopped(p) \/ Restart(p)
       PROVE  Fewer /\ RowsStay
  <2>1. UNCHANGED <<row, promised, missed>>
    BY <1>17 DEF Tick, Unlicensed, UnitAnswered, ClaimBegins, Kick, Stopped, Restart, tables, history
  <2> QED
    BY <1>1, <2>1, HistoryFewer
<1>18. ASSUME NEW p \in Servers, NEW s \in Schedules, RunNowBegins(p, s) PROVE Fewer /\ RowsStay
  BY <1>1, <1>18, HistoryFewer DEF RunNowBegins, tables, history
<1>19. ASSUME NEW r \in Runs, Overdue(r) PROVE Fewer /\ RowsStay
  BY <1>1, <1>19, HistoryFewer DEF Overdue, history
<1>20. ASSUME NEW t, NEW st, SetStatus(t, st) PROVE Fewer /\ RowsStay
  BY <1>1, <1>20, HistoryFewer DEF SetStatus, tables, history
<1>21. CASE UNCHANGED vars
  BY <1>1, <1>21, HistoryFewer DEF vars, tables, history
<1> QED
  BY <1>5, <1>6, <1>7, <1>8, <1>9, <1>10, <1>11, <1>12, <1>13, <1>14, <1>15, <1>16, <1>17, <1>18, <1>19, <1>20, <1>21
  DEF Next, PassStep, ClaimStep, RequestStep

(* A promise that stays is of the same run of the same tenant. *)
LEMMA PromiseFollows ==
    ASSUME Rows, KickInv, Fewer, RowsStay, NEW p \in Servers, NEW r \in promised'[p] \ missed'[p]
    PROVE  /\ r \in promised[p] \ missed[p] /\ r \in Runs /\ r \in With("queued")
           /\ row'[r] = row[r] /\ RunTenant(r) \in Tenants
<1>1. r \in promised[p] \ missed[p] /\ row'[r] = row[r]
  BY DEF Fewer, RowsStay
<1>2. r \in With("queued")
  BY <1>1 DEF KickInv
<1>3. r \in Runs /\ row[r] \in RowType
  BY <1>2 DEF With, Rows
<1>4. row[r].schedule \in Schedules
  BY <1>3 DEF RowType
<1> QED
  BY <1>1, <1>2, <1>3, <1>4, TenantsAssumption DEF RunTenant

LEMMA KeptBy ==
    ASSUME Rows, KickInv, Fewer, RowsStay, NEW p \in Servers, Up(p), now'[p] = now[p],
           NEW n, sched'[p] = n, Orderly(n),
           \A r \in promised'[p] \ missed'[p] : Cared(sched[p], RunTenant(r)) => Cared(n, RunTenant(r))
    PROVE  Kept(p)'
<1>1. \A r \in promised'[p] \ missed'[p] : Coming(p, RunTenant(r)) \/ Cared(n, RunTenant(r))
  <2> SUFFICES ASSUME NEW r \in promised'[p] \ missed'[p]
               PROVE  Coming(p, RunTenant(r)) \/ Cared(n, RunTenant(r))
    OBVIOUS
  <2>1. r \in promised[p] \ missed[p]
    BY PromiseFollows
  <2> QED
    BY <2>1 DEF KickInv, Kept
<1>2. \A r \in promised'[p] \ missed'[p] : RunTenant(r)' = RunTenant(r)
  BY PromiseFollows DEF RunTenant
<1>3. \A t : Coming(p, t)' <=> Coming(p, t)
  BY DEF Coming
<1>4. Orderly(sched[p])'
  BY DEF Orderly, Linked, RoundOn, Passes, Passing
<1>5. ASSUME NEW r \in promised'[p] \ missed'[p]
      PROVE  (Coming(p, RunTenant(r)) \/ Cared(sched[p], RunTenant(r)))'
  <2> DEFINE t == RunTenant(r)
  <2>1. Coming(p, t) \/ Cared(n, t)
    BY <1>1
  <2>2. t' = t
    BY <1>2
  <2> HIDE DEF t
  <2>3. (Coming(p, t) \/ Cared(sched[p], t))'
    BY <2>1, <2>2 DEF Coming, Cared, Passing, Listing, Behind, Pending, InTurn, HasRoom
  <2> QED
    BY <2>3 DEF t
<1> QED
  BY <1>4, <1>5 DEF Kept

(* Steps that leave the server's scheduler and request alone. *)
LEMMA KeptStays ==
    ASSUME Rows, KickInv, Fewer, RowsStay, NEW p \in Servers, Up(p), now'[p] = now[p], sched'[p] = sched[p]
    PROVE  Kept(p)'
<1>1. Orderly(sched[p])
  BY DEF KickInv, Kept
<1> QED
  BY <1>1, KeptBy

(* Another pass in a scheduler. *)
LEMMA PassEdit ==
    ASSUME NEW m \in SchedulerType, NEW ps \in PassType, NEW n, n = [m EXCEPT !.pass = ps]
    PROVE  /\ n \in SchedulerType /\ n.pass = ps /\ n.starts = m.starts /\ n.round = m.round
           /\ n.kicks = m.kicks /\ n.kicked = m.kicked /\ n.licensed = m.licensed
           /\ n.waiting = m.waiting /\ n.inFlight = m.inFlight
  BY DEF SchedulerType

LEMMA PassEdits ==
    ASSUME NEW m \in SchedulerType, NEW st, NEW x, NEW y
    PROVE  /\ [m EXCEPT !.pass.stage = st] = [m EXCEPT !.pass = [m.pass EXCEPT !.stage = st]]
           /\ [m EXCEPT !.pass.stage = st, !.pass.todo = x]
                 = [m EXCEPT !.pass = [m.pass EXCEPT !.stage = st, !.todo = x]]
           /\ [m EXCEPT !.pass.stage = st, !.pass.licensed = x]
                 = [m EXCEPT !.pass = [m.pass EXCEPT !.stage = st, !.licensed = x]]
           /\ [m EXCEPT !.pass.stage = st, !.pass.licensed = x, !.pass.waiting = y]
                 = [m EXCEPT !.pass = [m.pass EXCEPT !.stage = st, !.licensed = x, !.waiting = y]]
  BY DEF SchedulerType

(* A new pass lists every tenant whose license it lists. *)
LEMMA NewPassServes ==
    ASSUME NEW m \in SchedulerType, Linked(m), RoundOn(m), m.pass.stage = "none",
           NEW n, n = [m EXCEPT !.pass = NewPass]
    PROVE  Orderly(n) /\ \A t \in Tenants : Cared(n, t)
<1>0. TenantList \in Seq(Tenants)
  BY TenantListAssumption
<1>1. NewPass \in PassType /\ NewPass.stage = "unit" /\ NewPass.licensed = <<>>
  <2>1. NoPass \in PassType /\ NoPass.licensed = <<>>
    <3>1. <<>> \in Seq(Tenants) /\ {} \in SUBSET Tenants
      OBVIOUS
    <3> QED
      BY <3>1 DEF NoPass, PassType, Stages
  <2> HIDE DEF NoPass
  <2> QED
    BY <1>0, <2>1 DEF NewPass, PassType, Stages
<1>2. /\ n \in SchedulerType /\ n.pass = NewPass /\ n.starts = m.starts /\ n.round = m.round
      /\ n.kicks = m.kicks /\ n.kicked = m.kicked
  BY <1>1, PassEdit
<1> HIDE DEF NewPass
<1>3. Passes(n) = Passes(m)
  BY <1>2 DEF Passes
<1>4. Orderly(n)
  BY <1>1, <1>2, <1>3 DEF Orderly, Linked, RoundOn
<1>5. ToSet(<<>>) = {}
  BY DEF ToSet
<1> QED
  BY <1>1, <1>2, <1>4, <1>5 DEF Cared, Passing, Listing

LEMMA KeptAll ==
    ASSUME Rows, KickInv, Fewer, RowsStay, NEW p \in Servers, Up(p), now'[p] = now[p],
           NEW n, sched'[p] = n, Orderly(n), \A t \in Tenants : Cared(sched[p], t) => Cared(n, t)
    PROVE  Kept(p)'
<1>1. \A r \in promised'[p] \ missed'[p] : RunTenant(r) \in Tenants
  BY PromiseFollows
<1>2. \A r \in promised'[p] \ missed'[p] : Cared(sched[p], RunTenant(r)) => Cared(n, RunTenant(r))
  BY <1>1
<1> QED
  BY <1>2, KeptBy

LEMMA SetGives ==
    ASSUME Machines, NEW p \in Servers, NEW n, Set(p, n)
    PROVE  sched'[p] = n
BY DEF Machines, Shaped, Set

LEMMA WhenUp ==
    ASSUME NEW p, Up(p), NEW m, NEW kind
    PROVE  StartQueued(m, kind, Up(p)) = StartQueuedUp(m, kind) /\ RoundGoesOn(m, Up(p)) = RoundGoesOnUp(m)
<1>1. Up(p) = TRUE
  BY Zenon
<1>2. StartQueued(m, kind, Up(p)) = StartQueued(m, kind, TRUE)
  BY <1>1, Zenon
<1>3. RoundGoesOn(m, Up(p)) = RoundGoesOn(m, TRUE)
  BY <1>1, Zenon
<1> QED
  BY <1>2, <1>3, Zenon DEF StartQueuedUp, RoundGoesOnUp

LEMMA AppendedSet ==
    ASSUME NEW S, NEW s \in Seq(S), NEW t \in S
    PROVE  Append(s, t) \in Seq(S) /\ \A u : u \in ToSet(Append(s, t)) => u \in ToSet(s) \/ u = t
<1>1. Len(s) \in Nat /\ DOMAIN s = 1 .. Len(s) /\ Len(Append(s, t)) = Len(s) + 1
  OBVIOUS
<1>2. \A i \in 1 .. Len(s) + 1 : i \in 1 .. Len(s) \/ i = Len(s) + 1
  BY <1>1
<1>3. Append(s, t) \in Seq(S) /\ DOMAIN Append(s, t) = 1 .. Len(s) + 1
      /\ (\A i \in 1 .. Len(s) : Append(s, t)[i] = s[i]) /\ Append(s, t)[Len(s) + 1] = t
  BY AppendProperties
<1> QED
  BY <1>1, <1>2, <1>3 DEF ToSet

(* The units of a pass. *)
LEMMA PassKept ==
    ASSUME Rows, Machines, KickInv, Fewer, RowsStay, NEW p \in Servers, Up(p),
           Tick(p) \/ (\E D \in SUBSET Schedules : FireUnit(p, D)) \/ PassOver(p) \/ Unlicensed(p) \/ UnitFails(p)
    PROVE  Kept(p)'
<1> DEFINE m == sched[p]
           ps == m.pass
           t == Head(ps.todo)
<1>1. Orderly(m) /\ now'[p] = now[p] /\ ps \in PassType /\ m \in SchedulerType
  <2>1. Orderly(m)
    BY DEF KickInv, Kept
  <2>2. now'[p] = now[p]
    BY DEF Tick, FireUnit, PassOver, Unlicensed, UnitFails
  <2> QED
    BY <2>1, <2>2 DEF Orderly, SchedulerType
<1>2. CASE Tick(p)
  <2> DEFINE n == [m EXCEPT !.pass = NewPass]
  <2>1. Linked(m) /\ RoundOn(m) /\ m.pass.stage = "none" /\ Set(p, n)
    BY <1>1, <1>2 DEF Tick, Orderly
  <2>2. sched'[p] = n
    BY <2>1, SetGives
  <2> HIDE DEF n, m
  <2>3. Orderly(n) /\ \A u \in Tenants : Cared(n, u)
    BY <1>1, <2>1, NewPassServes DEF n
  <2> QED
    BY <1>1, <2>2, <2>3, KeptAll
<1>3. ASSUME ps.stage = "unit", ps.todo # <<>>, NEW l \in Seq(Tenants), NEW w \in SUBSET Tenants,
             ps.waiting \subseteq w,
             NEW n, n = [m EXCEPT !.pass = [ps EXCEPT !.stage = "answered", !.licensed = l, !.waiting = w]], Set(p, n),
             \A r \in promised'[p] \ missed'[p] :
                RunTenant(r) \in ToSet(l) => RunTenant(r) \in ToSet(ps.licensed) \cup w
      PROVE  Kept(p)'
  <2> DEFINE qs == [ps EXCEPT !.stage = "answered", !.licensed = l, !.waiting = w]
  <2>1. qs \in PassType /\ qs.stage = "answered" /\ qs.todo = ps.todo /\ qs.licensed = l /\ qs.waiting = w
    BY <1>1, <1>3 DEF PassType, Stages
  <2>2. sched'[p] = n
    BY <1>3, SetGives
  <2> HIDE DEF qs, ps, m
  <2>3. /\ n \in SchedulerType /\ n.pass = qs /\ n.starts = m.starts /\ n.round = m.round
        /\ n.kicks = m.kicks /\ n.kicked = m.kicked
    BY <1>1, <1>3, <2>1, PassEdit DEF qs
  <2>4. Passes(n) = Passes(m)
    BY <2>3 DEF Passes
  <2>5. Orderly(n)
    BY <1>1, <1>3, <2>1, <2>3, <2>4 DEF Orderly, Linked, RoundOn, ps
  <2>6. ASSUME NEW r \in promised'[p] \ missed'[p], Cared(m, RunTenant(r)) PROVE Cared(n, RunTenant(r))
    <3>1. RunTenant(r) \in ToSet(l) => RunTenant(r) \in ToSet(ps.licensed) \cup w
      BY <1>3
    <3>2. Passing(m) /\ Passing(n)
      BY <1>3, <2>1, <2>3 DEF Passing, ps
    <3>3. RunTenant(r) \in ToSet(ps.licensed) => RunTenant(r) \in ps.waiting \cup m.kicked
      BY <2>6, <3>2 DEF Cared, Listing, ps
    <3> QED
      BY <1>3, <2>1, <2>3, <3>1, <3>2, <3>3 DEF Cared, Listing
  <2> QED
    BY <1>1, <2>2, <2>5, <2>6, KeptBy DEF m
<1>4. [m EXCEPT !.pass.stage = "answered"]
        = [m EXCEPT !.pass = [ps EXCEPT !.stage = "answered", !.licensed = ps.licensed, !.waiting = ps.waiting]]
  <2>1. [ps EXCEPT !.stage = "answered"]
          = [ps EXCEPT !.stage = "answered", !.licensed = ps.licensed, !.waiting = ps.waiting]
    BY <1>1 DEF PassType
  <2> QED
    BY <1>1, <2>1, PassEdits
<1>5. ps.licensed \in Seq(Tenants) /\ ps.waiting \in SUBSET Tenants /\ ps.todo \in Seq(Tenants)
  BY <1>1 DEF PassType
<1>6. CASE PassOver(p) \/ Unlicensed(p)
  <2>1. ps.stage = "unit" /\ ps.todo # <<>> /\ Set(p, [m EXCEPT !.pass.stage = "answered"])
    BY <1>6 DEF PassOver, Unlicensed
  <2> HIDE DEF m, ps
  <2> QED
    BY <1>3, <1>4, <1>5, <2>1
<1>7. CASE UnitFails(p)
  <2>1. PICK noted \in {<<>>, <<t>>} :
              /\ ps.stage = "unit" /\ ps.todo # <<>>
              /\ Set(p, [m EXCEPT !.pass.stage = "answered", !.pass.licensed = @ \o noted])
    BY <1>7 DEF UnitFails
  <2> DEFINE l == ps.licensed \o noted
  <2>2. t \in Tenants
    BY <1>5, <2>1
  <2>3. l = ps.licensed \/ l = Append(ps.licensed, t)
    <3> HIDE DEF t
    <3>1. noted = <<>> \/ noted = <<t>>
      OBVIOUS
    <3> HIDE DEF ps
    <3>2. ps.licensed \o <<>> = ps.licensed /\ ps.licensed \o <<t>> = Append(ps.licensed, t)
      BY <1>5, <2>2
    <3> QED
      BY <3>1, <3>2
  <2>4. l \in Seq(Tenants) /\ \A u : u \in ToSet(l) => u \in ToSet(ps.licensed) \/ u = t
    <3> HIDE DEF l, t, ps
    <3> QED
      BY <1>5, <2>2, <2>3, AppendedSet
  <2>5. [m EXCEPT !.pass.stage = "answered", !.pass.licensed = @ \o noted]
          = [m EXCEPT !.pass = [ps EXCEPT !.stage = "answered", !.licensed = l, !.waiting = ps.waiting]]
    BY <1>1 DEF PassType, SchedulerType
  <2>6. \A r \in promised'[p] \ missed'[p] : RunTenant(r) # t
    <3>1. promised'[p] = promised[p] \ OfTenant(t, promised[p])
      BY <1>7 DEF UnitFails, KickInv
    <3> QED
      BY <3>1 DEF OfTenant
  <2> HIDE DEF l, m, ps, t
  <2> QED
    BY <1>3, <1>5, <2>1, <2>4, <2>5, <2>6
<1>8. ASSUME NEW D \in SUBSET Schedules, FireUnit(p, D) PROVE Kept(p)'
  <2> DEFINE free == SetToSeq({r \in Runs : row[r] = NoRun})
             ids == SubSeq(free, 1, Cardinality(Fired(t, D)))
             l == Append(ps.licensed, t)
             w == IF HasQueuedRun(t, ids) THEN ps.waiting \cup {t} ELSE ps.waiting
  <2>1. /\ ps.stage = "unit" /\ ps.todo # <<>>
        /\ Set(p, [m EXCEPT !.pass.stage = "answered", !.pass.licensed = Append(@, t),
                            !.pass.waiting = IF HasQueuedRun(t, ids) THEN @ \cup {t} ELSE @])
    BY <1>8 DEF FireUnit
  <2>2. t \in Tenants
    BY <1>5, <2>1
  <2>3. l \in Seq(Tenants) /\ \A u : u \in ToSet(l) => u \in ToSet(ps.licensed) \/ u = t
    <3> HIDE DEF t, ps
    <3> QED
      BY <1>5, <2>2, AppendedSet
  <2>4. [m EXCEPT !.pass.stage = "answered", !.pass.licensed = Append(@, t),
                  !.pass.waiting = IF HasQueuedRun(t, ids) THEN @ \cup {t} ELSE @]
          = [m EXCEPT !.pass = [ps EXCEPT !.stage = "answered", !.licensed = l, !.waiting = w]]
    <3> HIDE DEF ids, free, t
    <3> QED
      BY <1>1 DEF PassType, SchedulerType
  <2>5. ASSUME NEW r \in promised'[p] \ missed'[p], RunTenant(r) = t PROVE t \in w
    <3>1. r \in OfTenant(t, With("queued"))
      BY <2>5, PromiseFollows DEF OfTenant
    <3> HIDE DEF ids, t
    <3> QED
      BY <3>1 DEF HasQueuedRun
  <2>6. w \in SUBSET Tenants /\ ps.waiting \subseteq w
    <3> HIDE DEF ids, t, ps
    <3> QED
      BY <1>5, <2>2
  <2>7. Set(p, [m EXCEPT !.pass = [ps EXCEPT !.stage = "answered", !.licensed = l, !.waiting = w]])
    <3> HIDE DEF l, w, ids, free, t, m, ps
    <3> QED
      BY <2>1, <2>4, Zenon
  <2> HIDE DEF l, w, m, ps, t, ids, free
  <2>8. \A r \in promised'[p] \ missed'[p] :
           RunTenant(r) \in ToSet(l) => RunTenant(r) \in ToSet(ps.licensed) \cup w
    BY <2>3, <2>5
  <2> QED
    BY <1>3, <2>1, <2>3, <2>6, <2>7, <2>8
<1> QED
  BY <1>2, <1>6, <1>7, <1>8

(* A unit is answered: the pass goes on, or its lists are taken over and a *)
(* start follows.                                                          *)
LEMMA UnitAnsweredKept ==
    ASSUME Rows, Machines, KickInv, Fewer, RowsStay, NEW p \in Servers, Up(p), UnitAnswered(p)
    PROVE  Kept(p)'
<1> DEFINE m == sched[p]
           ps == m.pass
           todo == Tail(ps.todo)
           on == [ps EXCEPT !.stage = "unit", !.todo = todo]
           x == [m EXCEPT !.pass = on]
           y == Listed(x)
<1>1. Orderly(m) /\ now'[p] = now[p] /\ ps \in PassType /\ m \in SchedulerType
  <2>1. Orderly(m)
    BY DEF KickInv, Kept
  <2>2. now'[p] = now[p]
    BY DEF UnitAnswered
  <2> QED
    BY <2>1, <2>2 DEF Orderly, SchedulerType
<1>2. ps.stage = "answered" /\ ps.todo # <<>>
  BY <1>1 DEF UnitAnswered, Orderly, Linked
<1>3. todo \in Seq(Tenants)
  BY <1>1, <1>2 DEF PassType
<1>4. x = [m EXCEPT !.pass.stage = "unit", !.pass.todo = Tail(@)]
  <2>1. [m EXCEPT !.pass.stage = "unit", !.pass.todo = Tail(@)] = [m EXCEPT !.pass.stage = "unit", !.pass.todo = todo]
    BY <1>1 DEF PassType, SchedulerType
  <2> HIDE DEF todo
  <2> QED
    BY <1>1, <2>1, PassEdits
<1>5. on \in PassType /\ on.stage = "unit" /\ on.todo = todo /\ on.licensed = ps.licensed /\ on.waiting = ps.waiting
  <2> HIDE DEF todo
  <2> QED
    BY <1>1, <1>3 DEF PassType, Stages
<1> HIDE DEF todo, on
<1>6. /\ x \in SchedulerType /\ x.pass = on /\ x.starts = m.starts /\ x.round = m.round
      /\ x.kicks = m.kicks /\ x.kicked = m.kicked /\ x.inFlight = m.inFlight
  <2> HIDE DEF m
  <2> QED
    BY <1>1, <1>5, PassEdit
<1>7. Set(p, IF x.pass.todo = <<>> THEN StartQueued(Listed(x), "pass", Up(p)) ELSE x)
  BY <1>4 DEF UnitAnswered
<1> HIDE DEF x
<1>8. Set(p, IF todo = <<>> THEN StartQueuedUp(y, "pass") ELSE x)
  <2>1. StartQueued(y, "pass", Up(p)) = StartQueuedUp(y, "pass")
    BY WhenUp
  <2> QED
    BY <1>5, <1>6, <1>7, <2>1, Zenon
<1>9. Passes(m) = {}
  BY <1>1, <1>2 DEF Orderly, Linked
<1>10. CASE todo # <<>>
  <2>1. sched'[p] = x
    BY <1>8, <1>10, SetGives
  <2>2. Passes(x) = {}
    BY <1>6, <1>9 DEF Passes
  <2>3. Orderly(x)
    BY <1>1, <1>2, <1>5, <1>6, <2>2 DEF Orderly, Linked, RoundOn
  <2>4. \A t \in Tenants : Cared(m, t) => Cared(x, t)
    BY <1>2, <1>5, <1>6 DEF Cared, Passing, Listing
  <2> QED
    BY <1>1, <2>1, <2>3, <2>4, KeptAll
<1>11. CASE todo = <<>>
  <2> DEFINE n == StartQueuedUp(y, "pass")
             longer == Append(y.starts, "pass")
             k == [y EXCEPT !.starts = longer]
  <2>1. sched'[p] = n
    BY <1>8, <1>11, SetGives
  <2>2. /\ y \in SchedulerType /\ y.pass = [NoPass EXCEPT !.stage = "starting"] /\ y.starts = m.starts
        /\ y.round = m.round /\ y.kicks = m.kicks /\ y.kicked = {} /\ y.licensed = ps.licensed
        /\ y.waiting = ps.waiting \cup m.kicked
    <3> DEFINE listed == [x EXCEPT !.licensed = x.pass.licensed, !.waiting = x.pass.waiting]
               taken == [listed EXCEPT !.waiting = @ \cup listed.kicked, !.kicked = {}]
               qs == [NoPass EXCEPT !.stage = "starting"]
    <3>1. qs \in PassType
      <4>1. <<>> \in Seq(Tenants) /\ {} \in SUBSET Tenants
        OBVIOUS
      <4> QED
        BY <4>1 DEF NoPass, PassType, Stages
    <3>2. ps.licensed \in Seq(Tenants) /\ ps.waiting \in SUBSET Tenants
      BY <1>1 DEF PassType
    <3>3. y = [taken EXCEPT !.pass = qs]
      BY DEF Listed, TakeKicked
    <3>4. /\ listed \in SchedulerType /\ listed.starts = m.starts /\ listed.round = m.round
          /\ listed.kicks = m.kicks /\ listed.kicked = m.kicked /\ listed.licensed = ps.licensed
          /\ listed.waiting = ps.waiting
      BY <1>5, <1>6, <3>2 DEF SchedulerType
    <3> HIDE DEF listed, y, qs, m, ps
    <3>5. listed.kicked \in SUBSET Tenants
      BY <3>4 DEF SchedulerType
    <3>6. /\ taken \in SchedulerType /\ taken.starts = m.starts /\ taken.round = m.round
          /\ taken.kicks = m.kicks /\ taken.kicked = {} /\ taken.licensed = ps.licensed
          /\ taken.waiting = ps.waiting \cup m.kicked
      BY <3>2, <3>4, <3>5 DEF SchedulerType
    <3> HIDE DEF taken
    <3> QED
      BY <3>1, <3>3, <3>6, PassEdit DEF qs
  <2> HIDE DEF y, m, ps
  <2>3. y.pass.stage = "starting" /\ RoundOn(y)
    BY <1>1, <2>2 DEF NoPass, Orderly, RoundOn
  <2>4. m.starts \in Seq({"pass", "more"})
    BY <1>1 DEF SchedulerType
  <2>5. /\ longer \in Seq({"pass", "more"}) /\ Len(longer) = Len(m.starts) + 1 /\ Len(m.starts) \in Nat
        /\ (\A i \in 1 .. Len(m.starts) : longer[i] = m.starts[i]) /\ longer[Len(m.starts) + 1] = "pass"
    BY <2>2, <2>4
  <2> HIDE DEF longer
  <2>6. k \in SchedulerType /\ k.starts = longer /\ k.pass = y.pass /\ k.kicks = y.kicks
    BY <2>2, <2>5 DEF SchedulerType
  <2>7. Linked(k)
    <3> HIDE DEF k
    <3>1. \A i \in 1 .. Len(m.starts) : m.starts[i] # "pass"
      BY <1>9 DEF Passes
    <3>2. Passes(k) = {Len(m.starts) + 1}
      <4>1. \A i \in 1 .. Len(longer) : longer[i] = "pass" <=> i = Len(m.starts) + 1
        BY <2>5, <3>1
      <4> QED
        BY <2>5, <2>6, <4>1 DEF Passes
    <3> QED
      BY <2>3, <2>6, <3>2 DEF Linked
  <2>8. Orderly(n) /\ \A t \in Tenants : Noted(y, t) => Cared(n, t)
    BY <2>2, <2>3, <2>7, StartQueuedServes DEF longer
  <2>9. \A t \in Tenants : Cared(m, t) => Noted(y, t)
    BY <1>2, <2>2, <2>3 DEF Cared, Noted, Passing, Listing, m, ps
  <2> HIDE DEF n
  <2> QED
    BY <1>1, <2>1, <2>8, <2>9, KeptAll DEF m
<1> QED
  BY <1>10, <1>11

(* A run leaves the server, and a start uses its place. *)
LEMMA FreeKept ==
    ASSUME Rows, Machines, KickInv, Fewer, RowsStay, NEW p \in Servers, Up(p), now'[p] = now[p],
           NEW r, Free(p, r)
    PROVE  Kept(p)'
<1> DEFINE m == sched[p]
           x == [m EXCEPT !.inFlight = m.inFlight \ {r}]
           n == StartQueuedUp(x, "more")
           longer == Append(x.starts, "more")
           k == [x EXCEPT !.starts = longer]
<1>1. Orderly(m) /\ m \in SchedulerType
  BY DEF KickInv, Kept, Orderly
<1>2. sched'[p] = n
  <2>1. [sched[p] EXCEPT !.inFlight = @ \ {r}] = x
    BY <1>1 DEF SchedulerType
  <2>2. Set(p, StartQueued(x, "more", Up(p)))
    <3> HIDE DEF x
    <3> QED
      BY <2>1, Zenon DEF Free
  <2> HIDE DEF x
  <2>3. StartQueued(x, "more", Up(p)) = n
    BY WhenUp
  <2> HIDE DEF n
  <2> QED
    BY <2>2, <2>3, SetGives, Zenon
<1>3. /\ x \in SchedulerType /\ x.pass = m.pass /\ x.starts = m.starts /\ x.round = m.round
      /\ x.kicks = m.kicks /\ x.kicked = m.kicked /\ x.licensed = m.licensed /\ x.waiting = m.waiting
  BY <1>1 DEF SchedulerType
<1> HIDE DEF x, m
<1>4. m.starts \in Seq({"pass", "more"})
  BY <1>1 DEF SchedulerType
<1>5. /\ longer \in Seq({"pass", "more"}) /\ Len(longer) = Len(m.starts) + 1 /\ Len(m.starts) \in Nat
      /\ (\A i \in 1 .. Len(m.starts) : longer[i] = m.starts[i]) /\ longer[Len(m.starts) + 1] = "more"
  BY <1>3, <1>4
<1> HIDE DEF longer
<1>6. k \in SchedulerType /\ k.starts = longer /\ k.pass = m.pass /\ k.kicks = m.kicks
  BY <1>3, <1>5 DEF SchedulerType
<1> HIDE DEF k
<1>7. Passes(k) = Passes(m)
  <2>1. \A i \in 1 .. Len(longer) : longer[i] = "pass" <=> i \in 1 .. Len(m.starts) /\ m.starts[i] = "pass"
    BY <1>5
  <2>2. \A i \in 1 .. Len(m.starts) : i \in 1 .. Len(longer)
    BY <1>5
  <2> QED
    BY <1>6, <2>1, <2>2 DEF Passes
<1>8. Linked(k) /\ RoundOn(x)
  BY <1>1, <1>3, <1>6, <1>7 DEF Orderly, Linked, RoundOn
<1>9. Orderly(n) /\ \A t \in Tenants : Noted(x, t) => Cared(n, t)
  BY <1>3, <1>8, StartQueuedServes DEF k, longer
<1>10. \A t \in Tenants : Cared(m, t) => Noted(x, t)
  BY <1>3 DEF Cared, Noted, Passing, Listing, Behind
<1> HIDE DEF n
<1> QED
  BY <1>2, <1>9, <1>10, KeptAll DEF m

(* The answer of a round's claim, and the turn that is over. *)
LEMMA TurnOver ==
    ASSUME NEW rd \in RoundType, rd.idle < Len(rd.order)
    PROVE  /\ Rotated(rd.order, 1) \in Seq(Tenants) /\ Len(Rotated(rd.order, 1)) = Len(rd.order)
           /\ Following(rd) \in Tenants /\ Head(rd.order) \in Tenants
           /\ \A i \in 1 .. Len(rd.order) - 1 : Rotated(rd.order, 1)[i] = rd.order[i + 1]
           /\ Rotated(rd.order, 1)[Len(rd.order)] = rd.order[1]
<1>1. rd.order \in Seq(Tenants) /\ Len(rd.order) \in Nat /\ rd.idle \in Nat /\ 1 \in 0 .. Len(rd.order) /\ 1 \in 1 .. 1
  BY DEF RoundType
<1>2. Len(rd.order) - 1 + 1 = Len(rd.order)
  BY <1>1
<1>3. /\ Rotated(rd.order, 1) \in Seq(Tenants) /\ Len(Rotated(rd.order, 1)) = Len(rd.order)
      /\ \A i \in 1 .. Len(rd.order) - 1 : Rotated(rd.order, 1)[i] = rd.order[i + 1]
      /\ Rotated(rd.order, 1)[Len(rd.order) - 1 + 1] = rd.order[1]
  BY <1>1, RotatedProperties
<1>4. Rotated(rd.order, 1) # <<>> /\ rd.order # <<>>
  BY <1>1, <1>3
<1>5. Head(Rotated(rd.order, 1)) \in Tenants /\ Head(rd.order) \in Tenants
  <2> HIDE DEF Rotated
  <2> QED
    BY <1>1, <1>3, <1>4
<1> QED
  BY <1>2, <1>3, <1>5 DEF Following

(* After an empty turn the tenants behind the one asked keep theirs. *)
LEMMA EmptyTurnServes ==
    ASSUME NEW rd \in RoundType, rd.idle < Len(rd.order), NEW n, n = EmptyTurn(rd)
    PROVE  /\ n \in RoundType /\ n.idle <= Len(n.order) /\ n.failing = rd.failing
           /\ \A t \in Tenants : t # Head(rd.order) /\ InTurn(rd, t) => InTurn(n, t)
<1> DEFINE o == Rotated(rd.order, 1)
<1>1. rd.order \in Seq(Tenants) /\ Len(rd.order) \in Nat /\ rd.idle \in Nat
  BY DEF RoundType
<1>2. /\ o \in Seq(Tenants) /\ Len(o) = Len(rd.order)
      /\ \A i \in 1 .. Len(rd.order) - 1 : o[i] = rd.order[i + 1]
  BY TurnOver
<1>3. n = [rd EXCEPT !.order = Rotated(@, 1), !.idle = @ + 1]
  BY DEF EmptyTurn
<1>4. n = [rd EXCEPT !.order = o, !.idle = rd.idle + 1]
  BY <1>3 DEF RoundType
<1> HIDE DEF o
<1>5. n \in RoundType /\ n.order = o /\ n.idle = rd.idle + 1 /\ n.failing = rd.failing
  <2>1. o \in Seq(Tenants) /\ rd.idle + 1 \in Nat
    BY <1>1, <1>2
  <2> QED
    BY <1>4, <2>1 DEF RoundType
<1>6. n.idle <= Len(n.order)
  BY <1>1, <1>2, <1>5
<1>7. ASSUME NEW t \in Tenants, t # Head(rd.order), InTurn(rd, t) PROVE InTurn(n, t)
  <2>1. PICK i \in 1 .. Len(rd.order) - rd.idle : rd.order[i] = t
    BY <1>7 DEF InTurn
  <2>2. i # 1
    BY <1>1, <1>7, <2>1
  <2>3. i - 1 \in 1 .. Len(o) - (rd.idle + 1) /\ i - 1 \in 1 .. Len(rd.order) - 1 /\ (i - 1) + 1 = i
    BY <1>1, <1>2, <2>1, <2>2
  <2>4. o[i - 1] = t
    BY <1>2, <2>1, <2>3
  <2> QED
    BY <1>5, <1>7, <2>3, <2>4 DEF InTurn
<1> QED
  BY <1>5, <1>6, <1>7

(* A claim is answered or fails: every tenant but the one asked is still   *)
(* served when the round goes on.                                          *)
LEMMA TurnServes ==
    ASSUME NEW m \in SchedulerType, Orderly(m), m.round.stage # "none",
           NEW x \in SchedulerType, x.pass = m.pass, x.starts = m.starts, x.kicks = m.kicks,
           x.kicked = m.kicked, x.licensed = m.licensed, x.inFlight = m.inFlight,
           NEW t, m.waiting \ {t} \subseteq x.waiting, x.round.idle <= Len(x.round.order),
           \A u \in Tenants : u # t /\ InTurn(m.round, u) => InTurn(x.round, u),
           NEW n, n = RoundGoesOnUp(x)
    PROVE  Orderly(n) /\ \A u \in Tenants : u # t /\ Cared(m, u) => Cared(n, u)
<1>2. Linked(x)
  BY DEF Orderly, Linked, Passes
<1>3. m.starts # <<>>
  BY DEF Orderly, RoundOn
<1>4. Orderly(n) /\ \A u \in Tenants : Cared(x, u) => Cared(n, u)
  BY <1>2, <1>3, RoundGoesOnServes
<1>5. ASSUME NEW u \in Tenants, u # t, Cared(m, u) PROVE Cared(x, u)
  <2>1. InTurn(m.round, u) => InTurn(x.round, u)
    BY <1>5
  <2>2. u \in m.waiting => u \in x.waiting
    BY <1>5
  <2>3. HasRoom(x) <=> HasRoom(m)
    BY DEF HasRoom
  <2> QED
    BY <1>5, <2>1, <2>2, <2>3 DEF Cared, Passing, Listing, Behind, Pending
<1> QED
  BY <1>4, <1>5

(* A run is launched: everyone in the round has another turn. *)
LEMMA LaunchedServes ==
    ASSUME NEW m \in SchedulerType, Orderly(m), m.round.stage # "none", NEW r \in Runs,
           NEW n, n = RoundGoesOnUp(Launched(m, r))
    PROVE  Orderly(n) /\ \A u \in Tenants : Cared(m, u) => Cared(n, u)
<1> DEFINE rd == m.round
           o == Rotated(rd.order, 1)
           on == [rd EXCEPT !.order = o, !.idle = 0]
           f == m.inFlight \cup {r}
           next == Following(rd)
           x == [m EXCEPT !.round = on, !.waiting = m.waiting, !.turn = next, !.inFlight = f]
<1>1. rd \in RoundType /\ rd.idle < Len(rd.order) /\ m.starts # <<>>
  BY DEF SchedulerType, Orderly, RoundOn
<1>2. rd.order \in Seq(Tenants) /\ Len(rd.order) \in Nat /\ rd.idle \in Nat
  BY <1>1 DEF RoundType
<1> HIDE DEF rd
<1>3. /\ o \in Seq(Tenants) /\ Len(o) = Len(rd.order) /\ next \in Tenants
      /\ \A i \in 1 .. Len(rd.order) - 1 : o[i] = rd.order[i + 1]
      /\ o[Len(rd.order)] = rd.order[1]
  BY <1>1, TurnOver
<1>4. Launched(m, r) = x
  <2>1. Launched(m, r)
          = [m EXCEPT !.inFlight = @ \cup {r}, !.turn = next, !.round.order = Rotated(@, 1), !.round.idle = 0]
    BY DEF Launched, rd
  <2> HIDE DEF next
  <2> QED
    BY <1>1, <2>1 DEF SchedulerType, RoundType, rd
<1> HIDE DEF o, next
<1>5. on \in RoundType /\ on.order = o /\ on.idle = 0 /\ on.failing = rd.failing
  BY <1>1, <1>3 DEF RoundType
<1> HIDE DEF on, f
<1>6. m.inFlight \in SUBSET Runs /\ m.waiting \in SUBSET Tenants /\ f \in SUBSET Runs
  BY DEF SchedulerType, f
<1>13. x = [m EXCEPT !.round = on, !.waiting = m.waiting, !.turn = next, !.inFlight = f]
  OBVIOUS
<1> HIDE DEF x
<1>7. /\ x \in SchedulerType /\ x.round = on /\ x.waiting = m.waiting /\ x.inFlight = f /\ x.pass = m.pass
      /\ x.starts = m.starts /\ x.kicks = m.kicks /\ x.kicked = m.kicked /\ x.licensed = m.licensed
      /\ Linked(x)
  <2>1. /\ x \in SchedulerType /\ x.round = on /\ x.waiting = m.waiting /\ x.inFlight = f /\ x.pass = m.pass
        /\ x.starts = m.starts /\ x.kicks = m.kicks /\ x.kicked = m.kicked /\ x.licensed = m.licensed
    BY <1>3, <1>5, <1>6, <1>13 DEF SchedulerType
  <2> QED
    BY <2>1 DEF Orderly, Linked, Passes
<1>8. on.idle <= Len(on.order)
  BY <1>2, <1>3, <1>5
<1>9. Orderly(n) /\ \A u \in Tenants : Cared(x, u) => Cared(n, u)
  BY <1>1, <1>4, <1>7, <1>8, <1>13, RoundGoesOnServes
<1>10. HasRoom(x) => HasRoom(m)
  <2>1. IsFiniteSet(f) /\ m.inFlight \in SUBSET f
    BY <1>6, FiniteAssumption, FS_Subset DEF f
  <2>2. Cardinality(m.inFlight) \in Nat /\ Cardinality(f) \in Nat /\ Cardinality(m.inFlight) <= Cardinality(f)
    BY <2>1, FS_Subset, FS_CardinalityType
  <2>3. Concurrency \in Nat
    BY CapsAssumption
  <2> QED
    BY <1>7, <2>2, <2>3 DEF HasRoom
<1>11. ASSUME NEW u \in Tenants, InTurn(rd, u) PROVE InTurn(on, u)
  <2>1. PICK i \in 1 .. Len(rd.order) - rd.idle : rd.order[i] = u
    BY <1>11 DEF InTurn
  <2>2. CASE i = 1
    <3>1. Len(rd.order) \in 1 .. Len(o) - 0 /\ o[Len(rd.order)] = u
      BY <1>1, <1>2, <1>3, <2>1, <2>2
    <3> QED
      BY <1>5, <1>11, <3>1 DEF InTurn
  <2>3. CASE i # 1
    <3>1. i - 1 \in 1 .. Len(o) - 0 /\ i - 1 \in 1 .. Len(rd.order) - 1 /\ (i - 1) + 1 = i
      BY <1>2, <1>3, <2>1, <2>3
    <3>2. o[i - 1] = u
      BY <1>3, <2>1, <3>1
    <3> QED
      BY <1>5, <1>11, <3>1, <3>2 DEF InTurn
  <2> QED
    BY <2>2, <2>3
<1>12. ASSUME NEW u \in Tenants, Cared(m, u) PROVE Cared(x, u)
  BY <1>7, <1>10, <1>11, <1>12 DEF Cared, Passing, Listing, Behind, Pending, rd
<1> QED
  BY <1>9, <1>12

(* Claims that begin and commit keep the round; the answer moves it on. *)
LEMMA ClaimKept ==
    ASSUME Rows, Machines, KickInv, Fewer, RowsStay, NEW p \in Servers, Up(p), ClaimBegins(p) \/ ClaimCommits(p)
    PROVE  Kept(p)'
<1> DEFINE m == sched[p]
           rd == m.round
<1>1. Orderly(m) /\ m \in SchedulerType /\ rd \in RoundType /\ now'[p] = now[p]
  <2>1. Orderly(m)
    BY DEF KickInv, Kept
  <2>2. now'[p] = now[p]
    BY DEF ClaimBegins, ClaimCommits
  <2> QED
    BY <2>1, <2>2 DEF Orderly, SchedulerType
<1>2. rd.stage # "none"
  BY DEF ClaimBegins, ClaimCommits
<1>3. \E st \in {"locked", "answered"}, a \in Runs \cup {NoRun, "full"} : SetRound(p, st, a)
  <2>1. CASE ClaimBegins(p)
    BY <2>1 DEF ClaimBegins
  <2>2. CASE ClaimCommits(p)
    <3>1. \A r \in OfTenant(Asked(p), With("queued")) : r \in Runs
      BY DEF OfTenant, With
    <3> QED
      BY <2>2, <3>1 DEF ClaimCommits
  <2> QED
    BY <2>1, <2>2
<1>4. PICK st \in {"locked", "answered"}, a \in Runs \cup {NoRun, "full"} : SetRound(p, st, a)
  BY <1>3
<1> DEFINE on == [rd EXCEPT !.stage = st, !.answer = a]
           n == [m EXCEPT !.round = on]
<1>5. sched'[p] = n
  <2>1. [sched[p] EXCEPT !.round.stage = st, !.round.answer = a] = n
    BY <1>1 DEF SchedulerType, RoundType
  <2>2. Set(p, n)
    BY <1>4, <2>1 DEF SetRound
  <2> HIDE DEF n
  <2> QED
    BY <2>2, SetGives
<1>6. on \in RoundType /\ on.stage = st /\ on.order = rd.order /\ on.idle = rd.idle /\ on.failing = rd.failing
  BY <1>1 DEF RoundType
<1> HIDE DEF on
<1>7. /\ n \in SchedulerType /\ n.round = on /\ n.waiting = m.waiting /\ n.inFlight = m.inFlight /\ n.pass = m.pass
      /\ n.starts = m.starts /\ n.kicks = m.kicks /\ n.kicked = m.kicked /\ n.licensed = m.licensed
  BY <1>1, <1>6 DEF SchedulerType
<1> HIDE DEF n, m
<1>8. Orderly(n)
  BY <1>1, <1>2, <1>6, <1>7 DEF Orderly, Linked, RoundOn, Passes, rd
<1>9. \A t \in Tenants : Cared(m, t) => Cared(n, t)
  BY <1>6, <1>7 DEF Cared, Passing, Listing, Behind, Pending, InTurn, HasRoom, rd
<1> QED
  BY <1>1, <1>5, <1>8, <1>9, KeptAll DEF m

LEMMA AnswerKept ==
    ASSUME Rows, Machines, KickInv, Fewer, RowsStay, NEW p \in Servers, Up(p), ClaimAnswered(p) \/ ClaimFails(p)
    PROVE  Kept(p)'
<1> DEFINE m == sched[p]
           rd == m.round
           t == Head(rd.order)
           empty == EmptyTurn(rd)
<1>1. Orderly(m) /\ m \in SchedulerType /\ rd \in RoundType /\ now'[p] = now[p]
  <2>1. Orderly(m)
    BY DEF KickInv, Kept
  <2>2. now'[p] = now[p]
    BY DEF ClaimAnswered, ClaimFails
  <2> QED
    BY <2>1, <2>2 DEF Orderly, SchedulerType
<1>2. rd.stage # "none" /\ rd.idle < Len(rd.order)
  BY <1>1 DEF ClaimAnswered, ClaimFails, Orderly, RoundOn
<1>3. t \in Tenants /\ Following(rd) \in Tenants
  BY <1>1, <1>2, TurnOver
<1>4. /\ empty \in RoundType /\ empty.idle <= Len(empty.order) /\ empty.failing = rd.failing
      /\ \A u \in Tenants : u # t /\ InTurn(rd, u) => InTurn(empty, u)
  BY <1>1, <1>2, EmptyTurnServes
<1>5. t = Asked(p)
  BY DEF Asked
<1> HIDE DEF empty, rd, t
<1>6. m.waiting \in SUBSET Tenants /\ m.turn \in Tenants \cup {NoTenant}
  BY <1>1 DEF SchedulerType
(* The round goes on after the turn of the tenant asked, to which nothing  *)
(* is promised any more.                                                   *)
<1>7. ASSUME NEW on \in RoundType, on.idle <= Len(on.order),
             \A u \in Tenants : u # t /\ InTurn(rd, u) => InTurn(on, u),
             NEW w \in SUBSET Tenants, m.waiting \ {t} \subseteq w, NEW turn \in Tenants \cup {NoTenant},
             NEW x, x = [m EXCEPT !.round = on, !.waiting = w, !.turn = turn, !.inFlight = m.inFlight],
             Set(p, RoundGoesOn(x, Up(p))),
             \A r \in promised'[p] \ missed'[p] : RunTenant(r) # t
      PROVE  Kept(p)'
  <2> DEFINE n == RoundGoesOnUp(x)
  <2>1. RoundGoesOn(x, Up(p)) = n
    BY WhenUp
  <2>2. Set(p, n)
    <3> HIDE DEF n
    <3> QED
      BY <1>7, <2>1, Zenon
  <2> HIDE DEF n
  <2>4. sched'[p] = n
    BY <2>2, SetGives
  <2> HIDE DEF m
  <2>5. Orderly(n) /\ \A u \in Tenants : u # t /\ Cared(m, u) => Cared(n, u)
    <3>1. /\ x \in SchedulerType /\ x.pass = m.pass /\ x.starts = m.starts /\ x.kicks = m.kicks
          /\ x.kicked = m.kicked /\ x.licensed = m.licensed /\ x.inFlight = m.inFlight
          /\ x.waiting = w /\ x.round = on
      <4>1. m.inFlight \in SUBSET Runs
        BY <1>1 DEF SchedulerType
      <4> QED
        BY <1>1, <1>7, <4>1 DEF SchedulerType
    <3>2. \A u \in Tenants : u # t /\ InTurn(m.round, u) => InTurn(x.round, u)
      BY <1>7, <3>1 DEF rd
    <3>3. x.round.idle <= Len(x.round.order) /\ m.waiting \ {t} \subseteq x.waiting
      BY <1>7, <3>1
    <3>4. m \in SchedulerType /\ Orderly(m) /\ m.round.stage # "none" /\ n = RoundGoesOnUp(x)
      BY <1>1, <1>2 DEF rd, n
    <3> QED
      BY <3>1, <3>2, <3>3, <3>4, TurnServes
  <2>6. \A r \in promised'[p] \ missed'[p] : Cared(m, RunTenant(r)) => Cared(n, RunTenant(r))
    BY <1>7, <2>5, PromiseFollows
  <2> QED
    BY <1>1, <2>4, <2>5, <2>6, KeptBy DEF m
<1>8. CASE m.round.answer \in Runs /\ Set(p, RoundGoesOn(Launched(m, m.round.answer), Up(p)))
  <2> DEFINE r == m.round.answer
             n == RoundGoesOnUp(Launched(m, r))
  <2>1. RoundGoesOn(Launched(m, r), Up(p)) = n
    BY WhenUp
  <2>2. Set(p, n)
    <3> HIDE DEF n
    <3> QED
      BY <1>8, <2>1, Zenon
  <2>3. sched'[p] = n
    <3> HIDE DEF n
    <3> QED
      BY <2>2, SetGives
  <2> HIDE DEF m
  <2>4. Orderly(n) /\ \A u \in Tenants : Cared(m, u) => Cared(n, u)
    BY <1>1, <1>2, <1>8, LaunchedServes DEF rd
  <2> HIDE DEF n
  <2> QED
    BY <1>1, <2>3, <2>4, KeptAll DEF m
<1>9. promised \in [Servers -> SUBSET Runs] /\ missed \in [Servers -> SUBSET Runs]
  BY DEF KickInv
<1>10. CASE /\ Set(p, RoundGoesOn([m EXCEPT !.round = EmptyTurn(@)], Up(p)))
            /\ promised' = [promised EXCEPT ![p] = @ \ OfTenant(Asked(p), @)]
  <2>1. \A r \in promised'[p] \ missed'[p] : RunTenant(r) # t
    BY <1>5, <1>9, <1>10 DEF OfTenant
  <2> DEFINE x == [m EXCEPT !.round = empty, !.waiting = m.waiting, !.turn = m.turn, !.inFlight = m.inFlight]
  <2>2. [m EXCEPT !.round = EmptyTurn(@)] = x
    BY <1>1 DEF SchedulerType, empty, rd
  <2>3. Set(p, RoundGoesOn(x, Up(p)))
    <3> HIDE DEF x
    <3> QED
      BY <1>10, <2>2, Zenon
  <2>4. m.waiting \ {t} \subseteq m.waiting
    OBVIOUS
  <2> HIDE DEF m
  <2> QED
    BY <1>4, <1>6, <1>7, <2>1, <2>3, <2>4
<1>11. CASE /\ Set(p, RoundGoesOn([m EXCEPT !.round = EmptyTurn(@), !.waiting = @ \ {Asked(p)}], Up(p)))
            /\ missed' = [missed EXCEPT ![p] = @ \cup OfTenant(Asked(p), promised[p])]
            /\ promised' = promised
  <2>1. \A r \in promised'[p] \ missed'[p] : RunTenant(r) # t
    BY <1>5, <1>9, <1>11 DEF OfTenant
  <2> DEFINE w == m.waiting \ {t}
             x == [m EXCEPT !.round = empty, !.waiting = w, !.turn = m.turn, !.inFlight = m.inFlight]
  <2>2. [m EXCEPT !.round = EmptyTurn(@), !.waiting = @ \ {Asked(p)}] = x
    BY <1>1, <1>5 DEF SchedulerType, empty, rd
  <2>3. Set(p, RoundGoesOn(x, Up(p)))
    <3> HIDE DEF x
    <3> QED
      BY <1>11, <2>2, Zenon
  <2>4. m.waiting \ {t} \subseteq w /\ w \in SUBSET Tenants
    BY <1>6
  <2> HIDE DEF m, w
  <2> QED
    BY <1>4, <1>6, <1>7, <2>1, <2>3, <2>4
<1>12. CASE ClaimFails(p)
  <2> DEFINE turn == IF m.turn = t THEN Following(rd) ELSE m.turn
             on == [empty EXCEPT !.failing = @ \cup {t}]
             x == [m EXCEPT !.round = on, !.waiting = m.waiting, !.turn = turn, !.inFlight = m.inFlight]
  <2>1. \A r \in promised'[p] \ missed'[p] : RunTenant(r) # t
    <3>1. promised' = [promised EXCEPT ![p] = @ \ OfTenant(Asked(p), @)]
      BY <1>12 DEF ClaimFails
    <3> QED
      BY <1>5, <1>9, <3>1 DEF OfTenant
  <2>2. turn \in Tenants \cup {NoTenant}
    BY <1>3, <1>6
  <2>3. Set(p, RoundGoesOn([m EXCEPT !.round = on, !.turn = turn], Up(p)))
    <3>1. on = [EmptyTurn(m.round) EXCEPT !.failing = @ \cup {Asked(p)}]
      BY <1>5 DEF empty, rd
    <3>2. turn = IF m.turn = Asked(p) THEN Following(m.round) ELSE m.turn
      BY <1>5 DEF rd
    <3>3. Set(p, RoundGoesOn([m EXCEPT !.round = [EmptyTurn(m.round) EXCEPT !.failing = @ \cup {Asked(p)}],
                                       !.turn = IF m.turn = Asked(p) THEN Following(m.round) ELSE m.turn], Up(p)))
      BY <1>12, Zenon DEF ClaimFails
    <3> HIDE DEF on, turn
    <3> QED
      BY <3>1, <3>2, <3>3, Zenon
  <2>4. [m EXCEPT !.round = on, !.turn = turn] = x
    <3> HIDE DEF on, turn
    <3> QED
      BY <1>1 DEF SchedulerType
  <2>5. Set(p, RoundGoesOn(x, Up(p)))
    <3> HIDE DEF x, on, turn
    <3> QED
      BY <2>3, <2>4, Zenon
  <2>6. m.waiting \ {t} \subseteq m.waiting
    OBVIOUS
  <2>7. /\ on \in RoundType /\ on.order = empty.order /\ on.idle = empty.idle
        /\ on.failing = empty.failing \cup {t}
    BY <1>3, <1>4 DEF RoundType
  <2>8. ASSUME NEW u \in Tenants, u # t, InTurn(rd, u) PROVE InTurn(on, u)
    <3>1. InTurn(empty, u)
      BY <1>4, <2>8
    <3> HIDE DEF on
    <3> QED
      BY <2>7, <2>8, <3>1 DEF InTurn
  <2>9. on.idle <= Len(on.order)
    BY <1>4, <2>7
  <2> HIDE DEF m, turn, on
  <2> QED
    BY <1>6, <1>7, <2>1, <2>2, <2>5, <2>6, <2>7, <2>8, <2>9
<1>13. CASE ClaimAnswered(p)
  <2>1. \/ m.round.answer \in Runs /\ Set(p, RoundGoesOn(Launched(m, m.round.answer), Up(p)))
        \/ /\ Set(p, RoundGoesOn([m EXCEPT !.round = EmptyTurn(@)], Up(p)))
           /\ promised' = [promised EXCEPT ![p] = @ \ OfTenant(Asked(p), @)]
        \/ /\ Set(p, RoundGoesOn([m EXCEPT !.round = EmptyTurn(@), !.waiting = @ \ {Asked(p)}], Up(p)))
           /\ missed' = [missed EXCEPT ![p] = @ \cup OfTenant(Asked(p), promised[p])]
           /\ promised' = promised
    BY <1>13, Zenon DEF ClaimAnswered
  <2> HIDE DEF m
  <2> QED
    BY <1>8, <1>10, <1>11, <2>1
<1> QED
  BY <1>12, <1>13

(* A kick begins a pass, or is heard by the pass or the start under way. *)
LEMMA KickKeeps ==
    ASSUME Rows, Machines, Modes, KickInv, Fewer, RowsStay, NEW p \in Servers, Up(p), Kick(p)
    PROVE  Kept(p)'
<1> DEFINE m == sched[p]
           t == TenantOf[now[p].schedule]
           heard == m.kicked \cup {t}
           x == [m EXCEPT !.kicked = heard]
<1>1. Orderly(m) /\ m \in SchedulerType /\ t \in Tenants
  <2>1. now[p].schedule \in Schedules
    BY DEF KickInv, Kick
  <2> QED
    BY <2>1, TenantsAssumption DEF KickInv, Kept, Orderly
<1>2. x = [sched[p] EXCEPT !.kicked = @ \cup {TenantOf[now[p].schedule]}]
  BY <1>1 DEF SchedulerType
<1>3. \/ m.pass.stage = "none" /\ Set(p, [x EXCEPT !.pass = NewPass])
      \/ m.pass.stage # "none" /\ Set(p, [x EXCEPT !.kicks = @ + 1])
  <2>1. x.pass = m.pass
    BY <1>1 DEF SchedulerType
  <2> HIDE DEF x
  <2> QED
    BY <1>2, <2>1 DEF Kick
<1>4. heard \in SUBSET Tenants
  BY <1>1 DEF SchedulerType
<1> HIDE DEF heard
<1>5. /\ x \in SchedulerType /\ x.kicked = heard /\ x.pass = m.pass /\ x.starts = m.starts /\ x.round = m.round
      /\ x.kicks = m.kicks /\ x.licensed = m.licensed /\ x.waiting = m.waiting /\ x.inFlight = m.inFlight
  BY <1>1, <1>4 DEF SchedulerType
<1> HIDE DEF x
<1>6. now'[p] = NoRequest /\ NoRequest.stage # "kick"
  BY DEF Kick, Modes, NoRequest
<1>7. Linked(x) /\ RoundOn(x)
  BY <1>1, <1>5 DEF Orderly, Linked, RoundOn, Passes
<1>8. ASSUME NEW n, sched'[p] = n, Orderly(n), \A u \in Tenants : u = t \/ Cared(m, u) => Cared(n, u)
      PROVE  Kept(p)'
  <2>1. Orderly(sched[p])'
    BY <1>8 DEF Orderly, Linked, RoundOn, Passes
  <2>2. ASSUME NEW r \in promised'[p] \ missed'[p]
        PROVE  Cared(sched[p], RunTenant(r))'
    <3> DEFINE u == RunTenant(r)
    <3>1. r \in promised[p] \ missed[p] /\ u \in Tenants /\ u' = u
      BY PromiseFollows DEF RunTenant
    <3>2. Coming(p, u) \/ Cared(m, u)
      BY <3>1 DEF KickInv, Kept
    <3>3. Coming(p, u) => u = t
      BY DEF Coming
    <3> HIDE DEF u, t, m
    <3>4. Cared(n, u)
      BY <1>8, <3>1, <3>2, <3>3
    <3>5. Cared(sched[p], u)'
      BY <1>8, <3>1, <3>4 DEF Cared, Passing, Listing, Behind, Pending, InTurn, HasRoom
    <3> QED
      BY <3>5 DEF u
  <2> QED
    BY <2>1, <2>2 DEF Kept
<1>9. CASE m.pass.stage = "none" /\ Set(p, [x EXCEPT !.pass = NewPass])
  <2> DEFINE n == [x EXCEPT !.pass = NewPass]
  <2>1. sched'[p] = n
    BY <1>9, SetGives
  <2>2. Orderly(n) /\ \A u \in Tenants : Cared(n, u)
    BY <1>5, <1>7, <1>9, NewPassServes
  <2> HIDE DEF n
  <2> QED
    BY <1>8, <2>1, <2>2
<1>10. CASE m.pass.stage # "none" /\ Set(p, [x EXCEPT !.kicks = @ + 1])
  <2> DEFINE n == [x EXCEPT !.kicks = x.kicks + 1]
  <2>1. sched'[p] = n
    <3>1. [x EXCEPT !.kicks = @ + 1] = n
      BY <1>5 DEF SchedulerType
    <3> QED
      BY <1>10, <3>1, SetGives
  <2>2. x.kicks \in Nat
    BY <1>5 DEF SchedulerType
  <2>3. /\ n \in SchedulerType /\ n.kicked = heard /\ n.pass = m.pass /\ n.starts = m.starts /\ n.round = m.round
        /\ n.kicks = m.kicks + 1 /\ n.licensed = m.licensed /\ n.waiting = m.waiting /\ n.inFlight = m.inFlight
    BY <1>5, <2>2 DEF SchedulerType
  <2> HIDE DEF n, m
  <2>4. Orderly(n)
    BY <1>1, <1>10, <2>3 DEF Orderly, Linked, RoundOn, Passes
  <2>5. m.kicks \in Nat /\ m.pass.stage \in Stages
    BY <1>1 DEF SchedulerType, PassType
  <2>6. ASSUME NEW u \in Tenants, u = t \/ Cared(m, u) PROVE Cared(n, u)
    <3>1. u = t => u \in n.kicked
      BY <2>3 DEF heard
    <3>2. m.kicked \subseteq n.kicked /\ n.kicks > 0
      BY <2>3, <2>5 DEF heard
    <3>3. CASE Passing(m)
      BY <2>3, <2>6, <3>1, <3>2, <3>3 DEF Cared, Passing, Listing
    <3>4. CASE ~Passing(m)
      <4>1. m.pass.stage = "starting" /\ ~Passing(n)
        BY <1>10, <2>3, <2>5, <3>4 DEF Passing, Stages
      <4>2. u \in n.kicked => Behind(n, u)
        BY <2>3, <3>2, <4>1 DEF Behind
      <4>3. HasRoom(n) <=> HasRoom(m)
        BY <2>3 DEF HasRoom
      <4>4. ASSUME u \notin n.kicked PROVE Cared(n, u)
        <5>1. Cared(m, u) /\ ~Behind(m, u)
          BY <2>6, <3>1, <3>2, <4>4 DEF Behind
        <5> QED
          BY <2>3, <3>4, <4>1, <4>3, <5>1 DEF Cared, Pending
      <4> QED
        BY <4>1, <4>2, <4>4 DEF Cared
    <3> QED
      BY <3>3, <3>4
  <2> QED
    BY <1>8, <2>1, <2>4, <2>6 DEF m
<1> QED
  BY <1>3, <1>9, <1>10

(* A Run now that begins is owed nothing yet. *)
LEMMA BeginsKept ==
    ASSUME Rows, Modes, KickInv, Fewer, RowsStay, NEW p \in Servers, Up(p), NEW s \in Schedules, RunNowBegins(p, s)
    PROVE  Kept(p)'
<1>1. sched' = sched /\ ~(now[p].stage = "kick")
  BY DEF RunNowBegins, NoRequest
<1>2. Orderly(sched[p])'
  BY <1>1 DEF KickInv, Kept, Orderly, Linked, RoundOn, Passes
<1>3. ASSUME NEW r \in promised'[p] \ missed'[p]
      PROVE  Cared(sched[p], RunTenant(r))'
  <2> DEFINE u == RunTenant(r)
  <2>1. r \in promised[p] \ missed[p] /\ u' = u
    BY PromiseFollows DEF RunTenant
  <2>2. Cared(sched[p], u)
    BY <1>1, <2>1 DEF KickInv, Kept, Coming
  <2> HIDE DEF u
  <2>3. Cared(sched[p], u)'
    BY <1>1, <2>1, <2>2 DEF Cared, Passing, Listing, Behind, Pending, InTurn, HasRoom
  <2> QED
    BY <2>3 DEF u
<1> QED
  BY <1>2, <1>3 DEF Kept

(* The run of a Run now is promised, and its kick is on its way. *)
LEMMA CommitsKept ==
    ASSUME Rows, Modes, ScheduleInv, KickInv, NEW p \in Servers, NEW k \in Runs, RunNowCommits(p, k)
    PROVE  KickInv'
<1> DEFINE s == now[p].schedule
<1>1. /\ s \in Schedules /\ now[p].stage = "locked" /\ row[k] = NoRun
      /\ row' = [row EXCEPT ![k] = [schedule |-> s, status |-> "queued"]]
      /\ now' = [now EXCEPT ![p].stage = "kick"]
      /\ promised' = [promised EXCEPT ![p] = @ \cup {k}]
      /\ UNCHANGED <<mode, sched, missed>>
  BY DEF RunNowCommits, ScheduleInv, RequestAlone
<1>2. /\ promised \in [Servers -> SUBSET Runs] /\ missed \in [Servers -> SUBSET Runs]
      /\ now \in [Servers -> [schedule : Schedules \cup {Nobody}, stage : {"none", "locked", "kick"}]]
      /\ row \in [Runs -> RowType \cup {NoRun}]
  BY DEF KickInv, Modes, Rows
<1>3. \A q \in Servers : k \notin promised[q]
  BY <1>1 DEF KickInv, With
<1>4. /\ now'[p].stage = "kick" /\ now'[p].schedule = s
      /\ \A q \in Servers \ {p} : now'[q] = now[q] /\ promised'[q] = promised[q]
      /\ promised'[p] = promised[p] \cup {k}
  BY <1>1, <1>2
<1>5. row'[k] = [schedule |-> s, status |-> "queued"] /\ \A r \in Runs \ {k} : row'[r] = row[r]
  BY <1>1, <1>2
<1>6. promised' \in [Servers -> SUBSET Runs] /\ missed' \in [Servers -> SUBSET Runs]
  BY <1>1, <1>2
<1>7. row'[k] # NoRun
  <2>1. [schedule |-> s, status |-> "queued"] \in RowType
    BY <1>1 DEF RowType
  <2> QED
    BY <1>5, <2>1, AbsentAssumption
<1>8. \A q \in Servers : promised'[q] \subseteq With("queued")'
  <2>1. k \in With("queued")'
    BY <1>5, <1>7 DEF With
  <2>2. \A q \in Servers : \A r \in promised[q] : r \in With("queued")'
    BY <1>3, <1>5 DEF KickInv, With
  <2> QED
    BY <1>4, <2>1, <2>2
<1>9. \A q \in Servers : now'[q].stage = "kick" => now'[q].schedule \in Schedules
  BY <1>1, <1>4 DEF KickInv
<1>10. ASSUME NEW q \in Servers, Up(q)' PROVE Kept(q)'
  <2>1. Orderly(sched[q])'
    BY <1>1, <1>10 DEF Up, KickInv, Kept, Orderly, Linked, RoundOn, Passes
  <2>2. ASSUME NEW r \in promised'[q] \ missed'[q]
        PROVE  (Coming(q, RunTenant(r)) \/ Cared(sched[q], RunTenant(r)))'
    <3> DEFINE u == RunTenant(r)
    <3>1. CASE r = k
      <4>1. q = p
        BY <1>3, <1>4, <2>2, <3>1
      <4>2. RunTenant(r)' = TenantOf[s]
        BY <1>5, <3>1 DEF RunTenant
      <4> QED
        BY <1>4, <4>1, <4>2 DEF Coming
    <3>2. CASE r # k
      <4>1. r \in promised[q] \ missed[q]
        BY <1>1, <1>4, <2>2, <3>2
      <4>2. u' = u
        BY <1>2, <1>5, <3>2, <4>1 DEF RunTenant
      <4>3. Coming(q, u) \/ Cared(sched[q], u)
        BY <1>1, <1>10, <4>1 DEF KickInv, Kept, Up
      <4> HIDE DEF u
      <4>4. Coming(q, u) => Coming(q, u)'
        BY <1>1, <1>4, <4>2 DEF Coming
      <4>5. Cared(sched[q], u) => Cared(sched[q], u)'
        BY <1>1, <4>2 DEF Cared, Passing, Listing, Behind, Pending, InTurn, HasRoom
      <4> QED
        BY <4>3, <4>4, <4>5 DEF u
    <3> QED
      BY <3>1, <3>2
  <2> QED
    BY <2>1, <2>2 DEF Kept
<1> QED
  BY <1>6, <1>8, <1>9, <1>10 DEF KickInv

(* A server that starts passes at once. *)
LEMMA StartedServes == Orderly(Started) /\ \A t \in Tenants : Cared(Started, t)
<1> DEFINE m == NewScheduler
<1>1. <<>> \in Seq({"pass", "more"}) /\ <<>> \in Seq(Tenants) /\ {} \in SUBSET Tenants /\ {} \in SUBSET Runs
  OBVIOUS
<1>2. NoPass \in PassType /\ NoPass.stage = "none"
  BY <1>1 DEF NoPass, PassType, Stages
<1>3. NoRound \in RoundType /\ NoRound.stage = "none"
  BY <1>1 DEF NoRound, RoundType
<1>4. m \in SchedulerType /\ m.pass = NoPass /\ m.starts = <<>> /\ m.kicks = 0 /\ m.round = NoRound
  <2> HIDE DEF NoPass, NoRound
  <2> QED
    BY <1>1, <1>2, <1>3 DEF NewScheduler, SchedulerType
<1> HIDE DEF m
<1>5. Passes(m) = {}
  BY <1>4 DEF Passes
<1>6. Linked(m) /\ RoundOn(m)
  BY <1>2, <1>3, <1>4, <1>5 DEF Linked, RoundOn
<1>7. Started = [m EXCEPT !.pass = NewPass]
  BY DEF Started, m
<1> QED
  BY <1>2, <1>4, <1>6, <1>7, NewPassServes

(* Each step is one server's, or nobody's. *)
Aside(q) == sched'[q] = sched[q] /\ now'[q] = now[q] /\ mode'[q] = mode[q]

LEMMA OneActs ==
    ASSUME Machines, Modes, [Next]_vars
    PROVE  \/ \A q \in Servers : Aside(q)
           \/ \E p \in Servers :
                /\ \A q \in Servers \ {p} : Aside(q)
                /\ \/ Tick(p) \/ (\E D \in SUBSET Schedules : FireUnit(p, D)) \/ PassOver(p)
                   \/ Unlicensed(p) \/ UnitFails(p) \/ UnitAnswered(p)
                   \/ ClaimBegins(p) \/ ClaimCommits(p) \/ ClaimAnswered(p) \/ ClaimFails(p)
                   \/ (\E r \in Runs : Finish(p, r) \/ StoreFails(p, r))
                   \/ (\E s \in Schedules : RunNowBegins(p, s)) \/ (\E r \in Runs : RunNowCommits(p, r)) \/ Kick(p)
                   \/ Stop(p) \/ Stopped(p) \/ Crash(p) \/ Restart(p)
<1>1. PICK X : sched \in [Servers -> Shape(X)]
  BY DEF Machines, Shaped
<1>2. mode \in [Servers -> {"up", "stopping", "down"}]
      /\ now \in [Servers -> [schedule : Schedules \cup {Nobody}, stage : {"none", "locked", "kick"}]]
  BY DEF Modes
<1>3. ASSUME NEW p \in Servers, NEW n, Set(p, n), UNCHANGED <<mode, now>>
      PROVE  \A q \in Servers \ {p} : Aside(q)
  BY <1>1, <1>3 DEF Set, Aside
<1>4. ASSUME NEW p \in Servers, Tick(p) \/ PassOver(p) \/ Unlicensed(p) \/ UnitFails(p) \/ UnitAnswered(p)
      PROVE  \A q \in Servers \ {p} : Aside(q)
  <2>1. UNCHANGED <<mode, now>> /\ \E n : Set(p, n)
    BY <1>4 DEF Tick, PassOver, Unlicensed, UnitFails, UnitAnswered
  <2> QED
    BY <1>3, <2>1
<1>5. ASSUME NEW p \in Servers, NEW D \in SUBSET Schedules, FireUnit(p, D) PROVE \A q \in Servers \ {p} : Aside(q)
  <2>1. UNCHANGED <<mode, now>> /\ \E n : Set(p, n)
    BY <1>5 DEF FireUnit
  <2> QED
    BY <1>3, <2>1
<1>6. ASSUME NEW p \in Servers, ClaimBegins(p) \/ ClaimCommits(p) \/ ClaimAnswered(p) \/ ClaimFails(p)
      PROVE  \A q \in Servers \ {p} : Aside(q)
  <2>1. UNCHANGED <<mode, now>> /\ \E n : Set(p, n)
    BY <1>6, Zenon DEF ClaimBegins, ClaimCommits, ClaimAnswered, ClaimFails, SetRound
  <2> QED
    BY <1>3, <2>1
<1>7. ASSUME NEW p \in Servers, NEW r \in Runs, Finish(p, r) \/ StoreFails(p, r)
      PROVE  \A q \in Servers \ {p} : Aside(q)
  <2>1. UNCHANGED <<mode, now>> /\ \E n : Set(p, n)
    BY <1>7 DEF Finish, StoreFails, Free
  <2> QED
    BY <1>3, <2>1
<1>8. ASSUME NEW p \in Servers, NEW s \in Schedules, RunNowBegins(p, s) PROVE \A q \in Servers \ {p} : Aside(q)
  BY <1>2, <1>8 DEF RunNowBegins, Aside
<1>9. ASSUME NEW p \in Servers, NEW r \in Runs, RunNowCommits(p, r) PROVE \A q \in Servers \ {p} : Aside(q)
  BY <1>2, <1>9 DEF RunNowCommits, Aside
<1>10. ASSUME NEW p \in Servers, Kick(p) PROVE \A q \in Servers \ {p} : Aside(q)
  <2>1. UNCHANGED mode /\ now' = [now EXCEPT ![p] = NoRequest] /\ \E n : Set(p, n)
    BY <1>10 DEF Kick
  <2> QED
    BY <1>1, <1>2, <2>1 DEF Set, Aside
<1>11. ASSUME NEW p \in Servers, Stop(p) \/ Stopped(p) \/ Crash(p) \/ Restart(p)
       PROVE  \A q \in Servers \ {p} : Aside(q)
  BY <1>1, <1>2, <1>11 DEF Stop, Stopped, Crash, Restart, Set, Aside
<1>12. ASSUME NEW p \in Servers, NEW r \in Runs, Store(p, r) PROVE \A q \in Servers : Aside(q)
  BY <1>12 DEF Store, Aside
<1>13. ASSUME NEW r \in Runs, Cancel(r) \/ Overdue(r) PROVE \A q \in Servers : Aside(q)
  BY <1>13 DEF Cancel, Overdue, Aside
<1>14. ASSUME NEW t, NEW st, SetStatus(t, st) PROVE \A q \in Servers : Aside(q)
  BY <1>14 DEF SetStatus, Aside
<1>15. CASE UNCHANGED vars
  BY <1>15 DEF vars, Aside
<1> QED
  BY <1>4, <1>5, <1>6, <1>7, <1>8, <1>9, <1>10, <1>11, <1>12, <1>13, <1>14, <1>15
  DEF Next, PassStep, ClaimStep, RequestStep

LEMMA AsideKept ==
    ASSUME Rows, KickInv, Fewer, RowsStay, NEW q \in Servers, Aside(q)
    PROVE  /\ Up(q)' => Kept(q)'
           /\ now'[q].stage = "kick" => now'[q].schedule \in Schedules
<1>1. Up(q)' => Up(q)
  BY DEF Aside, Up
<1>2. Up(q)' => Kept(q)'
  BY <1>1, KeptStays DEF Aside
<1> QED
  BY <1>2 DEF Aside, KickInv

LEMMA KickStep ==
    ASSUME Rows, Machines, Modes, ScheduleInv, KickInv, [Next]_vars
    PROVE  KickInv'
<1>1. ASSUME NEW p \in Servers, NEW r \in Runs, RunNowCommits(p, r) PROVE KickInv'
  BY <1>1, CommitsKept
<1>2. CASE Fewer /\ RowsStay
  <2>1. promised' \in [Servers -> SUBSET Runs] /\ missed' \in [Servers -> SUBSET Runs]
    BY <1>2 DEF Fewer
  <2>2. \A q \in Servers : promised'[q] \subseteq With("queued")'
    BY <1>2 DEF Fewer, RowsStay, KickInv, With
  <2>3. CASE \A q \in Servers : Aside(q)
    <3>1. \A q \in Servers : /\ Up(q)' => Kept(q)'
                             /\ now'[q].stage = "kick" => now'[q].schedule \in Schedules
      BY <1>2, <2>3, AsideKept
    <3> QED
      BY <2>1, <2>2, <3>1 DEF KickInv
  <2>4. ASSUME NEW p \in Servers, \A q \in Servers \ {p} : Aside(q),
               /\ Up(p)' => Kept(p)'
               /\ now'[p].stage = "kick" => now'[p].schedule \in Schedules
        PROVE  KickInv'
    <3>1. \A q \in Servers : /\ Up(q)' => Kept(q)'
                             /\ now'[q].stage = "kick" => now'[q].schedule \in Schedules
      BY <1>2, <2>4, AsideKept
    <3> QED
      BY <2>1, <2>2, <3>1 DEF KickInv
  <2>5. ASSUME NEW p \in Servers, UNCHANGED <<mode, now>>, Up(p) => Kept(p)'
        PROVE  /\ Up(p)' => Kept(p)'
               /\ now'[p].stage = "kick" => now'[p].schedule \in Schedules
    BY <2>5 DEF Up, KickInv
  <2>6. ASSUME NEW p \in Servers,
               Tick(p) \/ (\E D \in SUBSET Schedules : FireUnit(p, D)) \/ PassOver(p) \/ Unlicensed(p) \/ UnitFails(p)
        PROVE  UNCHANGED <<mode, now>> /\ (Up(p) => Kept(p)')
    <3>1. UNCHANGED <<mode, now>>
      BY <2>6 DEF Tick, FireUnit, PassOver, Unlicensed, UnitFails
    <3> QED
      BY <1>2, <2>6, <3>1, PassKept
  <2>7. ASSUME NEW p \in Servers, UnitAnswered(p)
        PROVE  UNCHANGED <<mode, now>> /\ (Up(p) => Kept(p)')
    <3>1. UNCHANGED <<mode, now>>
      BY <2>7 DEF UnitAnswered
    <3> QED
      BY <1>2, <2>7, <3>1, UnitAnsweredKept
  <2>8. ASSUME NEW p \in Servers, ClaimBegins(p) \/ ClaimCommits(p) \/ ClaimAnswered(p) \/ ClaimFails(p)
        PROVE  UNCHANGED <<mode, now>> /\ (Up(p) => Kept(p)')
    <3>1. UNCHANGED <<mode, now>>
      BY <2>8 DEF ClaimBegins, ClaimCommits, ClaimAnswered, ClaimFails
    <3> QED
      BY <1>2, <2>8, <3>1, ClaimKept, AnswerKept
  <2>9. ASSUME NEW p \in Servers, NEW r \in Runs, Finish(p, r) \/ StoreFails(p, r)
        PROVE  UNCHANGED <<mode, now>> /\ (Up(p) => Kept(p)')
    <3>1. UNCHANGED <<mode, now>> /\ Free(p, r)
      BY <2>9 DEF Finish, StoreFails
    <3> QED
      BY <1>2, <3>1, FreeKept
  <2>10. ASSUME NEW p \in Servers, NEW s \in Schedules, RunNowBegins(p, s)
         PROVE  /\ Up(p)' => Kept(p)'
                /\ now'[p].stage = "kick" => now'[p].schedule \in Schedules
    <3>1. mode' = mode /\ now'[p].stage # "kick"
      BY <2>10 DEF RunNowBegins, Modes
    <3> QED
      BY <1>2, <2>10, <3>1, BeginsKept DEF Up
  <2>11. ASSUME NEW p \in Servers, Kick(p)
         PROVE  /\ Up(p)' => Kept(p)'
                /\ now'[p].stage = "kick" => now'[p].schedule \in Schedules
    <3>1. mode' = mode /\ now'[p].stage # "kick"
      BY <2>11 DEF Kick, Modes, NoRequest
    <3> QED
      BY <1>2, <2>11, <3>1, KickKeeps DEF Up
  <2>12. ASSUME NEW p \in Servers, Stop(p) \/ Stopped(p) \/ Crash(p)
         PROVE  /\ Up(p)' => Kept(p)'
                /\ now'[p].stage = "kick" => now'[p].schedule \in Schedules
    <3>1. ~Up(p)'
      BY <2>12 DEF Stop, Stopped, Crash, Up, Modes
    <3>2. now'[p] = now[p] \/ now'[p] = NoRequest
      BY <2>12 DEF Stop, Stopped, Crash, Modes
    <3> QED
      BY <3>1, <3>2 DEF KickInv, NoRequest
  <2>13. ASSUME NEW p \in Servers, Restart(p)
         PROVE  /\ Up(p)' => Kept(p)'
                /\ now'[p].stage = "kick" => now'[p].schedule \in Schedules
    <3>1. now' = now /\ sched'[p] = Started
      BY <2>13, SetGives DEF Restart
    <3>2. \A r \in promised'[p] \ missed'[p] : RunTenant(r) \in Tenants /\ RunTenant(r)' = RunTenant(r)
      BY <1>2, PromiseFollows DEF RunTenant
    <3>3. Orderly(sched[p])'
      BY <3>1, StartedServes DEF Orderly, Linked, RoundOn, Passes
    <3>4. ASSUME NEW r \in promised'[p] \ missed'[p] PROVE Cared(sched[p], RunTenant(r))'
      <4> DEFINE u == RunTenant(r)
      <4>1. u \in Tenants /\ u' = u
        BY <3>2
      <4> HIDE DEF u
      <4>2. Cared(sched[p], u)'
        BY <3>1, <4>1, StartedServes DEF Cared, Passing, Listing, Behind, Pending, InTurn, HasRoom
      <4> QED
        BY <4>2 DEF u
    <3> QED
      BY <3>1, <3>3, <3>4 DEF Kept, KickInv
  <2>14. ASSUME NEW p \in Servers, \A q \in Servers \ {p} : Aside(q),
                Tick(p) \/ (\E D \in SUBSET Schedules : FireUnit(p, D)) \/ PassOver(p) \/ Unlicensed(p) \/ UnitFails(p)
                \/ UnitAnswered(p) \/ ClaimBegins(p) \/ ClaimCommits(p) \/ ClaimAnswered(p) \/ ClaimFails(p)
                \/ (\E r \in Runs : Finish(p, r) \/ StoreFails(p, r))
         PROVE  KickInv'
    <3>1. UNCHANGED <<mode, now>> /\ (Up(p) => Kept(p)')
      BY <2>6, <2>7, <2>8, <2>9, <2>14
    <3> QED
      BY <2>4, <2>5, <2>14, <3>1
  <2>15. ASSUME NEW p \in Servers, \A q \in Servers \ {p} : Aside(q),
                (\E s \in Schedules : RunNowBegins(p, s)) \/ Kick(p) \/ Stop(p) \/ Stopped(p) \/ Crash(p) \/ Restart(p)
         PROVE  KickInv'
    BY <2>4, <2>10, <2>11, <2>12, <2>13, <2>15
  <2> QED
    BY <1>1, <2>3, <2>14, <2>15, OneActs
<1> QED
  BY <1>1, <1>2, PromiseKinds

LEMMA InitKicks == Init => KickInv
<1> SUFFICES ASSUME Init PROVE KickInv
  OBVIOUS
<1>1. /\ promised = [p \in Servers |-> {}] /\ missed = [p \in Servers |-> {}]
      /\ sched = [p \in Servers |-> Started] /\ now = [p \in Servers |-> NoRequest]
  BY DEF Init
<1>2. \A p \in Servers : Kept(p)
  BY <1>1, StartedServes DEF Kept
<1> QED
  BY <1>1, <1>2 DEF KickInv, NoRequest

(* A server at rest has nothing under way: what it was kicked for is on   *)
(* its list, and waits for a place.                                        *)
LEMMA RestRemembers ==
    ASSUME KickInv
    PROVE  KickKept
<1> SUFFICES ASSUME NEW p \in Servers, Quiet(p), NEW r \in promised[p] \ missed[p]
             PROVE  StillListed(p, r)
  BY DEF KickKept
<1>1. Cared(sched[p], RunTenant(r))
  BY DEF KickInv, Kept, Coming, Quiet, NoRequest
<1> QED
  BY <1>1 DEF Quiet, StillListed, Cared, Passing, Behind, Pending

---------------------------------------------------------------------------
(* The theorems *)

(* What every reachable state satisfies: the rows and the schedulers are   *)
(* in order, each lock does what it is taken for, no run is left behind.   *)
RunsInv == Rows /\ Machines /\ Modes /\ ScheduleInv /\ SlotInv /\ StopLeavesNothing

LEMMA InitRuns == Init => RunsInv
<1> SUFFICES ASSUME Init PROVE RunsInv
  OBVIOUS
<1>1. \A st : With(st) = {}
  BY DEF Init, With
<1>2. Rows
  BY DEF Init, Rows
<1>3. Machines
  <2>1. Sound(Started)
    BY NewIsSound
  <2>2. PICK X : Started \in Shape(X)
    BY <2>1 DEF Sound, Fit
  <2> QED
    BY <2>1, <2>2 DEF Init, Machines, Shaped, Sound
<1>4. NoRequest.stage = "none"
      /\ NoRequest \in [schedule : Schedules \cup {Nobody}, stage : {"none", "locked", "kick"}]
  BY DEF NoRequest
<1>5. Modes
  BY <1>4 DEF Init, Modes
<1>6. ScheduleInv
  BY <1>1, <1>4 DEF Init, ScheduleInv, RequestAlone, OneOpenRun, Open
<1>7. SlotInv
  <2>1. \A t : Cardinality(OfTenant(t, With("running"))) = 0
    BY <1>1, FS_EmptySet DEF OfTenant
  <2>2. \A p \in Servers : sched[p].round.stage = "none"
    BY DEF Init, Started, NewScheduler, NoRound
  <2>3. slotLock \in [Tenants -> Servers \cup {Nobody}]
    BY DEF Init
  <2> QED
    BY <2>1, <2>2, <2>3, CapsAssumption DEF SlotInv, SlotHeld, SlotsKept
<1> QED
  BY <1>1, <1>2, <1>3, <1>5, <1>6, <1>7 DEF RunsInv, StopLeavesNothing

(* RunsInv is inductive: it holds in every state that any number of       *)
(* servers, their passes, claims, Run nows, cancels, stops and crashes     *)
(* can reach.                                                              *)
THEOREM RunsInvHolds == Spec => []RunsInv
<1>1. RunsInv /\ [Next]_vars => RunsInv'
  BY RowsStep, MachinesStep, ModesStep, ScheduleStep, SlotStep, BehindStep DEF RunsInv
<1> QED
  BY <1>1, InitRuns, PTL DEF Spec

(* Whatever passes and Run nows of several servers do at once, a schedule  *)
(* has at most one queued or running run.                                  *)
THEOREM OneOpenRunHolds == Spec => []OneOpenRun
<1>1. RunsInv => OneOpenRun
  BY DEF RunsInv, ScheduleInv
<1> QED
  BY <1>1, RunsInvHolds, PTL

(* However many servers claim at once, a tenant's running runs never       *)
(* exceed its slots.                                                       *)
THEOREM SlotsAreKept == Spec => []SlotsKept
<1>1. RunsInv => SlotsKept
  BY DEF RunsInv, SlotInv
<1> QED
  BY <1>1, RunsInvHolds, PTL

(* A run marked running is on a server, on its way to one, or was lost     *)
(* with one: a stop that has ended left no run behind.                     *)
THEOREM NothingIsLeftBehind == Spec => []StopLeavesNothing
<1>1. RunsInv => StopLeavesNothing
  BY DEF RunsInv
<1> QED
  BY <1>1, RunsInvHolds, PTL

(* Of the executor, a cancel, a stale run's end and a suspension, the      *)
(* first decides how a run ended.                                          *)
THEOREM OutcomesStand == Spec => OutcomeStands
<1>1. RunsInv /\ [Next]_vars => [\A r \in Runs : Ended(r) => row'[r] \in {row[r], NoRun}]_vars
  BY OutcomeStep DEF RunsInv
<1> QED
  BY <1>1, RunsInvHolds, PTL DEF Spec, OutcomeStands

(* A server that has come to rest between two passes has not forgotten a   *)
(* Run now, also one whose kick came while a pass that had asked its       *)
(* tenant already, or a start, was under way.                              *)
THEOREM KicksAreKept == Spec => []KickKept
<1>1. KickInv /\ RunsInv /\ [Next]_vars => KickInv'
  BY KickStep DEF RunsInv
<1>2. KickInv => KickKept
  BY RestRemembers
<1> QED
  BY <1>1, <1>2, InitKicks, RunsInvHolds, PTL DEF Spec
=============================================================================
