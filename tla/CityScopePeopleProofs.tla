----------------------- MODULE CityScopePeopleProofs -----------------------
(***************************************************************************)
(* Proofs about CityScopePeople, for any population, ranges of times and   *)
(* periods of clock and resets.                                            *)
(*                                                                         *)
(* A person's objective is a function of its times and the hour, except    *)
(* that in the first cycle of an hour it is that of the hour before until  *)
(* the person has had its turn (DayOK).  A turn follows that function      *)
(* because each rule's window is the hours after the one and before the    *)
(* other time, and the clock meets every hour of a day, from 6 to 29,      *)
(* before the next reset (NextHour, DayBegins).                            *)
(***************************************************************************)
EXTENDS CityScopePeople, TLAPS

\* The conjuncts of PeopleTypeOK that do not concern the clock.
PersonTypes ==
    /\ times \in [People -> Times]
    /\ objective \in [People -> Objectives]
    /\ the_target \in [People -> PlacesOf \cup {"nil"}]
    /\ curMovingMode \in [People -> {"wandering", "travelling"}]
    /\ place \in [People -> PlacesOf \cup {"road"}]

\* The world's part.
ClockTypes ==
    /\ cycle \in 0 .. ClockPeriod - 1
    /\ turn \in [agent : {0}, reflex : {"initSim"}]
               \cup [agent : People, reflex : {"updateTargetAndObjective", "move"}]
    /\ current_day \in 1 .. 6

Travelling ==
    \A p \in People : (curMovingMode[p] = "travelling") <=> (the_target[p] # "nil")

PeopleInv == ClockTypes /\ PersonTypes /\ Travelling /\ GoesWhereItShould

LEMMA PeopleInvInit == Init => PeopleInv
BY PeopleConstants DEF Init, PeopleInv, ClockTypes, PersonTypes, Travelling,
   GoesWhereItShould, Goal, People, Objectives, PlacesOf

\* Whoever ends its turn leaves a clock and a turn of the right type.
LEMMA EndTurnTypes ==
    ASSUME ClockTypes, NEW a \in 0 .. NbPeople, EndTurn(a)
    PROVE  /\ cycle' \in 0 .. ClockPeriod - 1
           /\ turn' \in [agent : {0}, reflex : {"initSim"}]
                \cup [agent : People, reflex : {"updateTargetAndObjective", "move"}]
<1>1. CASE a < NbPeople
  <2>1. a + 1 \in People
    BY <1>1, PeopleConstants DEF People
  <2> QED BY <1>1, <2>1 DEF EndTurn, ClockTypes
<1>2. CASE ~(a < NbPeople)
  <2>1. cycle' = (cycle + 1) % ClockPeriod
    BY <1>2 DEF EndTurn
  <2>2. cycle' \in 0 .. ClockPeriod - 1
    BY <2>1, PeopleConstants DEF ClockTypes
  <2> QED BY <1>2, <2>2 DEF EndTurn
<1> QED BY <1>1, <1>2

\* A rule leads from an objective to an objective and to its place.
LEMMA RulesLeadToGoals ==
    ASSUME NEW t, NEW r \in Rules(t)
    PROVE  r.to \in Objectives /\ r.goal = Goal(r.to) /\ r.goal \in PlacesOf
BY DEF Rules, Objectives, Goal, PlacesOf

LEMMA PeopleInvStep == PeopleInv /\ [Next]_vars => PeopleInv'
<1> SUFFICES ASSUME PeopleInv, [Next]_vars PROVE PeopleInv'
  OBVIOUS
<1> USE DEF PeopleInv, PersonTypes, Travelling, GoesWhereItShould
<1>1. CASE InitSim
  <2>1. 0 \in 0 .. NbPeople
    BY PeopleConstants
  <2>2. current_day' \in 1 .. 6
    BY <1>1 DEF InitSim, ClockTypes
  <2>3. ClockTypes'
    BY <1>1, <2>1, <2>2, EndTurnTypes DEF InitSim, ClockTypes
  <2> QED BY <1>1, <2>3 DEF InitSim, Goal, Objectives, PlacesOf
<1>2. CASE NoReset
  <2>1. 0 \in 0 .. NbPeople
    BY PeopleConstants
  <2>2. ClockTypes'
    BY <1>2, <2>1, EndTurnTypes DEF NoReset, ClockTypes
  <2> QED BY <1>2, <2>2 DEF NoReset
<1>3. ASSUME NEW p \in People, UpdateTargetAndObjective(p) PROVE PeopleInv'
  <2>1. PICK r \in Rules(times[p]) :
           /\ objective' = [objective EXCEPT ![p] = r.to]
           /\ the_target' = [the_target EXCEPT ![p] = r.goal]
    BY <1>3 DEF UpdateTargetAndObjective
  <2>2. r.to \in Objectives /\ r.goal = Goal(r.to) /\ r.goal \in PlacesOf
    BY RulesLeadToGoals
  <2>3. r.goal # "nil"
    BY <2>2 DEF PlacesOf
  <2>4. ClockTypes'
    BY <1>3 DEF UpdateTargetAndObjective, ClockTypes, Turn
  <2> QED BY <1>3, <2>1, <2>2, <2>3, <2>4 DEF UpdateTargetAndObjective
<1>4. ASSUME NEW p \in People, KeepObjective(p) PROVE PeopleInv'
  <2>1. ClockTypes'
    BY <1>4 DEF KeepObjective, ClockTypes, Turn
  <2> QED BY <1>4, <2>1 DEF KeepObjective
<1>5. ASSUME NEW p \in People, MoveOn(p) PROVE PeopleInv'
  <2>1. ClockTypes'
    BY <1>5, EndTurnTypes, PeopleConstants DEF MoveOn, ClockTypes, People
  <2> QED BY <1>5, <2>1 DEF MoveOn
<1>6. ASSUME NEW p \in People, Arrive(p) PROVE PeopleInv'
  <2>1. ClockTypes'
    BY <1>6, EndTurnTypes, PeopleConstants DEF Arrive, ClockTypes, People
  <2>2. the_target[p] = Goal(objective[p]) /\ the_target[p] \in PlacesOf
    BY <1>6 DEF Arrive
  <2> QED BY <1>6, <2>1, <2>2 DEF Arrive
<1>7. ASSUME NEW p \in People, Wander(p) PROVE PeopleInv'
  <2>1. ClockTypes'
    BY <1>7, EndTurnTypes, PeopleConstants DEF Wander, ClockTypes, People
  <2> QED BY <1>7, <2>1 DEF Wander
<1>8. CASE UNCHANGED vars
  BY <1>8 DEF vars, ClockTypes
<1> QED BY <1>1, <1>2, <1>3, <1>4, <1>5, <1>6, <1>7, <1>8 DEF Next

LEMMA PeopleInvAlways == Spec => []PeopleInv
BY PeopleInvInit, PeopleInvStep, PTL DEF Spec

\* The state of the population is always well typed, and a person travels
\* exactly while it has a target (travellingMode, move).
THEOREM PeopleTypeCorrect == Spec => []PeopleTypeOK
<1>1. PeopleInv => PeopleTypeOK
  BY DEF PeopleInv, PeopleTypeOK, ClockTypes, PersonTypes, Travelling
<1> QED BY <1>1, PeopleInvAlways, PTL

\* In every population and whenever initSim resets it, a person is where its
\* objective says or is going there.
THEOREM PeopleGoWhereTheyShould == Spec => []GoesWhereItShould
<1>1. PeopleInv => GoesWhereItShould
  BY DEF PeopleInv
<1> QED BY <1>1, PeopleInvAlways, PTL

(* A day. *)

\* The order of a day, as the ranges of the code have it.
TimesInOrder ==
    \A t \in Times :
        /\ t.work < t.lunch /\ 6 < t.lunch
        /\ t.lunch < t.rework /\ t.rework + 1 < t.dinner
        /\ t.dinner < t.sleep /\ t.sleep < 23

\* The objective of a person with the times t after its turn in the hour h.
ObjectiveIn(t, h) ==
    IF t.lunch - t.work = 1 \/ h <= t.work THEN "resting"
    ELSE IF t.rework - t.lunch = 1 \/ h <= t.lunch THEN "working"
    ELSE IF h <= t.rework THEN "eating"
    ELSE IF t.sleep - t.dinner = 1 \/ h <= t.dinner THEN "reworking"
    ELSE IF h <= t.sleep THEN "dinning"
    ELSE "resting"

\* The one before its first turn in that hour.
ObjectiveBefore(t, h) == IF h = 6 THEN "resting" ELSE ObjectiveIn(t, h - 1)

NewHour == cycle % CyclesPerHour = 0

\* The person has had its turn in this cycle.
Acted(p) == turn.agent > p \/ Turn(p, "move")

\* initSim is about to reset the population.
Resetting == turn.agent = 0 /\ cycle % ResetPeriod = 0

OnSchedule(p) ==
    objective[p] = IF NewHour /\ ~Acted(p) THEN ObjectiveBefore(times[p], current_hour)
                                           ELSE ObjectiveIn(times[p], current_hour)

DayOK == Resetting \/ \A p \in People : OnSchedule(p)

LEMMA Quotient ==
    ASSUME NEW a \in Nat, NEW b \in Nat \ {0}
    PROVE  /\ a \div b \in Nat /\ a % b \in 0 .. b - 1
           /\ a = b * (a \div b) + (a % b)
OBVIOUS

LEMMA Division ==
    ASSUME NEW a \in Nat, NEW b \in Nat \ {0}, NEW q \in Nat, NEW r \in 0 .. b - 1, a = b * q + r
    PROVE  a \div b = q /\ a % b = r
OBVIOUS

\* The clock: an hour has CyclesPerHour cycles, a day 24 hours.
LEMMA NextHour ==
    ASSUME NEW c \in Nat, NEW b \in Nat \ {0}
    PROVE  IF (c + 1) % b = 0 THEN (c + 1) \div b = c \div b + 1
                              ELSE (c + 1) \div b = c \div b
<1> DEFINE q == c \div b
           r == c % b
<1>1. q \in Nat /\ r \in 0 .. b - 1 /\ c = b * q + r
  BY Quotient
<1> HIDE DEF q, r
<1>2. CASE r = b - 1
  <2>1. c + 1 = b * (q + 1) + 0
    BY <1>1, <1>2
  <2>2. (c + 1) \div b = q + 1 /\ (c + 1) % b = 0
    <3>1. q + 1 \in Nat /\ 0 \in 0 .. b - 1 /\ c + 1 \in Nat
      BY <1>1
    <3> HIDE DEF q
    <3> QED BY <2>1, <3>1, Division
  <2> QED BY <2>2 DEF q
<1>3. CASE r # b - 1
  <2>1. r + 1 \in 0 .. b - 1 /\ c + 1 = b * q + (r + 1) /\ r + 1 # 0
    BY <1>1, <1>3
  <2>2. (c + 1) \div b = q /\ (c + 1) % b = r + 1
    BY <1>1, <2>1, Division
  <2> QED BY <2>1, <2>2 DEF q
<1> QED BY <1>2, <1>3

\* A day begins with the first cycle of its first hour.
LEMMA DayBegins ==
    ASSUME NEW c \in Nat, NEW b \in Nat \ {0}
    PROVE  c % (24 * b) = 0 <=> c % b = 0 /\ (c \div b) % 24 = 0
<1>1. 24 * b \in Nat \ {0}
  OBVIOUS
<1>2. ASSUME c % (24 * b) = 0 PROVE c % b = 0 /\ (c \div b) % 24 = 0
  <2> DEFINE m == c \div (24 * b)
  <2>1. m \in Nat /\ c = (24 * b) * m + 0
    BY <1>1, <1>2, Quotient
  <2> HIDE DEF m
  <2>2. c = b * (24 * m) + 0 /\ 24 * m \in Nat /\ 0 \in 0 .. b - 1
    BY <2>1
  <2>3. c \div b = 24 * m /\ c % b = 0
    BY <2>2, Division
  <2>4. (24 * m) % 24 = 0
    BY <2>1
  <2> QED BY <2>3, <2>4
<1>3. ASSUME c % b = 0, (c \div b) % 24 = 0 PROVE c % (24 * b) = 0
  <2> DEFINE q == c \div b
             m == q \div 24
  <2>1. q \in Nat /\ c = b * q + 0
    BY <1>3, Quotient
  <2> HIDE DEF q
  <2>2. m \in Nat /\ q = 24 * m + 0
    BY <1>3, <2>1 DEF q
  <2> HIDE DEF m
  <2>3. c = (24 * b) * m + 0
    BY <2>1, <2>2
  <2>4. 0 \in 0 .. 24 * b - 1
    BY <1>1
  <2> QED BY <1>1, <2>2, <2>3, <2>4, Division
<1> QED BY <1>2, <1>3

\* A turn in the hour h leads to the objective of that hour.
LEMMA RulesFollowDay ==
    ASSUME TimesInOrder, NEW t \in Times, NEW h \in 6 .. 29,
           NEW o \in {ObjectiveBefore(t, h), ObjectiveIn(t, h)}
    PROVE  /\ \A r \in Rules(t) : r.from = o /\ r.after < h /\ h < r.before => r.to = ObjectiveIn(t, h)
           /\ (\A r \in Rules(t) : ~(r.from = o /\ r.after < h /\ h < r.before)) => o = ObjectiveIn(t, h)
<1> DEFINE w == t.work
           l == t.lunch
           k == t.rework
           d == t.dinner
           s == t.sleep
<1>1. w \in Nat /\ l \in Nat /\ k \in Nat /\ d \in Nat /\ s \in Nat
  BY PeopleConstants DEF Times
<1>2. w < l /\ 6 < l /\ l < k /\ k + 1 < d /\ d < s /\ s < 23
  BY DEF TimesInOrder
<1>3. ASSUME NEW r \in Rules(t), r.from = o, r.after < h, h < r.before
      PROVE  r.to = ObjectiveIn(t, h)
  <2>1. \/ o = "resting" /\ w < h /\ h < l /\ r.to = "working"
        \/ o = "working" /\ l < h /\ h < k /\ r.to = "eating"
        \/ o = "eating" /\ k < h /\ h < d /\ r.to = "reworking"
        \/ o = "reworking" /\ d < h /\ h < s /\ r.to = "dinning"
        \/ o = "dinning" /\ s < h /\ h < 24 /\ r.to = "resting"
    BY <1>3 DEF Rules
  <2> HIDE DEF w, l, k, d, s
  <2> QED BY <1>1, <1>2, <2>1 DEF ObjectiveBefore, ObjectiveIn, w, l, k, d, s
<1>4. ASSUME \A r \in Rules(t) : ~(r.from = o /\ r.after < h /\ h < r.before)
      PROVE  o = ObjectiveIn(t, h)
  <2>1. ~(o = "resting" /\ w < h /\ h < l)
    BY <1>4 DEF Rules
  <2>2. ~(o = "working" /\ l < h /\ h < k)
    BY <1>4 DEF Rules
  <2>3. ~(o = "eating" /\ k < h /\ h < d)
    BY <1>4 DEF Rules
  <2>4. ~(o = "reworking" /\ d < h /\ h < s)
    BY <1>4 DEF Rules
  <2>5. ~(o = "dinning" /\ s < h /\ h < 24)
    BY <1>4 DEF Rules
  <2> HIDE DEF w, l, k, d, s
  <2> QED BY <1>1, <1>2, <2>1, <2>2, <2>3, <2>4, <2>5 DEF ObjectiveBefore, ObjectiveIn, w, l, k, d, s
<1> QED BY <1>3, <1>4

LEMMA Hours ==
    ASSUME ClockTypes PROVE cycle \in Nat /\ cycle \div CyclesPerHour \in Nat /\ current_hour \in 6 .. 29
<1>1. cycle \in Nat /\ CyclesPerHour \in Nat \ {0}
  BY PeopleConstants DEF ClockTypes
<1>2. cycle \div CyclesPerHour \in Nat
  BY <1>1, Quotient
<1>3. \A q \in Nat : 6 + (q % 24) \in 6 .. 29
  OBVIOUS
<1> QED BY <1>1, <1>2, <1>3 DEF current_hour

\* A person ends its turn; after the last one the clock moves on.
LEMMA TurnEnds ==
    ASSUME ClockTypes, ResetsDaily, DayOK, NEW p \in People, Turn(p, "move"), EndTurn(p),
           UNCHANGED <<times, objective>>
    PROVE  DayOK'
<1>1. p \in Nat /\ p >= 1 /\ p <= NbPeople /\ NbPeople \in Nat /\ People \subseteq Nat
  BY PeopleConstants DEF People
<1>2. turn.agent = p /\ turn.reflex = "move"
  BY DEF Turn
<1>3. \A q \in People : OnSchedule(q)
  BY <1>1, <1>2 DEF DayOK, Resetting
<1>4. \A q \in People : Acted(q) <=> q <= p
  BY <1>1, <1>2 DEF Acted, Turn
<1>5. CASE p < NbPeople
  <2>1. turn' = [agent |-> p + 1, reflex |-> "updateTargetAndObjective"] /\ cycle' = cycle
    BY <1>5 DEF EndTurn
  <2>2. \A q \in People : Acted(q)' <=> q <= p
    BY <1>1, <2>1 DEF Acted, Turn
  <2>3. ASSUME NEW q \in People PROVE OnSchedule(q)'
    <3>1. Acted(q)' <=> Acted(q)
      BY <1>4, <2>2
    <3>2. NewHour' = NewHour /\ current_hour' = current_hour
      BY <2>1 DEF NewHour, current_hour
    <3> QED BY <1>3, <3>1, <3>2 DEF OnSchedule, ObjectiveBefore, ObjectiveIn
  <2> QED BY <2>3 DEF DayOK, OnSchedule, ObjectiveBefore, ObjectiveIn, Acted, Turn, NewHour, current_hour
<1>6. CASE p = NbPeople
  <2>1. turn' = [agent |-> 0, reflex |-> "initSim"] /\ cycle' = (cycle + 1) % ClockPeriod
    BY <1>1, <1>6 DEF EndTurn
  <2>2. \A q \in People : ~(Acted(q)')
    BY <1>1, <2>1 DEF Acted, Turn, People
  <2>3. \A q \in People : objective[q] = ObjectiveIn(times[q], current_hour)
    BY <1>1, <1>3, <1>4, <1>6 DEF OnSchedule, People
  <2>4. /\ cycle \in Nat /\ cycle + 1 <= ClockPeriod /\ ClockPeriod \in Nat \ {0}
        /\ CyclesPerHour \in Nat \ {0} /\ ResetPeriod = 24 * CyclesPerHour /\ ResetPeriod \in Nat \ {0}
    BY PeopleConstants DEF ClockTypes, ResetsDaily
  <2>5. CASE cycle + 1 = ClockPeriod
    <3>1. cycle' = 0
      BY <2>1, <2>4, <2>5
    <3>2. 0 % ResetPeriod = 0
      BY <2>4
    <3> QED BY <2>1, <3>1, <3>2 DEF DayOK, Resetting
  <2>6. CASE cycle + 1 < ClockPeriod
    <3> DEFINE b == CyclesPerHour
               q == cycle \div b
    <3>1. cycle' = cycle + 1 /\ cycle + 1 \in Nat
      BY <2>1, <2>4, <2>6
    <3>2. q \in Nat /\ current_hour = 6 + (q % 24) /\ current_hour' = 6 + (((cycle + 1) \div b) % 24)
      BY <3>1, Hours DEF current_hour
    <3>3. IF (cycle + 1) % b = 0 THEN (cycle + 1) \div b = q + 1 ELSE (cycle + 1) \div b = q
      BY <2>4, NextHour
    <3>4. (cycle + 1) % ResetPeriod = 0 <=> (cycle + 1) % b = 0 /\ ((cycle + 1) \div b) % 24 = 0
      BY <2>4, <3>1, DayBegins
    <3>5. CASE (cycle + 1) % b # 0
      <4>1. current_hour' = current_hour /\ ~(NewHour')
        BY <3>1, <3>2, <3>3, <3>5 DEF NewHour
      <4>2. \A x \in People : OnSchedule(x)'
        BY <2>3, <4>1 DEF OnSchedule, ObjectiveIn
      <4> QED BY <4>2 DEF DayOK, OnSchedule, ObjectiveBefore, ObjectiveIn, Acted, Turn, NewHour, current_hour
    <3>6. CASE (cycle + 1) % b = 0 /\ (q + 1) % 24 = 0
      <4>1. cycle' % ResetPeriod = 0
        BY <3>1, <3>3, <3>4, <3>6
      <4> QED BY <2>1, <4>1 DEF DayOK, Resetting
    <3>7. CASE (cycle + 1) % b = 0 /\ (q + 1) % 24 # 0
      <4>1. NewHour' /\ current_hour' = 6 + ((q + 1) % 24)
        BY <3>1, <3>2, <3>3, <3>7 DEF NewHour
      <4> HIDE DEF q
      <4>2. (q + 1) % 24 = (q % 24) + 1
        BY <3>2, <3>7
      <4>3. current_hour' # 6 /\ current_hour' - 1 = current_hour
        BY <3>2, <4>1, <4>2
      <4>4. \A x \in People : OnSchedule(x)'
        BY <2>2, <2>3, <4>1, <4>3 DEF OnSchedule, ObjectiveBefore, ObjectiveIn
      <4> QED BY <4>4 DEF DayOK, OnSchedule, ObjectiveBefore, ObjectiveIn, Acted, Turn, NewHour, current_hour
    <3> QED BY <3>5, <3>6, <3>7
  <2> QED BY <2>4, <2>5, <2>6
<1> QED BY <1>1, <1>5, <1>6

\* A person decides.
LEMMA Decides ==
    ASSUME TimesInOrder, ClockTypes, PersonTypes, DayOK, NEW p \in People,
           Turn(p, "updateTargetAndObjective"), turn' = [turn EXCEPT !.reflex = "move"],
           UNCHANGED <<cycle, times>>, objective' \in [People -> Objectives],
           \A q \in People \ {p} : objective'[q] = objective[q],
           \/ \E r \in Rules(times[p]) : Applies(r, p) /\ objective'[p] = r.to
           \/ (\A r \in Rules(times[p]) : ~Applies(r, p)) /\ objective'[p] = objective[p]
    PROVE  DayOK'
<1>1. p \in Nat /\ p >= 1 /\ People \subseteq Nat
  BY PeopleConstants DEF People
<1>2. turn.agent = p /\ turn' = [agent |-> p, reflex |-> "move"]
  BY DEF Turn
<1>3. \A q \in People : OnSchedule(q)
  BY <1>1, <1>2 DEF DayOK, Resetting
<1>4. NewHour' = NewHour /\ current_hour' = current_hour
  BY DEF NewHour, current_hour
<1>5. ASSUME NEW q \in People \ {p} PROVE OnSchedule(q)'
  <2>1. Acted(q)' <=> Acted(q)
    BY <1>1, <1>2 DEF Acted, Turn
  <2> QED BY <1>3, <1>4, <2>1 DEF OnSchedule, ObjectiveBefore, ObjectiveIn
<1>6. OnSchedule(p)'
  <2>1. objective[p] \in {ObjectiveBefore(times[p], current_hour), ObjectiveIn(times[p], current_hour)}
    BY <1>3 DEF OnSchedule
  <2>2. current_hour \in 6 .. 29 /\ times[p] \in Times
    BY Hours DEF PersonTypes
  <2>3. objective'[p] = ObjectiveIn(times[p], current_hour)
    <3>1. CASE \E r \in Rules(times[p]) : Applies(r, p) /\ objective'[p] = r.to
      BY <2>1, <2>2, <3>1, RulesFollowDay DEF Applies
    <3>2. CASE (\A r \in Rules(times[p]) : ~Applies(r, p)) /\ objective'[p] = objective[p]
      BY <2>1, <2>2, <3>2, RulesFollowDay DEF Applies
    <3> QED BY <3>1, <3>2
  <2>4. Acted(p)'
    BY <1>2 DEF Acted, Turn
  <2> QED BY <1>4, <2>3, <2>4 DEF OnSchedule, ObjectiveIn
<1>7. \A q \in People : OnSchedule(q)'
  BY <1>5, <1>6
<1> QED BY <1>7 DEF DayOK, OnSchedule, ObjectiveBefore, ObjectiveIn, Acted, Turn, NewHour, current_hour

\* A new population at the beginning of a day.
LEMMA FirstTurn ==
    ASSUME ResetsDaily, cycle \in Nat, cycle % ResetPeriod = 0,
           \A p \in People : ~Acted(p) /\ objective[p] = "resting"
    PROVE  DayOK
<1>1. CyclesPerHour \in Nat \ {0} /\ ResetPeriod = 24 * CyclesPerHour
  BY PeopleConstants DEF ResetsDaily
<1>2. NewHour /\ (cycle \div CyclesPerHour) % 24 = 0
  BY <1>1, DayBegins DEF NewHour
<1>3. current_hour = 6
  BY <1>2 DEF current_hour
<1> QED BY <1>2, <1>3 DEF DayOK, OnSchedule, ObjectiveBefore

LEMMA DayInit == ResetsDaily /\ Init => DayOK
<1> SUFFICES ASSUME ResetsDaily, Init PROVE DayOK
  OBVIOUS
<1>1. ResetPeriod \in Nat \ {0} /\ People \subseteq Nat \ {0}
  BY PeopleConstants DEF People
<1>2. cycle \in Nat /\ cycle % ResetPeriod = 0
  BY <1>1 DEF Init
<1>3. \A p \in People : ~Acted(p) /\ objective[p] = "resting"
  BY <1>1 DEF Init, Acted, Turn
<1> QED BY <1>2, <1>3, FirstTurn

LEMMA DayStep ==
    ASSUME TimesInOrder, ResetsDaily, PeopleInv, DayOK, [Next]_vars
    PROVE  DayOK'
<1>1. ClockTypes /\ PersonTypes /\ PersonTypes'
  BY PeopleInvStep DEF PeopleInv
<1>2. ASSUME Turn(0, "initSim"), EndTurn(0)
      PROVE  /\ cycle' = cycle /\ turn.agent = 0
             /\ \A p \in People : ~Acted(p) /\ ~(Acted(p)')
  <2>1. 0 < NbPeople /\ People \subseteq Nat \ {0} /\ 0 + 1 = 1
    BY PeopleConstants DEF People
  <2>2. turn = [agent |-> 0, reflex |-> "initSim"]
        /\ turn' = [agent |-> 1, reflex |-> "updateTargetAndObjective"] /\ cycle' = cycle
    BY <1>2, <2>1 DEF Turn, EndTurn
  <2> QED BY <2>1, <2>2 DEF Acted, Turn
<1>3. CASE InitSim
  <2>1. cycle' = cycle /\ \A p \in People : ~(Acted(p)')
    BY <1>2, <1>3 DEF InitSim
  <2>2. cycle' \in Nat /\ cycle' % ResetPeriod = 0 /\ \A p \in People : objective'[p] = "resting"
    BY <1>1, <1>3, <2>1, Hours DEF InitSim
  <2>3. CyclesPerHour \in Nat \ {0} /\ ResetPeriod = 24 * CyclesPerHour
    BY PeopleConstants DEF ResetsDaily
  <2>4. NewHour' /\ (cycle' \div CyclesPerHour) % 24 = 0
    BY <2>2, <2>3, DayBegins DEF NewHour
  <2>5. current_hour' = 6
    BY <2>4 DEF current_hour
  <2>6. \A p \in People : OnSchedule(p)'
    BY <2>1, <2>2, <2>4, <2>5 DEF OnSchedule, ObjectiveBefore
  <2> QED BY <2>6 DEF DayOK, OnSchedule, ObjectiveBefore, ObjectiveIn, Acted, Turn, NewHour, current_hour
<1>4. CASE NoReset
  <2>1. /\ cycle' = cycle /\ turn.agent = 0 /\ \A p \in People : ~Acted(p) /\ ~(Acted(p)')
        /\ cycle % ResetPeriod # 0 /\ UNCHANGED <<times, objective>>
    BY <1>2, <1>4 DEF NoReset
  <2>2. \A p \in People : OnSchedule(p)
    BY <2>1 DEF DayOK, Resetting
  <2>3. NewHour' = NewHour /\ current_hour' = current_hour
    BY <2>1 DEF NewHour, current_hour
  <2>4. \A p \in People : OnSchedule(p)'
    BY <2>1, <2>2, <2>3 DEF OnSchedule, ObjectiveBefore, ObjectiveIn
  <2> QED BY <2>4 DEF DayOK, OnSchedule, ObjectiveBefore, ObjectiveIn, Acted, Turn, NewHour, current_hour
<1>5. ASSUME NEW p \in People, UpdateTargetAndObjective(p) PROVE DayOK'
  <2>1. PICK r \in Rules(times[p]) : Applies(r, p) /\ objective' = [objective EXCEPT ![p] = r.to]
    BY <1>5 DEF UpdateTargetAndObjective
  <2>2. objective'[p] = r.to /\ \A q \in People \ {p} : objective'[q] = objective[q]
    BY <1>1, <2>1 DEF PersonTypes
  <2>3. objective' \in [People -> Objectives]
    BY <1>1 DEF PersonTypes
  <2> QED BY <1>1, <1>5, <2>1, <2>2, <2>3, Decides DEF UpdateTargetAndObjective
<1>6. ASSUME NEW p \in People, KeepObjective(p) PROVE DayOK'
  <2>1. objective' \in [People -> Objectives]
    BY <1>1 DEF PersonTypes
  <2> QED BY <1>1, <1>6, <2>1, Decides DEF KeepObjective
<1>7. ASSUME NEW p \in People, MoveOn(p) \/ Arrive(p) \/ Wander(p) PROVE DayOK'
  BY <1>1, <1>7, TurnEnds DEF MoveOn, Arrive, Wander
<1>8. CASE UNCHANGED vars
  BY <1>8 DEF vars, DayOK, Resetting, OnSchedule, ObjectiveBefore, ObjectiveIn, Acted, Turn,
              NewHour, current_hour
<1> QED BY <1>3, <1>4, <1>5, <1>6, <1>7, <1>8 DEF Next

\* After midnight everybody is back home, except those whose window between
\* two hours in succession had no time in it; for any population, any number
\* of cycles per hour and all times in the order of a day.
THEOREM DaysAreLived == TimesInOrder => (Spec => []DayIsLived)
<1> SUFFICES ASSUME TimesInOrder PROVE Spec => []DayIsLived
  OBVIOUS
<1>1. CASE ~ResetsDaily
  <2>1. DayIsLived
    BY <1>1 DEF DayIsLived
  <2> QED BY <2>1, PTL
<1>2. CASE ResetsDaily
  <2>1. PeopleInv /\ DayOK => DayIsLived
    <3> SUFFICES ASSUME PeopleInv, DayOK, current_hour >= 24, NEW p \in People
                 PROVE  objective[p] =
                          IF times[p].lunch - times[p].work > 1 /\ times[p].rework - times[p].lunch = 1
                          THEN "working"
                          ELSE IF times[p].lunch - times[p].work > 1 /\ times[p].sleep - times[p].dinner = 1
                          THEN "reworking" ELSE "resting"
      BY DEF DayIsLived
    <3> DEFINE w == times[p].work
               l == times[p].lunch
               k == times[p].rework
               d == times[p].dinner
               s == times[p].sleep
    <3>1. ClockTypes /\ times[p] \in Times /\ current_hour \in 6 .. 29
      BY Hours DEF PeopleInv, PersonTypes
    <3>2. w \in Nat /\ l \in Nat /\ k \in Nat /\ d \in Nat /\ s \in Nat
      BY <3>1, PeopleConstants DEF Times
    <3>3. w < l /\ 6 < l /\ l < k /\ k + 1 < d /\ d < s /\ s < 23
      BY <3>1 DEF TimesInOrder
    <3>4. ~Resetting
      <4>1. CyclesPerHour \in Nat \ {0} /\ ResetPeriod = 24 * CyclesPerHour /\ cycle \in Nat
        BY <1>2, <3>1, PeopleConstants, Hours DEF ResetsDaily
      <4>2. (cycle \div CyclesPerHour) % 24 # 0
        BY DEF current_hour
      <4> QED BY <4>1, <4>2, DayBegins DEF Resetting
    <3>5. OnSchedule(p)
      BY <3>4 DEF DayOK
    <3> HIDE DEF w, l, k, d, s
    <3> QED BY <3>1, <3>2, <3>3, <3>5 DEF OnSchedule, ObjectiveBefore, ObjectiveIn, w, l, k, d, s
  <2>2. Init => DayOK
    BY <1>2, DayInit
  <2>3. PeopleInv /\ PeopleInv' /\ DayOK /\ [Next]_vars => DayOK'
    BY <1>2, DayStep
  <2> QED BY <2>1, <2>2, <2>3, PeopleInvAlways, PTL DEF Spec
<1> QED BY <1>1, <1>2
=============================================================================
