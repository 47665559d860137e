-------------------------- MODULE CityScopePeople --------------------------
(***************************************************************************)
(* The people of the base model CityScope_main.gaml: the world's clock,    *)
(* the population that initSim replaces, and the day of a person.          *)
(*                                                                         *)
(* GAMA runs the world, then the people one after another; turn says whose *)
(* reflex runs next (the world is agent 0).                                *)
(*                                                                         *)
(* Abstractions.  A building or amenity is known by what it is to the      *)
(* person (its living, working, eating or dining place), goto arrives in   *)
(* this cycle or does not, and the number of people per building, which    *)
(* initPop computes from areas, is the constant NbPeople.  The grid of the *)
(* city matrix is off (cityMatrix is false and no experiment sets it).     *)
(***************************************************************************)
EXTENDS Integers, FiniteSets

CONSTANTS
    NbPeople,       \* how many people initPop creates
    CyclesPerHour,  \* 360 in the base model
    ResetPeriod,    \* cycles between two calls of initPop (8640 in the code)
    ClockPeriod,    \* cycles after which clock and resets repeat
    WorkStarts, LunchStarts, ReworkStarts, DinnerStarts, WorkEnds
                    \* the ranges min_.. to max_.. of the times of a person

ASSUME PeopleConstants ==
    /\ NbPeople \in Nat \ {0} /\ CyclesPerHour \in Nat \ {0}
    /\ ResetPeriod \in Nat \ {0} /\ ClockPeriod \in Nat \ {0}
    /\ ClockPeriod % ResetPeriod = 0
    /\ ClockPeriod % (24 * CyclesPerHour) = 0
    /\ WorkStarts \subseteq Nat /\ LunchStarts \subseteq Nat
    /\ ReworkStarts \subseteq Nat /\ DinnerStarts \subseteq Nat
    /\ WorkEnds \subseteq Nat

People == 1 .. NbPeople

VARIABLES
    cycle, turn, current_day,
    times,         \* of each person: its five time_to_...
    objective,
    the_target,    \* a place, or "nil"
    curMovingMode,
    place          \* where the person is: a place, or "road"

vars == <<cycle, turn, current_day, times, objective, the_target,
          curMovingMode, place>>

Times == [work : WorkStarts, lunch : LunchStarts, rework : ReworkStarts,
          dinner : DinnerStarts, sleep : WorkEnds]

Objectives == {"resting", "working", "eating", "reworking", "dinning"}
PlacesOf   == {"living", "working", "eating", "dining"}

\* 6 o'clock is the first hour of a day and 29 the last.
current_hour == 6 + ((cycle \div CyclesPerHour) % 24)

-----------------------------------------------------------------------------
(* The world. *)

\* The world after its initialisation, which creates nobody, and the first run
\* of initSim, in cycle 0.
Init ==
    /\ cycle = 0
    /\ turn = [agent |-> 1, reflex |-> "updateTargetAndObjective"]
    /\ current_day = 1
    /\ times \in [People -> Times]
    /\ objective = [p \in People |-> "resting"]
    /\ the_target = [p \in People |-> "nil"]
    /\ curMovingMode = [p \in People |-> "wandering"]
    /\ place = [p \in People |-> "living"]

Turn(agent, reflex) == turn = [agent |-> agent, reflex |-> reflex]

\* The next cycle begins after the last person.
EndTurn(agent) ==
    IF agent < NbPeople
      THEN /\ turn' = [agent |-> agent + 1, reflex |-> "updateTargetAndObjective"]
           /\ UNCHANGED cycle
      ELSE /\ turn' = [agent |-> 0, reflex |-> "initSim"]
           /\ cycle' = (cycle + 1) % ClockPeriod

\* Mutant: people do not die, they get a new day where they are.
InitSimKeepsPeople ==
    /\ Turn(0, "initSim")
    /\ cycle % ResetPeriod = 0
    /\ current_day' = (current_day % 6) + 1
    /\ times' \in [People -> Times]
    /\ objective' = [p \in People |-> "resting"]
    /\ EndTurn(0)
    /\ UNCHANGED <<the_target, curMovingMode, place>>

\* initSim: initPop lets everybody die and createPop makes new people.
InitSim ==
    /\ Turn(0, "initSim")
    /\ cycle % ResetPeriod = 0
    /\ current_day' = (current_day % 6) + 1
    /\ times' \in [People -> Times]
    /\ objective' = [p \in People |-> "resting"]
    /\ the_target' = [p \in People |-> "nil"]
    /\ curMovingMode' = [p \in People |-> "wandering"]
    /\ place' = [p \in People |-> "living"]
    /\ EndTurn(0)

NoReset ==
    /\ Turn(0, "initSim")
    /\ cycle % ResetPeriod # 0
    /\ EndTurn(0)
    /\ UNCHANGED <<current_day, times, objective, the_target, curMovingMode, place>>

-----------------------------------------------------------------------------
(* A person. *)

\* The five rules of updateTargetAndObjective: from, to, the hours between
\* which the rule applies, and where it leads.
Rules(t) ==
    {[from |-> "resting",   to |-> "working",   after |-> t.work,   before |-> t.lunch,  goal |-> "working"],
     [from |-> "working",   to |-> "eating",    after |-> t.lunch,  before |-> t.rework, goal |-> "eating"],
     [from |-> "eating",    to |-> "reworking", after |-> t.rework, before |-> t.dinner, goal |-> "working"],
     [from |-> "reworking", to |-> "dinning",   after |-> t.dinner, before |-> t.sleep,  goal |-> "dining"],
     [from |-> "dinning",   to |-> "resting",   after |-> t.sleep,  before |-> 24,       goal |-> "living"]}

\* Mutant: the hours at both ends of the window belong to it.
AppliesAtBothEnds(r, p) ==
    /\ objective[p] = r.from
    /\ r.after <= current_hour /\ current_hour <= r.before

\* At most one rule applies: the windows of two rules do not meet.
Applies(r, p) ==
    /\ objective[p] = r.from
    /\ r.after < current_hour /\ current_hour < r.before

\* A rule applies: a new objective, its target, and travellingMode.
UpdateTargetAndObjective(p) ==
    /\ Turn(p, "updateTargetAndObjective")
    /\ \E r \in Rules(times[p]) :
          /\ Applies(r, p)
          /\ objective' = [objective EXCEPT ![p] = r.to]
          /\ the_target' = [the_target EXCEPT ![p] = r.goal]
    /\ curMovingMode' = [curMovingMode EXCEPT ![p] = "travelling"]
    /\ turn' = [turn EXCEPT !.reflex = "move"]
    /\ UNCHANGED <<cycle, current_day, times, place>>

KeepObjective(p) ==
    /\ Turn(p, "updateTargetAndObjective")
    /\ \A r \in Rules(times[p]) : ~Applies(r, p)
    /\ turn' = [turn EXCEPT !.reflex = "move"]
    /\ UNCHANGED <<cycle, current_day, times, objective, the_target,
                   curMovingMode, place>>

\* move, when the target is not reached.
MoveOn(p) ==
    /\ Turn(p, "move")
    /\ the_target[p] # "nil"
    /\ place' = [place EXCEPT ![p] = "road"]
    /\ EndTurn(p)
    /\ UNCHANGED <<current_day, times, objective, the_target, curMovingMode>>

\* Mutant: the target is kept.
ArriveKeepsTarget(p) ==
    /\ Turn(p, "move")
    /\ the_target[p] # "nil"
    /\ place' = [place EXCEPT ![p] = the_target[p]]
    /\ curMovingMode' = [curMovingMode EXCEPT ![p] = "wandering"]
    /\ EndTurn(p)
    /\ UNCHANGED <<current_day, times, objective, the_target>>

\* move, when it is reached: the person wanders there from now on.
Arrive(p) ==
    /\ Turn(p, "move")
    /\ the_target[p] # "nil"
    /\ place' = [place EXCEPT ![p] = the_target[p]]
    /\ the_target' = [the_target EXCEPT ![p] = "nil"]
    /\ curMovingMode' = [curMovingMode EXCEPT ![p] = "wandering"]
    /\ EndTurn(p)
    /\ UNCHANGED <<current_day, times, objective>>

\* move without a target.
Wander(p) ==
    /\ Turn(p, "move")
    /\ the_target[p] = "nil"
    /\ EndTurn(p)
    /\ UNCHANGED <<current_day, times, objective, the_target, curMovingMode, place>>

Next ==
    \/ InitSim \/ NoReset
    \/ \E p \in People :
          \/ UpdateTargetAndObjective(p) \/ KeepObjective(p)
          \/ MoveOn(p) \/ Arrive(p) \/ Wander(p)

Spec == Init /\ [][Next]_vars

-----------------------------------------------------------------------------
(* Properties. *)

\* Types, and: a person travels exactly while it has a target.
PeopleTypeOK ==
    /\ cycle \in 0 .. ClockPeriod - 1
    /\ turn \in [agent : {0}, reflex : {"initSim"}]
               \cup [agent : People, reflex : {"updateTargetAndObjective", "move"}]
    /\ current_day \in 1 .. 6
    /\ times \in [People -> Times]
    /\ objective \in [People -> Objectives]
    /\ the_target \in [People -> PlacesOf \cup {"nil"}]
    /\ curMovingMode \in [People -> {"wandering", "travelling"}]
    /\ place \in [People -> PlacesOf \cup {"road"}]
    /\ \A p \in People :
          (curMovingMode[p] = "travelling") <=> (the_target[p] # "nil")

\* Where a person with this objective belongs.
Goal(o) == CASE o = "resting" -> "living"
             [] o \in {"working", "reworking"} -> "working"
             [] o = "eating" -> "eating"
             [] o = "dinning" -> "dining"

\* A person is where its objective says or is going there, also when a new
\* objective comes before the last place is reached, and after initSim.
GoesWhereItShould ==
    \A p \in People : /\ the_target[p] \in {"nil", Goal(objective[p])}
                      /\ the_target[p] = "nil" => place[p] = Goal(objective[p])

\* Resets that come once a day, at its first hour.
ResetsDaily == ResetPeriod = 24 * CyclesPerHour

\* What a person has done when the clock passes midnight.  Both ends of a
\* window are excluded, so that between two hours in succession there is no
\* time: who is to work at 10 and to lunch at 11 never leaves home, who is to
\* lunch at 13 and to work again at 14 stays at work, who is to dine at 20 and
\* to sleep at 21 works on.  Everybody else is back home.  A person whose rule
\* is missed waits for initSim, not for the next day.
DayIsLived ==
    ResetsDaily /\ current_hour >= 24 =>
      \A p \in People : LET t == times[p] IN
        objective[p] =
          IF t.lunch - t.work > 1 /\ t.rework - t.lunch = 1 THEN "working"
          ELSE IF t.lunch - t.work > 1 /\ t.sleep - t.dinner = 1 THEN "reworking"
          ELSE "resting"
=============================================================================
