------------------------------- MODULE GameIT -------------------------------
(***************************************************************************)
(* The traffic game Game_IT.gaml: people follow the activities of their    *)
(* profile, choose a mode for each trip and walk, ride a bike, drive, or   *)
(* wait at a stop for the one bus.                                         *)
(*                                                                         *)
(* GAMA runs one agent at a time: in every cycle the bus, then the people  *)
(* in the order of their creation.  turn says whose reflex runs next (the  *)
(* bus is agent 0).                                                        *)
(*                                                                         *)
(* Abstractions.  Geometry is nondeterministic: goto arrives in this cycle *)
(* or does not.  The mode that the weighted means prefer is any possible   *)
(* one.  location is the bus stop at which a person is, 0 anywhere else,   *)
(* and current_edge is the road a driver is on, 0 for nil; what an earlier *)
(* trip left in current_edge when a drive begins is any road.  Pollution,  *)
(* density, the weights of roads and the usage counters of modes are       *)
(* indicators that no reflex of a person or of the bus reads.  A list of   *)
(* people says how often each of them is on it: their order decides        *)
(* nothing, since what r does to one of them leaves the others alone.      *)
(***************************************************************************)
EXTENDS Integers, FiniteSets, SequencesExt

CONSTANTS
    NbPeople,      \* nb_people (500 in the code)
    NbStops,       \* number of bus stops (6 in the code)
    NbBuildings,   \* buildings are 1 .. NbBuildings, 0 is nil
    NbRoads,       \* roads are 1 .. NbRoads, 0 is nil
    Hours,         \* 24 in the code
    Minutes,       \* 60 in the code; a cycle is a minute
    Rows,          \* the rows of the activity table, one activity per hour
    BuildingsFor,  \* the buildings in which an activity may take place
    Homes,         \* the buildings with usage "R"
    NearestStop,   \* the stop nearest to a building
    HasCar,        \* the people for whom has_car is true
    HasBike        \* the people for whom has_bike is true

People    == 1 .. NbPeople
Stops     == 1 .. NbStops
Buildings == 1 .. NbBuildings
Roads     == 1 .. NbRoads
NoAct     == ""
Lists     == [People -> Nat]
Nobody    == [p \in People |-> 0]

ASSUME GameITConstants ==
    /\ NbPeople \in Nat \ {0} /\ NbStops \in Nat \ {0}
    /\ NbBuildings \in Nat /\ NbRoads \in Nat
    /\ Hours \in Nat \ {0} /\ Minutes \in Nat \ {0}
    /\ Rows # {}
    /\ \A row \in Rows : Len(row) = Hours
    /\ \A row \in Rows : \A j \in DOMAIN row :
          row[j] # NoAct => /\ row[j] \in DOMAIN BuildingsFor
                            /\ BuildingsFor[row[j]] # {}
                            /\ BuildingsFor[row[j]] \subseteq Buildings
    /\ Homes # {} /\ Homes \subseteq Buildings
    /\ NearestStop \in [Buildings -> Stops]
    /\ HasCar \subseteq People /\ HasBike \subseteq People

VARIABLES
    hour, minute,          \* current_date
    turn,
    stops,                 \* of the bus: the stops, the next one first
    my_target,             \* of the bus: a stop, or 0 for nil
    stop_passengers,       \* of the bus: the list of those who leave it at each stop
    waiting_people,        \* of each stop: the list of those who wait at it
    objectives,            \* of each person: its trip_objectives by name
    my_current_objective,  \* the name of an objective, or NoAct for nil
    current_place,         \* a building, or 0 for nil
    mobility_mode,         \* a mode, or "none" for nil
    closest_bus_stop,
    bus_status,            \* 0 on foot to the stop, 1 at it or on the bus, 2 off
    location, current_edge,
    current_concentration  \* of each road

clockVars  == <<hour, minute>>
busVars    == <<stops, my_target, stop_passengers, waiting_people>>
tripVars   == <<my_current_objective, current_place, mobility_mode,
                closest_bus_stop, bus_status, location>>
roadVars   == <<current_edge, current_concentration>>
vars       == <<clockVars, turn, busVars, objectives, tripVars, roadVars>>

Modes      == {"walking", "bike", "car", "bus"}
Objectives == [place : Buildings, starting_hour : 1 .. Hours,
               starting_minute : 0 .. Minutes]

-----------------------------------------------------------------------------
(* The plan of a day. *)

\* activity_data_import: one pass over a row that records the column in which
\* an activity follows a different one.  A name that comes again overwrites
\* its hour.
ActivityDataImport(row) ==
    LET step(acc, j) ==
          IF row[j] = acc.current THEN acc
          ELSE [current |-> row[j],
                map     |-> [a \in DOMAIN acc.map \cup {row[j]} |->
                               IF a = row[j] THEN j ELSE acc.map[a]]]
    IN  FoldLeft(step, [current |-> NoAct, map |-> <<>>],
                 [j \in 1 .. Len(row) |-> j]).map

\* create_trip_objectives and create_activity: a building and a minute for
\* every activity with a name.  rnd(60) may return 60.
TripObjectives(acts) ==
    {f \in [DOMAIN acts \ {NoAct} -> Objectives] :
        \A a \in DOMAIN f : /\ f[a].starting_hour = acts[a]
                            /\ f[a].place \in BuildingsFor[a]}

Init ==
    /\ hour = 0 /\ minute = 0
    /\ turn = [agent |-> 0, reflex |-> "new_target"]
    /\ stops = [i \in Stops |-> i]
    /\ my_target = 0
    /\ stop_passengers = [s \in Stops |-> Nobody]
    /\ waiting_people = [s \in Stops |-> Nobody]
    /\ objectives \in [People -> UNION {TripObjectives(ActivityDataImport(row)) :
                                         row \in Rows}]
    /\ current_place \in [People -> Homes]
    /\ closest_bus_stop \in [People -> Stops]
    /\ my_current_objective = [p \in People |-> NoAct]
    /\ mobility_mode = [p \in People |-> "none"]
    /\ bus_status = [p \in People |-> 0]
    /\ location = [p \in People |-> 0]
    /\ current_edge = [p \in People |-> 0]
    /\ current_concentration = [r \in Roads |-> 0]

-----------------------------------------------------------------------------
(* The scheduler. *)

Turn(agent, reflex) == turn = [agent |-> agent, reflex |-> reflex]

Then(agent, reflex) == /\ turn' = [agent |-> agent, reflex |-> reflex]
                       /\ UNCHANGED clockVars

\* After the last person a new cycle begins, one minute later.
EndTurn(p) ==
    IF p < NbPeople
      THEN Then(p + 1, "choose_objective")
      ELSE /\ turn' = [agent |-> 0, reflex |-> "new_target"]
           /\ minute' = (minute + 1) % Minutes
           /\ hour' = IF minute' = 0 THEN (hour + 1) % Hours ELSE hour

-----------------------------------------------------------------------------
(* The bus. *)

\* Mutant: the stop that is served next stays at the head of the list.
NewTargetSameStop ==
    /\ Turn(0, "new_target")
    /\ my_target' = IF my_target = 0 THEN Head(stops) ELSE my_target
    /\ Then(0, "r")
    /\ UNCHANGED <<stops, stop_passengers, waiting_people, objectives, tripVars,
                   roadVars>>

NewTarget ==
    /\ Turn(0, "new_target")
    /\ IF my_target = 0
         THEN /\ stops' = Append(Tail(stops), Head(stops))
              /\ my_target' = Head(stops)
         ELSE UNCHANGED <<stops, my_target>>
    /\ Then(0, "r")
    /\ UNCHANGED <<stop_passengers, waiting_people, objectives, tripVars, roadVars>>

\* The stop at which p leaves the bus.
Exit(p) == NearestStop[objectives[p][my_current_objective[p]].place]

\* Mutant: whoever boards leaves at the next stop.
BoardingForNextStop(s) ==
    IF s = Head(stops) THEN waiting_people[my_target] ELSE Nobody

\* Those who board and will leave at s.
Boarding(s) ==
    [p \in People |->
       IF waiting_people[my_target][p] > 0 /\ Exit(p) = s
         THEN waiting_people[my_target][p] ELSE 0]

\* r, when the bus has not reached its target.
BusDrives ==
    /\ Turn(0, "r")
    /\ Then(1, "choose_objective")
    /\ UNCHANGED <<busVars, objectives, tripVars, roadVars>>

\* r, when it has: passengers leave, then those who wait board.
BusStops ==
    /\ Turn(0, "r")
    /\ LET off == {p \in People : stop_passengers[my_target][p] > 0}
       IN  /\ location' = [p \in People |->
                             IF p \in off THEN my_target ELSE location[p]]
           /\ bus_status' = [p \in People |->
                               IF p \in off THEN 2 ELSE bus_status[p]]
    /\ stop_passengers' =
          [s \in Stops |-> [p \in People |->
             (IF s = my_target THEN 0 ELSE stop_passengers[s][p]) + Boarding(s)[p]]]
    /\ waiting_people' = [waiting_people EXCEPT ![my_target] = Nobody]
    /\ my_target' = 0
    /\ Then(1, "choose_objective")
    /\ UNCHANGED <<stops, objectives, my_current_objective, current_place,
                   mobility_mode, closest_bus_stop, roadVars>>

-----------------------------------------------------------------------------
(* A person. *)

\* What first_with may return: at most one, since activity_data_import gives a
\* column to one name only.
Due(p) == {a \in DOMAIN objectives[p] :
             /\ objectives[p][a].starting_hour = hour
             /\ minute >= objectives[p][a].starting_minute
             /\ current_place[p] # objectives[p][a].place}

PossibleMobilityModes(p) ==
    {"walking", "bus"} \cup (IF p \in HasCar THEN {"car"} ELSE {})
                       \cup (IF p \in HasBike THEN {"bike"} ELSE {})

\* What an earlier trip may have left in current_edge; only drivers use it.
LeftOver(mode) == IF mode = "car" THEN Roads \cup {0} ELSE {0}

\* choose_mobility_mode: the weighted means prefer any of the possible modes.
ChooseMobilityMode(p, mode) ==
    /\ mode \in PossibleMobilityModes(p)
    /\ mobility_mode' = [mobility_mode EXCEPT ![p] = mode]

\* choose_objective, when an objective is due.
ChooseObjective(p) ==
    /\ Turn(p, "choose_objective")
    /\ my_current_objective[p] = NoAct
    /\ \E a \in Due(p), mode \in Modes :
          /\ my_current_objective' = [my_current_objective EXCEPT ![p] = a]
          /\ ChooseMobilityMode(p, mode)
          /\ \E e \in LeftOver(mode) :
                current_edge' = [current_edge EXCEPT ![p] = e]
    /\ current_place' = [current_place EXCEPT ![p] = 0]
    /\ Then(p, "move")
    /\ UNCHANGED <<busVars, objectives, closest_bus_stop, bus_status, location,
                   current_concentration>>

\* choose_objective, when p is on its way or nothing is due.
KeepObjective(p) ==
    /\ Turn(p, "choose_objective")
    /\ my_current_objective[p] # NoAct \/ Due(p) = {}
    /\ Then(p, "move")
    /\ UNCHANGED <<busVars, objectives, tripVars, roadVars>>

\* Neither move nor move_bus runs or has an effect.
StayPut(p) ==
    /\ Turn(p, "move")
    /\ \/ my_current_objective[p] = NoAct
       \/ mobility_mode[p] = "bus" /\ bus_status[p] = 1
    /\ EndTurn(p)
    /\ UNCHANGED <<busVars, objectives, tripVars, roadVars>>

\* Mutant: the count of a road may fall below zero.
LeaveBelowZero(p) ==
    [r \in Roads |-> IF r = current_edge[p] /\ mobility_mode[p] = "car"
                       THEN current_concentration[r] - 1
                       ELSE current_concentration[r]]

\* The driver p leaves the road it was on.
Leave(p) ==
    [r \in Roads |-> IF r = current_edge[p] /\ mobility_mode[p] = "car"
                       THEN IF current_concentration[r] > 0
                              THEN current_concentration[r] - 1 ELSE 0
                       ELSE current_concentration[r]]

\* move, when p has not arrived: a driver counts on the road it is now on.
MoveOn(p) ==
    /\ Turn(p, "move")
    /\ my_current_objective[p] # NoAct
    /\ mobility_mode[p] # "bus"
    /\ \E e \in IF mobility_mode[p] = "car" THEN Roads \cup {0} ELSE {0} :
          /\ current_edge' = [current_edge EXCEPT ![p] = e]
          /\ current_concentration' =
                [r \in Roads |-> IF r = e THEN Leave(p)[r] + 1 ELSE Leave(p)[r]]
    /\ EndTurn(p)
    /\ UNCHANGED <<busVars, objectives, tripVars>>

\* What ends a trip, by whichever mode.
EndTrip(p) ==
    /\ current_place' =
          [current_place EXCEPT ![p] = objectives[p][my_current_objective[p]].place]
    /\ my_current_objective' = [my_current_objective EXCEPT ![p] = NoAct]
    /\ mobility_mode' = [mobility_mode EXCEPT ![p] = "none"]
    /\ EndTurn(p)

\* Mutant: a driver who arrives still counts on its last road.
ArriveStillCounts(p) ==
    /\ Turn(p, "move")
    /\ my_current_objective[p] # NoAct
    /\ mobility_mode[p] # "bus"
    /\ current_edge' = [current_edge EXCEPT ![p] = 0]
    /\ EndTrip(p)
    /\ UNCHANGED <<busVars, objectives, closest_bus_stop, bus_status, location,
                   current_concentration>>

\* move, when p has arrived.
Arrive(p) ==
    /\ Turn(p, "move")
    /\ my_current_objective[p] # NoAct
    /\ mobility_mode[p] # "bus"
    /\ current_concentration' = Leave(p)
    /\ current_edge' = [current_edge EXCEPT ![p] = 0]
    /\ EndTrip(p)
    /\ UNCHANGED <<busVars, objectives, closest_bus_stop, bus_status, location>>

ByBus(p, status) == /\ Turn(p, "move")
                    /\ my_current_objective[p] # NoAct
                    /\ mobility_mode[p] = "bus"
                    /\ bus_status[p] = status

\* move_bus on the way to or from a stop.
WalkOn(p) ==
    /\ ByBus(p, 0) \/ ByBus(p, 2)
    /\ location' = [location EXCEPT ![p] = 0]
    /\ EndTurn(p)
    /\ UNCHANGED <<busVars, objectives, my_current_objective, current_place,
                   mobility_mode, closest_bus_stop, bus_status, roadVars>>

\* Mutant: bus_status stays 0, so p joins the list again in its next turn.
ReachStopAgain(p) ==
    /\ ByBus(p, 0)
    /\ waiting_people[closest_bus_stop[p]][p] < 2
    /\ waiting_people' =
          [waiting_people EXCEPT ![closest_bus_stop[p]][p] = @ + 1]
    /\ location' = [location EXCEPT ![p] = closest_bus_stop[p]]
    /\ EndTurn(p)
    /\ UNCHANGED <<stops, my_target, stop_passengers, objectives, bus_status,
                   my_current_objective, current_place, mobility_mode,
                   closest_bus_stop, roadVars>>

\* move_bus at the stop: p joins those who wait.
ReachStop(p) ==
    /\ ByBus(p, 0)
    /\ waiting_people' =
          [waiting_people EXCEPT ![closest_bus_stop[p]][p] = @ + 1]
    /\ bus_status' = [bus_status EXCEPT ![p] = 1]
    /\ location' = [location EXCEPT ![p] = closest_bus_stop[p]]
    /\ EndTurn(p)
    /\ UNCHANGED <<stops, my_target, stop_passengers, objectives,
                   my_current_objective, current_place, mobility_mode,
                   closest_bus_stop, roadVars>>

\* move_bus at the destination.
ArriveByBus(p) ==
    /\ ByBus(p, 2)
    /\ closest_bus_stop' = [closest_bus_stop EXCEPT ![p] = Exit(p)]
    /\ bus_status' = [bus_status EXCEPT ![p] = 0]
    /\ location' = [location EXCEPT ![p] = 0]
    /\ EndTrip(p)
    /\ UNCHANGED <<busVars, objectives, roadVars>>

Next ==
    \/ NewTarget \/ BusDrives \/ BusStops
    \/ \E p \in People :
          \/ ChooseObjective(p) \/ KeepObjective(p) \/ StayPut(p)
          \/ MoveOn(p) \/ Arrive(p)
          \/ WalkOn(p) \/ ReachStop(p) \/ ArriveByBus(p)

Spec == Init /\ [][Next]_vars

-----------------------------------------------------------------------------
(* GAMA keeps running cycles.  goto brings an agent nearer to a fixed      *)
(* target in every cycle, so an agent that is on its way arrives in one of *)
(* its turns.                                                              *)
FairSpec ==
    /\ Spec
    /\ WF_vars(Next)
    /\ SF_vars(BusStops)
    /\ \A p \in People : SF_vars(Arrive(p) \/ ReachStop(p) \/ ArriveByBus(p))

-----------------------------------------------------------------------------
(* Properties. *)

\* Types: a road counts no negative number of cars (move), a person has a mode
\* exactly while it has an objective.
TypeOK ==
    /\ hour \in 0 .. Hours - 1 /\ minute \in 0 .. Minutes - 1
    /\ turn \in [agent : {0}, reflex : {"new_target", "r"}]
               \cup [agent : People, reflex : {"choose_objective", "move"}]
    /\ stops \in [Stops -> Stops]
    /\ my_target \in Stops \cup {0}
    /\ Turn(0, "r") => my_target # 0
    /\ stop_passengers \in [Stops -> Lists]
    /\ waiting_people \in [Stops -> Lists]
    /\ \A p \in People :
          /\ objectives[p] \in [DOMAIN objectives[p] -> Objectives]
          /\ my_current_objective[p] \in DOMAIN objectives[p] \cup {NoAct}
          /\ mobility_mode[p] \in Modes \cup {"none"}
          /\ (mobility_mode[p] = "none") <=> (my_current_objective[p] = NoAct)
          /\ (current_place[p] = 0) <=> (my_current_objective[p] # NoAct)
    /\ current_place \in [People -> Buildings \cup {0}]
    /\ closest_bus_stop \in [People -> Stops]
    /\ bus_status \in [People -> 0 .. 2]
    /\ location \in [People -> Stops \cup {0}]
    /\ current_edge \in [People -> Roads \cup {0}]
    /\ current_concentration \in [Roads -> Nat]

\* p is on the lists at one stop only, and there once.
Once(p, lists) ==
    \E s \in Stops : lists[s][p] = 1 /\ \A t \in Stops \ {s} : lists[t][p] = 0

Never(p, lists) == \A s \in Stops : lists[s][p] = 0

\* Between the reflexes of people (which join a stop's list) and of the bus
\* (which moves them to its own lists and lets them off) nobody is lost or
\* listed twice: a person with bus_status 1 is on exactly one list, once, and
\* is making a trip by bus; everybody else is on none.
WaitsOrRidesOnce ==
    \A p \in People :
        /\ IF bus_status[p] = 1
             THEN \/ Once(p, waiting_people) /\ Never(p, stop_passengers)
                  \/ Never(p, waiting_people) /\ Once(p, stop_passengers)
             ELSE Never(p, waiting_people) /\ Never(p, stop_passengers)
        /\ bus_status[p] # 0 => mobility_mode[p] = "bus"

\* The bus lets a person off (r) at the stop nearest to the place to which the
\* person is still going then, even if that is the stop at which it waited.
LetOffAtNearestStop ==
    [][\A p \in People :
          bus_status[p] = 1 /\ bus_status'[p] # 1
             => /\ my_current_objective'[p] \in DOMAIN objectives[p]
                /\ location'[p] = NearestStop[
                      objectives[p][my_current_objective'[p]].place]]_vars

\* A road never counts more cars than are on it (move counts up and down with
\* current_edge, which may be left over from an earlier trip): congestion is
\* not overestimated and does not build up.
NotOvercounted ==
    \A r \in Roads :
        current_concentration[r] <=
           Cardinality({p \in People : mobility_mode[p] = "car" /\ current_edge[p] = r})

\* Every trip ends: the bus comes round to those who wait, carries them to
\* their stop, and whoever is on the way arrives.
TripsEnd ==
    \A p \in People : my_current_objective[p] # NoAct ~> my_current_objective[p] = NoAct
=============================================================================
