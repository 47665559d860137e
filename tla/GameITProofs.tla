---------------------------- MODULE GameITProofs ----------------------------
(***************************************************************************)
(* Proofs about the traffic game, for any number of people, stops, roads   *)
(* and buildings, any activity table, and any length of hours and days.    *)
(***************************************************************************)
EXTENDS GameIT, FiniteSetTheorems, TLAPS

-----------------------------------------------------------------------------
(* The inductive invariant. *)

\* The state of a person in functions of the people, and the trips that a
\* plan has, which are never the trip that nobody makes.
Plans ==
    /\ mobility_mode \in [People -> Modes \cup {"none"}]
    /\ my_current_objective = [p \in People |-> my_current_objective[p]]
    /\ \A p \in People : NoAct \notin DOMAIN objectives[p]

\* What WaitsOrRidesOnce says of p; and who rides leaves the bus at the stop
\* nearest to its objective.
OnOneList(p) ==
    /\ IF bus_status[p] = 1
         THEN \/ Once(p, waiting_people) /\ Never(p, stop_passengers)
              \/ Never(p, waiting_people) /\ Once(p, stop_passengers)
         ELSE Never(p, waiting_people) /\ Never(p, stop_passengers)
    /\ bus_status[p] # 0 => mobility_mode[p] = "bus"
    /\ \A s \in Stops : stop_passengers[s][p] > 0 => Exit(p) = s

Riders == \A p \in People : OnOneList(p)

GameTypes == TypeOK /\ Plans

-----------------------------------------------------------------------------
(* Types. *)

LEMMA EndTurnTypes ==
    ASSUME TypeOK, NEW p \in People, EndTurn(p)
    PROVE  /\ hour' \in 0 .. Hours - 1 /\ minute' \in 0 .. Minutes - 1
           /\ turn' \in [agent : {0}, reflex : {"new_target", "r"}]
                        \cup [agent : People, reflex : {"choose_objective", "move"}]
           /\ ~Turn(0, "r")'
<1>1. p \in 1 .. NbPeople /\ NbPeople \in Nat /\ Hours \in Nat \ {0} /\ Minutes \in Nat \ {0}
  BY GameITConstants DEF People
<1>2. hour \in 0 .. Hours - 1 /\ minute \in 0 .. Minutes - 1
  BY DEF TypeOK
<1>3. CASE p < NbPeople
  <2>1. p + 1 \in People /\ p + 1 # 0
    BY <1>1, <1>3 DEF People
  <2> QED BY <1>2, <1>3, <2>1 DEF EndTurn, Then, Turn, clockVars
<1>4. CASE ~(p < NbPeople)
  <2>1. turn' = [agent |-> 0, reflex |-> "new_target"]
        /\ minute' = (minute + 1) % Minutes
        /\ hour' = IF minute' = 0 THEN (hour + 1) % Hours ELSE hour
    BY <1>4 DEF EndTurn
  <2>2. (minute + 1) % Minutes \in 0 .. Minutes - 1 /\ (hour + 1) % Hours \in 0 .. Hours - 1
    BY <1>1, <1>2
  <2> QED BY <1>2, <2>1, <2>2 DEF Turn
<1> QED BY <1>3, <1>4

\* What a turn that moves on to a person's next reflex leaves.
LEMMA ThenTypes ==
    ASSUME TypeOK, NEW p \in People, NEW reflex \in {"choose_objective", "move"},
           Then(p, reflex)
    PROVE  /\ hour' \in 0 .. Hours - 1 /\ minute' \in 0 .. Minutes - 1
           /\ turn' \in [agent : {0}, reflex : {"new_target", "r"}]
                        \cup [agent : People, reflex : {"choose_objective", "move"}]
           /\ ~Turn(0, "r")'
<1>1. p # 0
  BY GameITConstants DEF People
<1> QED BY <1>1 DEF Then, Turn, clockVars, TypeOK

\* The place and the exit of a person who has an objective.
LEMMA ObjectiveFacts ==
    ASSUME TypeOK, NEW p \in People, my_current_objective[p] # NoAct
    PROVE  /\ my_current_objective[p] \in DOMAIN objectives[p]
           /\ objectives[p][my_current_objective[p]].place \in Buildings
           /\ objectives[p][my_current_objective[p]].place # 0
           /\ Exit(p) \in Stops
<1>1. my_current_objective[p] \in DOMAIN objectives[p]
      /\ objectives[p] \in [DOMAIN objectives[p] -> Objectives]
  BY DEF TypeOK
<1>2. objectives[p][my_current_objective[p]] \in Objectives
  BY <1>1
<1>3. objectives[p][my_current_objective[p]].place \in Buildings
  BY <1>2 DEF Objectives
<1>4. NearestStop \in [Buildings -> Stops] /\ 0 \notin Buildings
  BY GameITConstants DEF Buildings
<1> QED BY <1>1, <1>3, <1>4 DEF Exit

LEMMA InitTypes == Init => GameTypes
<1> SUFFICES ASSUME Init PROVE GameTypes
  OBVIOUS
<1>1. NbPeople \in Nat \ {0} /\ NbStops \in Nat \ {0} /\ Hours \in Nat \ {0} /\ Minutes \in Nat \ {0}
      /\ NbBuildings \in Nat /\ Homes \subseteq Buildings
  BY GameITConstants
<1>2. \A p \in People : /\ objectives[p] \in [DOMAIN objectives[p] -> Objectives]
                        /\ NoAct \notin DOMAIN objectives[p]
  <2> SUFFICES ASSUME NEW p \in People
               PROVE  /\ objectives[p] \in [DOMAIN objectives[p] -> Objectives]
                      /\ NoAct \notin DOMAIN objectives[p]
    OBVIOUS
  <2>1. objectives[p] \in UNION {TripObjectives(ActivityDataImport(row)) : row \in Rows}
    BY DEF Init
  <2>2. PICK row \in Rows : objectives[p] \in TripObjectives(ActivityDataImport(row))
    BY <2>1
  <2>3. objectives[p] \in [DOMAIN ActivityDataImport(row) \ {NoAct} -> Objectives]
    BY <2>2 DEF TripObjectives
  <2> QED BY <2>3
<1>3. hour \in 0 .. Hours - 1 /\ minute \in 0 .. Minutes - 1
  BY <1>1 DEF Init
<1>4. stops \in [Stops -> Stops] /\ my_target \in Stops \cup {0} /\ ~Turn(0, "r")
      /\ turn \in [agent : {0}, reflex : {"new_target", "r"}]
  BY DEF Init, Turn
<1>5. stop_passengers \in [Stops -> Lists] /\ waiting_people \in [Stops -> Lists]
  BY DEF Init, Nobody, Lists
<1>6. /\ current_place \in [People -> Buildings] /\ closest_bus_stop \in [People -> Stops]
      /\ bus_status \in [People -> 0 .. 2] /\ location \in [People -> Stops \cup {0}]
      /\ current_edge \in [People -> Roads \cup {0}]
      /\ current_concentration \in [Roads -> Nat]
  BY <1>1 DEF Init
<1>7. 0 \notin Buildings
  BY <1>1 DEF Buildings
<1>8. mobility_mode \in [People -> Modes \cup {"none"}]
      /\ my_current_objective = [p \in People |-> my_current_objective[p]]
      /\ \A p \in People : mobility_mode[p] = "none" /\ my_current_objective[p] = NoAct
  BY DEF Init
<1>9. \A p \in People : current_place[p] # 0
  BY <1>6, <1>7
<1> QED BY <1>2, <1>3, <1>4, <1>5, <1>6, <1>8, <1>9 DEF GameTypes, TypeOK, Plans

\* What no action but choosing an objective and ending a trip disturbs.
LEMMA SameTrips ==
    ASSUME GameTypes, UNCHANGED <<objectives, my_current_objective, current_place,
                                  mobility_mode>>
    PROVE  /\ Plans'
           /\ \A p \in People :
                /\ objectives'[p] \in [DOMAIN objectives'[p] -> Objectives]
                /\ my_current_objective'[p] \in DOMAIN objectives'[p] \cup {NoAct}
                /\ mobility_mode'[p] \in Modes \cup {"none"}
                /\ (mobility_mode'[p] = "none") <=> (my_current_objective'[p] = NoAct)
                /\ (current_place'[p] = 0) <=> (my_current_objective'[p] # NoAct)
           /\ current_place' \in [People -> Buildings \cup {0}]
BY DEF GameTypes, TypeOK, Plans

\* Ending a trip keeps its variables well typed.
LEMMA EndTripTypes ==
    ASSUME GameTypes, NEW p \in People, my_current_objective[p] # NoAct, EndTrip(p),
           objectives' = objectives
    PROVE  /\ Plans'
           /\ \A q \in People :
                /\ objectives'[q] \in [DOMAIN objectives'[q] -> Objectives]
                /\ my_current_objective'[q] \in DOMAIN objectives'[q] \cup {NoAct}
                /\ mobility_mode'[q] \in Modes \cup {"none"}
                /\ (mobility_mode'[q] = "none") <=> (my_current_objective'[q] = NoAct)
                /\ (current_place'[q] = 0) <=> (my_current_objective'[q] # NoAct)
           /\ current_place' \in [People -> Buildings \cup {0}]
<1>1. TypeOK /\ Plans
  BY DEF GameTypes
<1> DEFINE place == objectives[p][my_current_objective[p]].place
<1>2. place \in Buildings /\ place # 0
  BY <1>1, ObjectiveFacts
<1>3. /\ current_place' = [current_place EXCEPT ![p] = place]
      /\ my_current_objective' = [my_current_objective EXCEPT ![p] = NoAct]
      /\ mobility_mode' = [mobility_mode EXCEPT ![p] = "none"]
  BY DEF EndTrip
<1> HIDE DEF place
<1>4. Plans'
  BY <1>1, <1>3 DEF Plans
<1>5. current_place' \in [People -> Buildings \cup {0}]
  BY <1>1, <1>2, <1>3 DEF TypeOK
<1>6. \A q \in People \ {p} : /\ my_current_objective'[q] = my_current_objective[q]
                              /\ mobility_mode'[q] = mobility_mode[q]
                              /\ current_place'[q] = current_place[q]
  BY <1>1, <1>3 DEF Plans, TypeOK
<1>7. my_current_objective'[p] = NoAct /\ mobility_mode'[p] = "none" /\ current_place'[p] = place
  BY <1>1, <1>3 DEF Plans, TypeOK
<1> QED BY <1>1, <1>2, <1>4, <1>5, <1>6, <1>7 DEF TypeOK

\* The counts of the roads, when a driver leaves one.
LEMMA LeaveFacts ==
    ASSUME TypeOK, NEW p \in People
    PROVE  Leave(p) \in [Roads -> Nat]
BY DEF TypeOK, Leave

\* Going on to the next reflex or agent, and keeping plans, trips and bus.
LEMMA GameTypesStep == GameTypes /\ [Next]_vars => GameTypes'
<1> SUFFICES ASSUME GameTypes, [Next]_vars PROVE GameTypes'
  OBVIOUS
<1>1. TypeOK /\ Plans
  BY DEF GameTypes
<1>2. CASE UNCHANGED vars
  BY <1>1, <1>2 DEF GameTypes, TypeOK, Plans, Turn, vars, clockVars, busVars, tripVars, roadVars
\* The stops rotate.
<1>3. CASE NewTarget
  <2>1. Then(0, "r") /\ UNCHANGED <<stop_passengers, waiting_people, objectives, tripVars, roadVars>>
    BY <1>3 DEF NewTarget
  <2>2. stops' \in [Stops -> Stops] /\ my_target' \in Stops
    <3>1. CASE my_target # 0
      BY <1>1, <1>3, <3>1 DEF NewTarget, TypeOK
    <3>2. CASE my_target = 0
      <4> DEFINE S == Stops
      <4>1. stops \in Seq(S) /\ Len(stops) = NbStops /\ NbStops \in Nat \ {0}
        <5>1. stops \in [1 .. NbStops -> S] /\ NbStops \in Nat \ {0}
          BY <1>1, GameITConstants DEF TypeOK, Stops
        <5> HIDE DEF S
        <5> QED BY <5>1
      <4> HIDE DEF S
      <4>2. Head(stops) \in S /\ Tail(stops) \in Seq(S) /\ Len(Tail(stops)) = NbStops - 1
        BY <4>1
      <4>3. Append(Tail(stops), Head(stops)) \in Seq(S)
            /\ Len(Append(Tail(stops), Head(stops))) = NbStops
        BY <4>1, <4>2
      <4>4. Append(Tail(stops), Head(stops)) \in [1 .. NbStops -> S]
        <5> DEFINE t == Append(Tail(stops), Head(stops))
        <5>1. t \in Seq(S) /\ Len(t) = NbStops
          BY <4>3
        <5> HIDE DEF t
        <5>2. t \in [1 .. Len(t) -> S]
          BY <5>1
        <5> QED BY <5>1, <5>2 DEF t
      <4> QED BY <1>3, <3>2, <4>2, <4>4 DEF NewTarget, S, Stops
    <3> QED BY <3>1, <3>2
  <2>3. 0 \notin Stops
    BY GameITConstants DEF Stops
  <2>4. TypeOK'
    BY <1>1, <2>1, <2>2, <2>3, SameTrips DEF TypeOK, Then, clockVars, tripVars, roadVars
  <2> QED BY <1>1, <2>1, <2>4, SameTrips DEF GameTypes, tripVars
<1>4. CASE BusDrives
  <2>1. 1 \in People
    BY GameITConstants DEF People
  <2>2. /\ Then(1, "choose_objective")
        /\ UNCHANGED <<busVars, objectives, tripVars, roadVars>>
    BY <1>4 DEF BusDrives
  <2>3. TypeOK'
    BY <1>1, <2>1, <2>2, SameTrips, ThenTypes DEF TypeOK, busVars, tripVars, roadVars
  <2> QED BY <2>2, <2>3, SameTrips DEF GameTypes, tripVars
<1>5. CASE BusStops
  <2>1. 1 \in People
    BY GameITConstants DEF People
  <2>2. Then(1, "choose_objective") /\ my_target \in Stops /\ my_target' = 0
        /\ UNCHANGED <<stops, objectives, my_current_objective, current_place,
                       mobility_mode, closest_bus_stop, roadVars>>
    BY <1>1, <1>5 DEF BusStops, TypeOK
  <2>3. location' \in [People -> Stops \cup {0}] /\ bus_status' \in [People -> 0 .. 2]
    <3>1. location \in [People -> Stops \cup {0}] /\ bus_status \in [People -> 0 .. 2]
      BY <1>1 DEF TypeOK
    <3> QED BY <1>5, <2>2, <3>1 DEF BusStops
  <2>4. waiting_people' \in [Stops -> Lists]
    BY <1>1, <1>5, <2>2 DEF BusStops, TypeOK, Nobody, Lists
  <2>5. stop_passengers' \in [Stops -> Lists]
    <3>1. \A s \in Stops, p \in People : stop_passengers[s][p] \in Nat /\ Boarding(s)[p] \in Nat
      BY <1>1, <2>2 DEF TypeOK, Lists, Boarding
    <3>2. \A s \in Stops, p \in People :
             (IF s = my_target THEN 0 ELSE stop_passengers[s][p]) + Boarding(s)[p] \in Nat
      BY <3>1
    <3> QED BY <1>5, <3>2 DEF BusStops, Lists
  <2>6. TypeOK'
    BY <1>1, <2>1, <2>2, <2>3, <2>4, <2>5, SameTrips, ThenTypes DEF TypeOK, roadVars
  <2> QED BY <2>2, <2>6, SameTrips DEF GameTypes
<1>6. ASSUME NEW p \in People, ChooseObjective(p) PROVE GameTypes'
  <2>1. PICK a \in Due(p), mode \in Modes :
           /\ my_current_objective' = [my_current_objective EXCEPT ![p] = a]
           /\ mobility_mode' = [mobility_mode EXCEPT ![p] = mode]
           /\ \E e \in LeftOver(mode) : current_edge' = [current_edge EXCEPT ![p] = e]
    BY <1>6 DEF ChooseObjective, ChooseMobilityMode
  <2>2. a \in DOMAIN objectives[p] /\ a # NoAct /\ mode # "none" /\ mode \in Modes
    BY <1>1, <2>1 DEF Due, Plans, Modes
  <2>3. Then(p, "move") /\ current_place' = [current_place EXCEPT ![p] = 0]
        /\ UNCHANGED <<busVars, objectives, closest_bus_stop, bus_status, location,
                       current_concentration>>
    BY <1>6 DEF ChooseObjective
  <2>4. current_edge' \in [People -> Roads \cup {0}]
    BY <1>1, <2>1 DEF TypeOK, LeftOver
  <2>5. Plans'
    BY <1>1, <2>1, <2>3 DEF Plans
  <2>6. current_place' \in [People -> Buildings \cup {0}]
    BY <1>1, <2>3 DEF TypeOK
  <2>7. \A q \in People \ {p} : /\ my_current_objective'[q] = my_current_objective[q]
                                /\ mobility_mode'[q] = mobility_mode[q]
                                /\ current_place'[q] = current_place[q]
    BY <1>1, <2>1, <2>3 DEF Plans, TypeOK
  <2>8. my_current_objective'[p] = a /\ mobility_mode'[p] = mode /\ current_place'[p] = 0
    BY <1>1, <2>1, <2>3 DEF Plans, TypeOK
  <2>9. \A q \in People :
                /\ objectives'[q] \in [DOMAIN objectives'[q] -> Objectives]
                /\ my_current_objective'[q] \in DOMAIN objectives'[q] \cup {NoAct}
                /\ mobility_mode'[q] \in Modes \cup {"none"}
                /\ (mobility_mode'[q] = "none") <=> (my_current_objective'[q] = NoAct)
                /\ (current_place'[q] = 0) <=> (my_current_objective'[q] # NoAct)
    BY <1>1, <2>2, <2>3, <2>7, <2>8 DEF TypeOK
  <2>10. TypeOK'
    BY <1>1, <2>3, <2>4, <2>6, <2>9, ThenTypes DEF TypeOK, busVars
  <2> QED BY <2>5, <2>10 DEF GameTypes
<1>7. ASSUME NEW p \in People, KeepObjective(p) PROVE GameTypes'
  <2>1. Then(p, "move") /\ UNCHANGED <<busVars, objectives, tripVars, roadVars>>
    BY <1>7 DEF KeepObjective
  <2>2. TypeOK'
    BY <1>1, <2>1, SameTrips, ThenTypes DEF TypeOK, busVars, tripVars, roadVars
  <2> QED BY <2>1, <2>2, SameTrips DEF GameTypes, tripVars
<1>8. ASSUME NEW p \in People, StayPut(p) PROVE GameTypes'
  <2>1. EndTurn(p) /\ UNCHANGED <<busVars, objectives, tripVars, roadVars>>
    BY <1>8 DEF StayPut
  <2>2. TypeOK'
    BY <1>1, <2>1, SameTrips, EndTurnTypes DEF TypeOK, busVars, tripVars, roadVars
  <2> QED BY <2>1, <2>2, SameTrips DEF GameTypes, tripVars
<1>9. ASSUME NEW p \in People, MoveOn(p) PROVE GameTypes'
  <2>1. EndTurn(p) /\ UNCHANGED <<busVars, objectives, tripVars>>
    BY <1>9 DEF MoveOn
  <2>2. current_edge' \in [People -> Roads \cup {0}] /\ current_concentration' \in [Roads -> Nat]
    <3>1. PICK e \in Roads \cup {0} :
            /\ current_edge' = [current_edge EXCEPT ![p] = e]
            /\ current_concentration' =
                [r \in Roads |-> IF r = e THEN Leave(p)[r] + 1 ELSE Leave(p)[r]]
      BY <1>9 DEF MoveOn
    <3>2. Leave(p) \in [Roads -> Nat]
      BY <1>1, LeaveFacts
    <3> QED BY <1>1, <3>1, <3>2 DEF TypeOK
  <2>3. TypeOK'
    BY <1>1, <2>1, <2>2, SameTrips, EndTurnTypes DEF TypeOK, busVars, tripVars
  <2> QED BY <2>1, <2>3, SameTrips DEF GameTypes, tripVars
<1>10. ASSUME NEW p \in People, Arrive(p) PROVE GameTypes'
  <2>1. /\ my_current_objective[p] # NoAct /\ EndTrip(p) /\ EndTurn(p)
        /\ current_concentration' = Leave(p)
        /\ current_edge' = [current_edge EXCEPT ![p] = 0]
        /\ UNCHANGED <<busVars, objectives, closest_bus_stop, bus_status, location>>
    BY <1>10 DEF Arrive, EndTrip
  <2>2. current_edge' \in [People -> Roads \cup {0}] /\ current_concentration' \in [Roads -> Nat]
    BY <1>1, <2>1, LeaveFacts DEF TypeOK
  <2>3. TypeOK'
    BY <1>1, <2>1, <2>2, EndTripTypes, EndTurnTypes DEF TypeOK, busVars
  <2> QED BY <2>1, <2>3, EndTripTypes DEF GameTypes
<1>11. ASSUME NEW p \in People, WalkOn(p) PROVE GameTypes'
  <2>1. EndTurn(p) /\ location' = [location EXCEPT ![p] = 0]
        /\ UNCHANGED <<busVars, objectives, my_current_objective, current_place,
                       mobility_mode, closest_bus_stop, bus_status, roadVars>>
    BY <1>11 DEF WalkOn
  <2>2. location' \in [People -> Stops \cup {0}]
    BY <1>1, <2>1 DEF TypeOK
  <2>3. TypeOK'
    BY <1>1, <2>1, <2>2, SameTrips, EndTurnTypes DEF TypeOK, busVars, roadVars
  <2> QED BY <2>1, <2>3, SameTrips DEF GameTypes
<1>12. ASSUME NEW p \in People, ReachStop(p) PROVE GameTypes'
  <2>1. /\ EndTurn(p) /\ location' = [location EXCEPT ![p] = closest_bus_stop[p]]
        /\ bus_status' = [bus_status EXCEPT ![p] = 1]
        /\ waiting_people' = [waiting_people EXCEPT ![closest_bus_stop[p]][p] = @ + 1]
        /\ UNCHANGED <<stops, my_target, stop_passengers, objectives,
                       my_current_objective, current_place, mobility_mode,
                       closest_bus_stop, roadVars>>
    BY <1>12 DEF ReachStop
  <2>2. closest_bus_stop[p] \in Stops
    BY <1>1 DEF TypeOK
  <2>3. location' \in [People -> Stops \cup {0}] /\ bus_status' \in [People -> 0 .. 2]
    BY <1>1, <2>1, <2>2 DEF TypeOK
  <2>4. waiting_people' \in [Stops -> Lists]
    BY <1>1, <2>1, <2>2 DEF TypeOK, Lists
  <2>5. TypeOK'
    BY <1>1, <2>1, <2>3, <2>4, SameTrips, EndTurnTypes DEF TypeOK, roadVars
  <2> QED BY <2>1, <2>5, SameTrips DEF GameTypes
<1>13. ASSUME NEW p \in People, ArriveByBus(p) PROVE GameTypes'
  <2>1. /\ my_current_objective[p] # NoAct /\ EndTrip(p) /\ EndTurn(p)
        /\ closest_bus_stop' = [closest_bus_stop EXCEPT ![p] = Exit(p)]
        /\ bus_status' = [bus_status EXCEPT ![p] = 0]
        /\ location' = [location EXCEPT ![p] = 0]
        /\ UNCHANGED <<busVars, objectives, roadVars>>
    BY <1>13 DEF ArriveByBus, ByBus, EndTrip
  <2>2. Exit(p) \in Stops
    BY <1>1, <2>1, ObjectiveFacts
  <2>3. /\ closest_bus_stop' \in [People -> Stops] /\ bus_status' \in [People -> 0 .. 2]
        /\ location' \in [People -> Stops \cup {0}]
    BY <1>1, <2>1, <2>2 DEF TypeOK
  <2>4. TypeOK'
    BY <1>1, <2>1, <2>3, EndTripTypes, EndTurnTypes DEF TypeOK, busVars, roadVars
  <2> QED BY <2>1, <2>4, EndTripTypes DEF GameTypes
<1> QED BY <1>2, <1>3, <1>4, <1>5, <1>6, <1>7, <1>8, <1>9, <1>10, <1>11, <1>12, <1>13 DEF Next

\* Types are kept (the reflexes of Game_IT.gaml): the bus has a target
\* whenever it drives to it, a road never counts a negative number of cars,
\* and a person has a mode exactly while it has an objective and no place.
THEOREM GameTypeCorrect == Spec => []TypeOK
<1>1. GameTypes => TypeOK
  BY DEF GameTypes
<1> QED BY <1>1, InitTypes, GameTypesStep, PTL DEF Spec

-----------------------------------------------------------------------------
(* Waiting and riding. *)

\* Nothing changes for p.
LEMMA SameLists ==
    ASSUME NEW p \in People, OnOneList(p), objectives' = objectives,
           my_current_objective'[p] = my_current_objective[p],
           mobility_mode'[p] = mobility_mode[p], bus_status'[p] = bus_status[p],
           \A s \in Stops : /\ waiting_people'[s][p] = waiting_people[s][p]
                            /\ stop_passengers'[s][p] = stop_passengers[s][p]
    PROVE  OnOneList(p)'
BY DEF OnOneList, Once, Never, Exit

\* p is on no list, before and after the step.
LEMMA StaysOff ==
    ASSUME NEW p \in People, OnOneList(p), bus_status[p] # 1,
           waiting_people' = waiting_people, stop_passengers' = stop_passengers,
           bus_status'[p] # 1, bus_status'[p] # 0 => mobility_mode'[p] = "bus"
    PROVE  OnOneList(p)'
BY DEF OnOneList, Once, Never

LEMMA InitRiders == Init => Riders
<1> SUFFICES ASSUME Init, NEW p \in People PROVE OnOneList(p)
  BY DEF Riders
<1>1. bus_status[p] = 0 /\ \A s \in Stops : waiting_people[s][p] = 0 /\ stop_passengers[s][p] = 0
  BY DEF Init, Nobody
<1> QED BY <1>1 DEF OnOneList, Never

\* The bus at its target: those whose exit it is leave, those who wait board.
LEMMA BusStopsRiders ==
    ASSUME GameTypes, Riders, BusStops, NEW p \in People
    PROVE  OnOneList(p)'
<1>1. TypeOK /\ OnOneList(p) /\ my_target \in Stops
  BY DEF GameTypes, Riders, BusStops, TypeOK
<1>2. \A s \in Stops : waiting_people[s][p] \in Nat /\ stop_passengers[s][p] \in Nat
  BY <1>1 DEF TypeOK, Lists
<1>3. bus_status'[p] = IF stop_passengers[my_target][p] > 0 THEN 2 ELSE bus_status[p]
  BY DEF BusStops
<1>4. \A s \in Stops :
         stop_passengers'[s][p] = (IF s = my_target THEN 0 ELSE stop_passengers[s][p])
             + (IF waiting_people[my_target][p] > 0 /\ Exit(p) = s
                  THEN waiting_people[my_target][p] ELSE 0)
  BY DEF BusStops, Boarding
<1>5. \A s \in Stops :
         waiting_people'[s][p] = IF s = my_target THEN 0 ELSE waiting_people[s][p]
  BY <1>1 DEF BusStops, TypeOK, Nobody
<1>6. UNCHANGED <<objectives, my_current_objective, mobility_mode>>
  BY DEF BusStops
<1>7. Exit(p)' = Exit(p)
  BY <1>6 DEF Exit
\* p is on no list.
<1>8. CASE bus_status[p] # 1
  <2>1. \A s \in Stops : waiting_people[s][p] = 0 /\ stop_passengers[s][p] = 0
    BY <1>1, <1>8 DEF OnOneList, Never
  <2>2. \A s \in Stops : waiting_people'[s][p] = 0 /\ stop_passengers'[s][p] = 0
    BY <1>1, <1>4, <1>5, <2>1
  <2>3. bus_status'[p] = bus_status[p]
    BY <1>1, <1>3, <2>1
  <2> QED BY <1>1, <1>6, <2>1, <2>2, <2>3, SameLists
\* p waits: at the target it boards.
<1>9. CASE bus_status[p] = 1 /\ Once(p, waiting_people) /\ Never(p, stop_passengers)
  <2>1. PICK s \in Stops : waiting_people[s][p] = 1 /\ \A t \in Stops \ {s} : waiting_people[t][p] = 0
    BY <1>9 DEF Once
  <2>2. \A t \in Stops : stop_passengers[t][p] = 0
    BY <1>9 DEF Never
  <2>3. bus_status'[p] = 1
    BY <1>1, <1>3, <1>9, <2>2
  <2>4. CASE s # my_target
    <3>1. waiting_people[my_target][p] = 0
      BY <1>1, <2>1, <2>4
    <3>2. \A t \in Stops : waiting_people'[t][p] = waiting_people[t][p]
                           /\ stop_passengers'[t][p] = stop_passengers[t][p]
      BY <1>1, <1>2, <1>4, <1>5, <2>2, <3>1
    <3> QED BY <1>1, <1>6, <1>9, <2>3, <3>2, SameLists
  <2>5. CASE s = my_target
    <3>1. \A t \in Stops : waiting_people'[t][p] = 0
      BY <1>5, <2>1, <2>5
    <3>2. \A t \in Stops : stop_passengers'[t][p] = IF Exit(p) = t THEN 1 ELSE 0
      BY <1>4, <2>1, <2>2, <2>5
    <3>3. Exit(p) \in Stops /\ mobility_mode[p] = "bus"
      <4>1. mobility_mode[p] = "bus"
        BY <1>1, <1>9 DEF OnOneList
      <4>2. my_current_objective[p] # NoAct
        BY <1>1, <4>1 DEF TypeOK
      <4> QED BY <1>1, <4>1, <4>2, ObjectiveFacts
    <3>4. Once(p, stop_passengers)' /\ Never(p, waiting_people)'
      BY <3>1, <3>2, <3>3 DEF Once, Never
    <3>5. \A t \in Stops : stop_passengers'[t][p] > 0 => Exit(p)' = t
      BY <1>7, <3>2
    <3> QED BY <1>6, <2>3, <3>3, <3>4, <3>5 DEF OnOneList
  <2> QED BY <2>4, <2>5
\* p rides: at the target it leaves.
<1>10. CASE bus_status[p] = 1 /\ Never(p, waiting_people) /\ Once(p, stop_passengers)
  <2>1. PICK s \in Stops : stop_passengers[s][p] = 1 /\ \A t \in Stops \ {s} : stop_passengers[t][p] = 0
    BY <1>10 DEF Once
  <2>2. \A t \in Stops : waiting_people[t][p] = 0
    BY <1>10 DEF Never
  <2>3. CASE s # my_target
    <3>1. stop_passengers[my_target][p] = 0
      BY <1>1, <2>1, <2>3
    <3>2. \A t \in Stops : waiting_people'[t][p] = waiting_people[t][p]
                           /\ stop_passengers'[t][p] = stop_passengers[t][p]
      BY <1>1, <1>2, <1>4, <1>5, <2>2, <3>1
    <3>3. bus_status'[p] = bus_status[p]
      BY <1>3, <3>1
    <3> QED BY <1>1, <1>6, <3>2, <3>3, SameLists
  <2>4. CASE s = my_target
    <3>1. \A t \in Stops : waiting_people'[t][p] = 0 /\ stop_passengers'[t][p] = 0
      BY <1>1, <1>4, <1>5, <2>1, <2>2, <2>4
    <3>2. bus_status'[p] = 2
      BY <1>3, <2>1, <2>4
    <3>3. mobility_mode'[p] = "bus"
      BY <1>1, <1>6, <1>10 DEF OnOneList
    <3> QED BY <3>1, <3>2, <3>3 DEF OnOneList, Never
  <2> QED BY <2>3, <2>4
<1> QED BY <1>1, <1>8, <1>9, <1>10 DEF OnOneList

LEMMA RidersStep == GameTypes /\ Riders /\ [Next]_vars => Riders'
<1> SUFFICES ASSUME GameTypes, Riders, [Next]_vars, NEW q \in People PROVE OnOneList(q)'
  BY DEF Riders
<1>1. TypeOK /\ Plans /\ OnOneList(q)
  BY DEF GameTypes, Riders
<1>2. ASSUME UNCHANGED <<stop_passengers, waiting_people, objectives, my_current_objective,
                         mobility_mode, bus_status>>
      PROVE  OnOneList(q)'
  BY <1>1, <1>2, SameLists
<1>3. CASE UNCHANGED vars \/ NewTarget \/ BusDrives
  BY <1>2, <1>3 DEF NewTarget, BusDrives, vars, busVars, tripVars
<1>4. CASE BusStops
  BY <1>4, BusStopsRiders
<1>5. ASSUME NEW p \in People, KeepObjective(p) \/ StayPut(p) \/ MoveOn(p) \/ WalkOn(p)
      PROVE  OnOneList(q)'
  BY <1>2, <1>5 DEF KeepObjective, StayPut, MoveOn, WalkOn, busVars, tripVars
\* Who has no objective is on no list, and so is who makes a trip by another mode.
<1>6. ASSUME NEW p \in People, ChooseObjective(p) \/ Arrive(p) PROVE OnOneList(q)'
  <2>1. mobility_mode[p] # "bus"
    BY <1>1, <1>6 DEF ChooseObjective, Arrive, TypeOK
  <2>2. UNCHANGED <<stop_passengers, waiting_people, objectives, bus_status>>
    BY <1>6 DEF ChooseObjective, Arrive, busVars
  <2>3. CASE q = p
    <3>1. bus_status[q] = 0
      BY <1>1, <2>1, <2>3 DEF OnOneList
    <3> QED BY <1>1, <2>2, <3>1, StaysOff
  <2>4. CASE q # p
    <3>1. my_current_objective'[q] = my_current_objective[q] /\ mobility_mode'[q] = mobility_mode[q]
      BY <1>1, <1>6, <2>4 DEF ChooseObjective, ChooseMobilityMode, Arrive, EndTrip, Plans
    <3> QED BY <1>1, <2>2, <3>1, SameLists
  <2> QED BY <2>3, <2>4
<1>7. ASSUME NEW p \in People, ReachStop(p) PROVE OnOneList(q)'
  <2> DEFINE c == closest_bus_stop[p]
  <2>1. /\ mobility_mode[p] = "bus" /\ bus_status[p] = 0 /\ c \in Stops
        /\ waiting_people' = [waiting_people EXCEPT ![c][p] = @ + 1]
        /\ bus_status' = [bus_status EXCEPT ![p] = 1]
        /\ UNCHANGED <<stop_passengers, objectives, my_current_objective, mobility_mode>>
    BY <1>1, <1>7 DEF ReachStop, ByBus, TypeOK
  <2> HIDE DEF c
  <2>2. \A s \in Stops : waiting_people'[s][q] =
            IF s = c /\ q = p THEN waiting_people[s][q] + 1 ELSE waiting_people[s][q]
    BY <1>1, <2>1 DEF TypeOK, Lists
  <2>3. bus_status'[q] = IF q = p THEN 1 ELSE bus_status[q]
    BY <1>1, <2>1 DEF TypeOK
  <2>4. CASE q # p
    BY <1>1, <2>1, <2>2, <2>3, <2>4, SameLists
  <2>5. CASE q = p
    <3>1. Never(q, waiting_people) /\ Never(q, stop_passengers)
      BY <1>1, <2>1, <2>5 DEF OnOneList
    <3>2. Once(q, waiting_people)' /\ Never(q, stop_passengers)'
      BY <2>1, <2>2, <2>5, <3>1 DEF Once, Never
    <3> QED BY <2>1, <2>3, <2>5, <3>1, <3>2 DEF OnOneList, Never
  <2> QED BY <2>4, <2>5
<1>8. ASSUME NEW p \in People, ArriveByBus(p) PROVE OnOneList(q)'
  <2>1. /\ bus_status[p] = 2 /\ bus_status' = [bus_status EXCEPT ![p] = 0] /\ EndTrip(p)
        /\ UNCHANGED <<stop_passengers, waiting_people, objectives>>
    BY <1>8 DEF ArriveByBus, ByBus, busVars
  <2>2. bus_status'[q] = IF q = p THEN 0 ELSE bus_status[q]
    BY <1>1, <2>1 DEF TypeOK
  <2>3. CASE q = p
    BY <1>1, <2>1, <2>2, <2>3, StaysOff
  <2>4. CASE q # p
    <3>1. my_current_objective'[q] = my_current_objective[q] /\ mobility_mode'[q] = mobility_mode[q]
      BY <1>1, <2>1, <2>4 DEF EndTrip, Plans
    <3> QED BY <1>1, <2>1, <2>2, <2>4, <3>1, SameLists
  <2> QED BY <2>3, <2>4
<1> QED BY <1>3, <1>4, <1>5, <1>6, <1>7, <1>8 DEF Next

\* Nobody is lost or listed twice between a stop and the bus (r, move_bus).
THEOREM NobodyLost == Spec => []WaitsOrRidesOnce
<1>1. Riders => WaitsOrRidesOnce
  BY DEF Riders, OnOneList, WaitsOrRidesOnce
<1>2. GameTypes /\ Riders /\ [Next]_vars => GameTypes' /\ Riders'
  BY GameTypesStep, RidersStep
<1> QED BY <1>1, <1>2, InitTypes, InitRiders, PTL DEF Spec

\* Only the bus ends the waiting and riding of p, at the exit that p has then.
LEMMA LeavesAtExit ==
    ASSUME GameTypes, Riders, [Next]_vars, NEW p \in People,
           bus_status[p] = 1, bus_status'[p] # 1
    PROVE  /\ my_current_objective'[p] \in DOMAIN objectives[p]
           /\ location'[p] = NearestStop[objectives[p][my_current_objective'[p]].place]
<1>1. TypeOK /\ Plans /\ OnOneList(p)
  BY DEF GameTypes, Riders
<1>2. CASE BusStops
  <2>1. my_target \in Stops /\ my_current_objective' = my_current_objective
    BY <1>1, <1>2 DEF BusStops, TypeOK
  <2>2. stop_passengers[my_target][p] > 0 /\ location'[p] = my_target
    BY <1>2 DEF BusStops
  <2>3. Exit(p) = my_target
    BY <1>1, <2>1, <2>2 DEF OnOneList
  <2>4. my_current_objective[p] # NoAct
    BY <1>1 DEF OnOneList, TypeOK
  <2>5. my_current_objective[p] \in DOMAIN objectives[p]
    BY <1>1, <2>4, ObjectiveFacts
  <2> QED BY <2>1, <2>2, <2>3, <2>5 DEF Exit
<1>3. ASSUME bus_status' = bus_status PROVE FALSE
  BY <1>3
<1>4. CASE UNCHANGED vars \/ NewTarget \/ BusDrives
  BY <1>3, <1>4 DEF NewTarget, BusDrives, vars, tripVars
<1>5. ASSUME NEW q \in People, \/ ChooseObjective(q) \/ KeepObjective(q) \/ StayPut(q)
                               \/ MoveOn(q) \/ Arrive(q) \/ WalkOn(q)
      PROVE  FALSE
  BY <1>3, <1>5 DEF ChooseObjective, KeepObjective, StayPut, MoveOn, Arrive, WalkOn, tripVars
<1>6. ASSUME NEW q \in People, ReachStop(q) \/ ArriveByBus(q) PROVE FALSE
  <2>1. \/ bus_status' = [bus_status EXCEPT ![q] = 1]
        \/ bus_status[q] = 2 /\ bus_status' = [bus_status EXCEPT ![q] = 0]
    BY <1>6 DEF ReachStop, ArriveByBus, ByBus
  <2> QED BY <1>1, <2>1 DEF TypeOK
<1> QED BY <1>2, <1>4, <1>5, <1>6 DEF Next

\* The bus lets a person off (r) at the stop nearest to where it is going.
THEOREM LetOffRight == Spec => LetOffAtNearestStop
<1> DEFINE LetOff == \A p \in People :
               bus_status[p] = 1 /\ bus_status'[p] # 1
                  => /\ my_current_objective'[p] \in DOMAIN objectives[p]
                     /\ location'[p] = NearestStop[
                           objectives[p][my_current_objective'[p]].place]
<1>1. GameTypes /\ Riders /\ [Next]_vars => GameTypes' /\ Riders'
  BY GameTypesStep, RidersStep
<1>2. GameTypes /\ Riders /\ [Next]_vars => [LetOff]_vars
  BY LeavesAtExit
<1> QED BY <1>1, <1>2, InitTypes, InitRiders, PTL DEF Spec, LetOffAtNearestStop

-----------------------------------------------------------------------------
(* Cars on roads. *)

\* Those who count on r.
Drivers(r) == {p \in People : mobility_mode[p] = "car" /\ current_edge[p] = r}

LEMMA DriversFinite ==
    ASSUME NEW S \in SUBSET People
    PROVE  IsFiniteSet(S) /\ Cardinality(S) \in Nat
<1>1. IsFiniteSet(People)
  BY GameITConstants, FS_Interval DEF People
<1> QED BY <1>1, FS_Subset, FS_CardinalityType

\* One driver less or more counts one.
LEMMA OneDriver ==
    ASSUME NEW S \in SUBSET People, NEW p \in People
    PROVE  /\ p \notin S => Cardinality(S \cup {p}) = Cardinality(S) + 1
           /\ p \in S => Cardinality(S) = Cardinality(S \ {p}) + 1
           /\ p \notin S => S \ {p} = S
           /\ Cardinality(S) \in Nat /\ Cardinality(S \ {p}) \in Nat
           /\ Cardinality(S \cup {p}) \in Nat
<1>1. IsFiniteSet(S) /\ IsFiniteSet(S \ {p}) /\ IsFiniteSet(S \cup {p})
      /\ Cardinality(S) \in Nat /\ Cardinality(S \ {p}) \in Nat /\ Cardinality(S \cup {p}) \in Nat
  BY DriversFinite
<1>2. p \notin S => Cardinality(S \cup {p}) = Cardinality(S) + 1
  BY <1>1, FS_AddElement
<1>3. p \in S => Cardinality(S \ {p}) = Cardinality(S) - 1
  BY <1>1, FS_RemoveElement
<1>4. p \notin S => S \ {p} = S
  OBVIOUS
<1> QED BY <1>1, <1>2, <1>3, <1>4

\* After p has left its road, a road counts no more than the other drivers.
LEMMA LeaveCounts ==
    ASSUME GameTypes, NotOvercounted, NEW p \in People, NEW r \in Roads
    PROVE  /\ Leave(p)[r] \in Nat
           /\ Leave(p)[r] <= Cardinality(Drivers(r) \ {p})
<1>1. TypeOK /\ current_concentration[r] \in Nat
      /\ current_concentration[r] <= Cardinality(Drivers(r))
  BY DEF GameTypes, NotOvercounted, TypeOK, Drivers
<1>2. Drivers(r) \in SUBSET People
  BY DEF Drivers
<1>3. Leave(p)[r] = IF p \in Drivers(r)
                      THEN IF current_concentration[r] > 0 THEN current_concentration[r] - 1 ELSE 0
                      ELSE current_concentration[r]
  BY DEF Leave, Drivers
<1>4. /\ p \in Drivers(r) => Cardinality(Drivers(r)) = Cardinality(Drivers(r) \ {p}) + 1
      /\ p \notin Drivers(r) => Cardinality(Drivers(r) \ {p}) = Cardinality(Drivers(r))
      /\ Cardinality(Drivers(r)) \in Nat /\ Cardinality(Drivers(r) \ {p}) \in Nat
  <2> DEFINE D == Drivers(r)
  <2> HIDE DEF D
  <2>1. D \in SUBSET People
    BY <1>2 DEF D
  <2>2. /\ p \in D => Cardinality(D) = Cardinality(D \ {p}) + 1
        /\ p \notin D => D \ {p} = D
        /\ Cardinality(D) \in Nat /\ Cardinality(D \ {p}) \in Nat
    BY <2>1, OneDriver
  <2> QED BY <2>2 DEF D
<1> QED BY <1>1, <1>3, <1>4

LEMMA InitCounts == Init => NotOvercounted
<1> SUFFICES ASSUME Init, NEW r \in Roads PROVE current_concentration[r] <= Cardinality(Drivers(r))
  BY DEF NotOvercounted, Drivers
<1>1. current_concentration[r] = 0
  BY DEF Init
<1>2. Cardinality(Drivers(r)) \in Nat
  BY DriversFinite DEF Drivers
<1> QED BY <1>1, <1>2

LEMMA CountsStep == GameTypes /\ NotOvercounted /\ [Next]_vars => NotOvercounted'
<1> SUFFICES ASSUME GameTypes, NotOvercounted, [Next]_vars, NEW r \in Roads
             PROVE  current_concentration'[r] <= Cardinality(Drivers(r)')
  BY DEF NotOvercounted, Drivers
<1>1. /\ TypeOK /\ Plans /\ Drivers(r) \in SUBSET People /\ Drivers(r)' \in SUBSET People
      /\ current_concentration[r] \in Nat /\ current_concentration[r] <= Cardinality(Drivers(r))
  BY DEF GameTypes, NotOvercounted, Drivers, TypeOK
<1>2. ASSUME UNCHANGED <<mobility_mode, roadVars>>
      PROVE  current_concentration'[r] <= Cardinality(Drivers(r)')
  <2>1. Drivers(r)' = Drivers(r) /\ current_concentration'[r] = current_concentration[r]
    BY <1>2 DEF Drivers, roadVars
  <2> QED BY <1>1, <2>1
<1>3. CASE UNCHANGED vars \/ NewTarget \/ BusDrives \/ BusStops
  BY <1>2, <1>3 DEF NewTarget, BusDrives, BusStops, vars, tripVars
<1>4. ASSUME NEW p \in People, KeepObjective(p) \/ StayPut(p) \/ WalkOn(p) \/ ReachStop(p)
      PROVE  current_concentration'[r] <= Cardinality(Drivers(r)')
  BY <1>2, <1>4 DEF KeepObjective, StayPut, WalkOn, ReachStop, tripVars
\* A drive begins: p may find itself on a road that does not count it.
<1>5. ASSUME NEW p \in People, ChooseObjective(p)
      PROVE  current_concentration'[r] <= Cardinality(Drivers(r)')
  <2>1. p \notin Drivers(r)
    BY <1>1, <1>5 DEF ChooseObjective, Drivers, TypeOK
  <2>2. \A q \in People \ {p} : mobility_mode'[q] = mobility_mode[q] /\ current_edge'[q] = current_edge[q]
    BY <1>1, <1>5 DEF ChooseObjective, ChooseMobilityMode, TypeOK, Plans
  <2>3. Drivers(r)' = Drivers(r) \/ Drivers(r)' = Drivers(r) \cup {p}
    BY <2>1, <2>2 DEF Drivers
  <2>4. current_concentration' = current_concentration
    BY <1>5 DEF ChooseObjective
  <2>5. Cardinality(Drivers(r)') >= Cardinality(Drivers(r))
    <3> DEFINE D == Drivers(r)
    <3>1. D \in SUBSET People /\ p \notin D
      BY <1>1, <2>1
    <3> HIDE DEF D
    <3>2. Cardinality(D \cup {p}) = Cardinality(D) + 1 /\ Cardinality(D) \in Nat
      BY <3>1, OneDriver
    <3>3. Drivers(r)' = D \/ Drivers(r)' = D \cup {p}
      BY <2>3 DEF D
    <3>4. \/ Cardinality(Drivers(r)') = Cardinality(D)
          \/ Cardinality(Drivers(r)') = Cardinality(D \cup {p})
      BY <3>3
    <3>5. Cardinality(Drivers(r)') >= Cardinality(D)
      <4> DEFINE n == Cardinality(D)
                 m == Cardinality(D \cup {p})
                 k == Cardinality(Drivers(r)')
      <4>1. m = n + 1 /\ n \in Nat /\ (k = n \/ k = m)
        BY <3>2, <3>4
      <4> HIDE DEF n, m, k
      <4>2. k >= n
        BY <4>1
      <4> QED BY <4>2 DEF n, k
    <3> QED BY <3>5 DEF D
  <2>6. Cardinality(Drivers(r)') \in Nat /\ Cardinality(Drivers(r)) \in Nat
    BY <1>1, DriversFinite
  <2> QED BY <1>1, <2>4, <2>5, <2>6
\* p leaves one road and comes to another, or to the same again.
<1>6. ASSUME NEW p \in People, MoveOn(p)
      PROVE  current_concentration'[r] <= Cardinality(Drivers(r)')
  <2>1. PICK e \in IF mobility_mode[p] = "car" THEN Roads \cup {0} ELSE {0} :
            /\ current_edge' = [current_edge EXCEPT ![p] = e]
            /\ current_concentration' =
                [s \in Roads |-> IF s = e THEN Leave(p)[s] + 1 ELSE Leave(p)[s]]
    BY <1>6 DEF MoveOn
  <2>2. mobility_mode' = mobility_mode
    BY <1>6 DEF MoveOn, tripVars
  <2>3. Leave(p)[r] \in Nat /\ Leave(p)[r] <= Cardinality(Drivers(r) \ {p})
    BY LeaveCounts
  <2>4. 0 \notin Roads
    BY GameITConstants DEF Roads
  <2>5. r = e => mobility_mode[p] = "car"
    BY <2>1, <2>4
  <2>6. Drivers(r)' = IF r = e THEN (Drivers(r) \ {p}) \cup {p} ELSE Drivers(r) \ {p}
    BY <1>1, <2>1, <2>2, <2>5 DEF Drivers, TypeOK
  <2>7. Cardinality((Drivers(r) \ {p}) \cup {p}) = Cardinality(Drivers(r) \ {p}) + 1
        /\ Cardinality(Drivers(r) \ {p}) \in Nat
    <3>1. (Drivers(r) \ {p}) \in SUBSET People /\ p \notin (Drivers(r) \ {p})
      BY <1>1
    <3> QED BY <3>1, OneDriver
  <2>8. current_concentration'[r] = IF r = e THEN Leave(p)[r] + 1 ELSE Leave(p)[r]
    BY <2>1
  <2> QED BY <2>3, <2>6, <2>7, <2>8
<1>7. ASSUME NEW p \in People, Arrive(p)
      PROVE  current_concentration'[r] <= Cardinality(Drivers(r)')
  <2>1. /\ current_concentration' = Leave(p) /\ current_edge' = [current_edge EXCEPT ![p] = 0]
        /\ mobility_mode' = [mobility_mode EXCEPT ![p] = "none"]
    BY <1>7 DEF Arrive, EndTrip
  <2>2. Drivers(r)' = Drivers(r) \ {p}
    BY <1>1, <2>1 DEF Drivers, TypeOK, Plans
  <2>3. Leave(p)[r] <= Cardinality(Drivers(r) \ {p})
    BY LeaveCounts
  <2> QED BY <2>1, <2>2, <2>3
\* A trip by bus has no car.
<1>8. ASSUME NEW p \in People, ArriveByBus(p)
      PROVE  current_concentration'[r] <= Cardinality(Drivers(r)')
  <2>1. /\ mobility_mode[p] = "bus" /\ mobility_mode' = [mobility_mode EXCEPT ![p] = "none"]
        /\ UNCHANGED roadVars
    BY <1>8 DEF ArriveByBus, ByBus, EndTrip
  <2>2. Drivers(r)' = Drivers(r) /\ current_concentration' = current_concentration
    BY <1>1, <2>1 DEF Drivers, Plans, roadVars
  <2> QED BY <1>1, <2>2
<1> QED BY <1>3, <1>4, <1>5, <1>6, <1>7, <1>8 DEF Next

\* A road never counts more cars than are on it (move), whatever current_edge
\* an earlier trip has left.
THEOREM CarsCountedOnce == Spec => []NotOvercounted
<1>1. GameTypes /\ NotOvercounted /\ [Next]_vars => GameTypes' /\ NotOvercounted'
  BY GameTypesStep, CountsStep
<1> QED BY <1>1, InitTypes, InitCounts, PTL DEF Spec
=============================================================================
