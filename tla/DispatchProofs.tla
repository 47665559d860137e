--------------------------- MODULE DispatchProofs ---------------------------
(***************************************************************************)
(* Proofs about Dispatch, for any number of users and cars, any working    *)
(* hours and any geometry.  First the lists of the cars agree; then        *)
(* Dispatch implements RideLog: what the users send is a sequence of rides *)
(* each, even where cars are short and users are taken for rides they did  *)
(* not ask for.                                                            *)
(***************************************************************************)
EXTENDS Dispatch, FiniteSetTheorems, TLAPS

CarsOK == TypeOK /\ CarListsAgree /\ GroupsNotEmpty

-----------------------------------------------------------------------------
(* What the helpers return. *)

\* findPeople returns a list of users that is not empty, of users that ask
\* (the caller among them).
LEMMA FindPeopleFacts ==
    ASSUME TypeOK, NEW u \in Users, NEW group \in FindPeople(u)
    PROVE  /\ group \in Seq(Users) /\ Len(group) > 0
           /\ \A v \in Users : Listed(group, v) => v \in askingForCar \cup {u}
<1> DEFINE eligible == (askingForCar \ inAGroup) \cup {u}
<1>1. eligible \subseteq Users
  BY DEF TypeOK
<1>2. IsFiniteSet(Users)
  BY DispatchConstants, FS_Interval DEF Users
<1>3. Cardinality(eligible) \in Nat
  BY <1>1, <1>2, FS_Subset, FS_CardinalityType
<1>4. PICK n \in 1 .. Cardinality(eligible) : group \in [1 .. n -> eligible]
  BY DEF FindPeople
<1>5. n \in Nat /\ n > 0
  BY <1>3, <1>4
<1>6. group \in Seq(Users) /\ Len(group) = n
  BY <1>1, <1>4, <1>5
<1>7. \A v \in Users : Listed(group, v) => v \in askingForCar \cup {u}
  BY <1>1, <1>4, <1>5 DEF Listed
<1> QED BY <1>5, <1>6, <1>7

\* findNextTarget returns an index of the passengers' list.
LEMMA FindNextTargetFacts ==
    ASSUME TypeOK, CarListsAgree, NEW c \in Cars, objective[c] # "wander",
           NEW i \in FindNextTarget(c)
    PROVE  /\ c \notin isFree
           /\ i \in 1 .. Len(passengers[c])
           /\ passengers[c][i] \in Users
<1>1. c \notin isFree /\ BusyCarAligned(c)
  BY DEF CarListsAgree, CarOK, FreeCarClean
<1>2. Len(passengers[c]) \in Nat /\ Len(endPoints[c]) = Len(passengers[c]) /\ Len(passengers[c]) > 0
  BY <1>1 DEF TypeOK, BusyCarAligned
<1>3. DOMAIN passengers[c] = 1 .. Len(passengers[c]) /\ DOMAIN endPoints[c] = 1 .. Len(passengers[c])
  BY <1>2 DEF TypeOK
<1>4. NextPickUp(c) \subseteq 1 .. Len(passengers[c])
  BY <1>2, <1>3 DEF NextPickUp
<1>5. NextDropOff(c) \subseteq 1 .. Len(passengers[c])
  BY <1>3 DEF NextDropOff
<1>6. i \in 1 .. Len(passengers[c])
  <2>1. CASE indexNext[c] # 0
    BY <1>1, <1>2, <2>1 DEF BusyCarAligned, FindNextTarget
  <2>2. CASE indexNext[c] = 0
    BY <1>4, <1>5, <2>2 DEF FindNextTarget
  <2> QED BY <2>1, <2>2
<1> QED BY <1>1, <1>6 DEF TypeOK

-----------------------------------------------------------------------------
(* Types. *)

\* The parts of a move that several actions share keep their types.
LEMMA CreateTypes ==
    ASSUME TypeOK, NEW u \in Users, CreateAndAddTransaction(u)
    PROVE  /\ currentTransaction' \in [Users -> Nat \cup {Nil}]
           /\ nextTrans' \in Nat
           /\ endPoint' \in [Users -> Places]
           /\ waited' \in [Users -> 0 .. MaxWait]
           /\ TransOf(u) \in Nat
BY DispatchConstants DEF TypeOK, CreateAndAddTransaction, TransOf, WaitOf, Nil

LEMMA SendTypes ==
    ASSUME TypeOK, NEW u \in Users, NEW c \in Cars, TransOf(u) \in Nat, SendTransaction(u, c)
    PROVE  /\ waitingForCar' \subseteq Users /\ target' \subseteq Users
           /\ driver' \in [Users -> Cars \cup {Nil}]
           /\ sent' \in [Users -> Seq(Messages)]
<1>1. [kind |-> "Transaction", trans |-> TransOf(u), car |-> c] \in Messages
  BY DEF Messages
<1>2. sent' \in [Users -> Seq(Messages)]
  BY <1>1 DEF TypeOK, SendTransaction
<1> QED BY <1>2 DEF TypeOK, SendTransaction

LEMMA AddPassengersTypes ==
    ASSUME TypeOK, NEW c \in Cars, NEW group \in Seq(Users), AddPassengers(c, group)
    PROVE  /\ isFree' \subseteq Cars
           /\ objective' \in [Cars -> {"wander", "pickUp", "dropOff"}]
           /\ passengers' \in [Cars -> Seq(Users)]
           /\ startPoints' \in [Cars -> Seq(Users)]
           /\ endPoints' \in [Cars -> Seq(Points)]
           /\ indexPassenger' \in [Cars -> Nat]
           /\ indexNext' \in [Cars -> Nat]
<1> DEFINE points == [i \in 1 .. Len(group) |->
                        [user |-> group[i], place |-> nextObjective[group[i]]]]
<1>1. points \in Seq(Points)
  <2>1. Len(group) \in Nat /\ \A i \in 1 .. Len(group) : group[i] \in Users
    OBVIOUS
  <2>2. \A i \in 1 .. Len(group) : [user |-> group[i], place |-> nextObjective[group[i]]] \in Points
    BY <2>1 DEF Points, TypeOK
  <2> QED BY <2>1, <2>2
<1>2. endPoints[c] \o points \in Seq(Points) /\ startPoints[c] \o group \in Seq(Users)
  BY <1>1 DEF TypeOK
<1>3. endPoints' = [endPoints EXCEPT ![c] = endPoints[c] \o points]
  BY DEF AddPassengers
<1>4. startPoints' = [startPoints EXCEPT ![c] = startPoints[c] \o group]
  BY DEF AddPassengers
<1> QED BY <1>2, <1>3, <1>4 DEF TypeOK, AddPassengers

LEMMA FindCarTypes ==
    ASSUME TypeOK, NEW u \in Users, NEW group \in Seq(Users), TransOf(u) \in Nat,
           FindCarAndUpdateGroup(u, group)
    PROVE  /\ waitingForCar' \subseteq Users /\ target' \subseteq Users
           /\ driver' \in [Users -> Cars \cup {Nil}]
           /\ sent' \in [Users -> Seq(Messages)]
           /\ myBlockCar' \in [Users -> Cars \cup {Nil}]
           /\ isFree' \subseteq Cars
           /\ objective' \in [Cars -> {"wander", "pickUp", "dropOff"}]
           /\ passengers' \in [Cars -> Seq(Users)]
           /\ startPoints' \in [Cars -> Seq(Users)]
           /\ endPoints' \in [Cars -> Seq(Points)]
           /\ indexPassenger' \in [Cars -> Nat]
           /\ indexNext' \in [Cars -> Nat]
<1>1. CASE isFree = {} /\ myBlockCar' = [v \in Users |-> IF v = u \/ Listed(group, v)
                                         THEN Nil ELSE myBlockCar[v]]
                       /\ UNCHANGED <<waitingForCar, target, driver, sent, carVars>>
  BY <1>1 DEF TypeOK, carVars
<1>2. CASE \E c \in isFree :
          /\ myBlockCar' = [v \in Users |-> IF v = u \/ Listed(group, v)
                                            THEN c ELSE myBlockCar[v]]
          /\ AddPassengers(c, group)
          /\ SendTransaction(u, c)
  <2>1. PICK c \in isFree :
          /\ myBlockCar' = [v \in Users |-> IF v = u \/ Listed(group, v)
                                            THEN c ELSE myBlockCar[v]]
          /\ AddPassengers(c, group)
          /\ SendTransaction(u, c)
    BY <1>2
  <2>2. c \in Cars
    BY DEF TypeOK
  <2>3. myBlockCar' \in [Users -> Cars \cup {Nil}]
    BY <2>1, <2>2 DEF TypeOK
  <2> QED BY <2>1, <2>2, <2>3, SendTypes, AddPassengersTypes
<1> QED BY <1>1, <1>2 DEF FindCarAndUpdateGroup

LEMMA ScheduleTypes ==
    ASSUME TypeOK
    PROVE  /\ \A u \in Users : AfterUser(u) => phase' \in {"world", "updateTarget", "move", "car"} /\ turn' \in Nat
           /\ \A c \in Cars : AfterCar(c) => phase' \in {"world", "updateTarget", "move", "car"} /\ turn' \in Nat
<1>1. phase \in {"world", "updateTarget", "move", "car"}
  BY DEF TypeOK
<1>2. \A u \in Users : u + 1 \in Nat
  BY DispatchConstants DEF Users
<1>3. \A c \in Cars : c + 1 \in Nat
  BY DispatchConstants DEF Cars
<1> QED BY <1>1, <1>2, <1>3 DEF AfterUser, AfterCar

\* A user is dropped off with its attributes reset and its end hour sent.
LEMMA DropOffTypes ==
    ASSUME TypeOK, NEW p \in Users, CanDropOff(p), DropOffUser(p)
    PROVE  /\ sent' \in [Users -> Seq(Messages)]
           /\ target' \subseteq Users /\ askingForCar' \subseteq Users /\ inCar' \subseteq Users
           /\ inAGroup' \subseteq Users /\ waitingForCar' \subseteq Users
           /\ myBlockCar' \in [Users -> Cars \cup {Nil}]
           /\ currentTransaction' \in [Users -> Nat \cup {Nil}]
           /\ driver' \in [Users -> Cars \cup {Nil}]
           /\ UNCHANGED <<nextObjective, copassengers, endPoint, waited, nextTrans>>
<1>1. [kind |-> "addEndHour", trans |-> currentTransaction[p], car |-> driver[p]] \in Messages
  BY DEF TypeOK, CanDropOff, Messages
<1>2. sent' \in [Users -> Seq(Messages)]
  BY <1>1 DEF TypeOK, DropOffUser
<1> QED BY <1>2 DEF TypeOK, DropOffUser

\* Every step keeps the types, given that the indices are in range.
LEMMA TypeStep ==
    ASSUME TypeOK, CarListsAgree, [Next]_vars
    PROVE  TypeOK'
<1>1. CASE NextCycle
  BY <1>1, DispatchConstants DEF TypeOK, NextCycle, Runs, carVars
<1>2. CASE StopSim
  BY <1>2 DEF TypeOK, StopSim, Runs, userVars, tripVars, carVars
<1>3. ASSUME NEW u \in Users, UpdateTarget(u) PROVE TypeOK'
  BY <1>3 DEF TypeOK, UpdateTarget, Runs, clockVars, tripVars, carVars, Places
<1>4. ASSUME NEW u \in Users, MoveIdle(u) PROVE TypeOK'
  BY <1>4, ScheduleTypes DEF TypeOK, MoveIdle, Runs, clockVars, userVars, tripVars, carVars
<1>5. ASSUME NEW u \in Users, KeepLooking(u) PROVE TypeOK'
  <2>1. PICK group \in FindPeople(u) : copassengers' = [copassengers EXCEPT ![u] = group]
    BY <1>5 DEF KeepLooking
  <2>2. copassengers' \in [Users -> Seq(Users)]
    BY <2>1, FindPeopleFacts DEF TypeOK
  <2> QED BY <1>5, <2>2, CreateTypes, ScheduleTypes DEF TypeOK, KeepLooking, clockVars, carVars
<1>6. ASSUME NEW u \in Users, FormGroup(u) PROVE TypeOK'
  <2>1. PICK group \in FindPeople(u) :
          /\ copassengers' = [copassengers EXCEPT ![u] = group]
          /\ inAGroup' = inAGroup \cup {v \in Users : Listed(group, v)}
          /\ FindCarAndUpdateGroup(u, group)
    BY <1>6 DEF FormGroup
  <2>2. group \in Seq(Users)
    BY FindPeopleFacts
  <2>3. copassengers' \in [Users -> Seq(Users)] /\ inAGroup' \subseteq Users
    BY <2>1, <2>2 DEF TypeOK
  <2>4. CreateAndAddTransaction(u) /\ AfterUser(u)
    BY <1>6 DEF FormGroup
  <2> HIDE DEF FindCarAndUpdateGroup
  <2> QED BY <1>6, <2>1, <2>2, <2>3, <2>4, CreateTypes, FindCarTypes, ScheduleTypes
          DEF TypeOK, FormGroup, clockVars
<1>7. ASSUME NEW u \in Users, RetryGroup(u) PROVE TypeOK'
  <2>1. copassengers[u] \in Seq(Users)
    BY DEF TypeOK
  <2>2. CreateAndAddTransaction(u) /\ AfterUser(u) /\ FindCarAndUpdateGroup(u, copassengers[u])
    BY <1>7 DEF RetryGroup
  <2> QED BY <1>7, <2>1, <2>2, CreateTypes, FindCarTypes, ScheduleTypes
          DEF TypeOK, RetryGroup, clockVars
<1>8. ASSUME NEW u \in Users, Confirm(u) PROVE TypeOK'
  <2>1. myBlockCar[u] \in Cars
    BY <1>8 DEF TypeOK, Confirm
  <2>2. CreateAndAddTransaction(u) /\ AfterUser(u) /\ SendTransaction(u, myBlockCar[u])
    BY <1>8 DEF Confirm
  <2> QED BY <1>8, <2>1, <2>2, CreateTypes, SendTypes, ScheduleTypes
          DEF TypeOK, Confirm, clockVars, carVars
<1>9. ASSUME NEW c \in Cars, CarWander(c) PROVE TypeOK'
  BY <1>9, ScheduleTypes DEF TypeOK, CarWander, clockVars, userVars, tripVars, carVars
<1>10. ASSUME NEW c \in Cars, CarDrive(c) PROVE TypeOK'
  <2>1. PICK i \in FindNextTarget(c) : indexNext' = [indexNext EXCEPT ![c] = i]
    BY <1>10 DEF CarDrive
  <2>2. i \in Nat
    <3>1. i \in 1 .. Len(passengers[c])
      BY <1>10, FindNextTargetFacts DEF CarDrive
    <3>2. Len(passengers[c]) \in Nat
      BY DEF TypeOK
    <3> QED BY <3>1, <3>2
  <2> QED BY <1>10, <2>1, <2>2, ScheduleTypes
          DEF TypeOK, CarDrive, clockVars, userVars, tripVars
<1>11. ASSUME NEW c \in Cars, CarPickUp(c) PROVE TypeOK'
  <2>1. PICK i \in FindNextTarget(c) : /\ inCar' = inCar \cup {passengers[c][i]}
                                      /\ waitingForCar' = waitingForCar \ {passengers[c][i]}
    BY <1>11 DEF CarPickUp
  <2>2. passengers[c][i] \in Users
    BY <1>11, FindNextTargetFacts DEF CarPickUp
  <2>3. objective' \in [Cars -> {"wander", "pickUp", "dropOff"}]
    BY <1>11 DEF TypeOK, CarPickUp
  <2>4. indexPassenger' \in [Cars -> Nat] /\ indexNext' \in [Cars -> Nat]
    BY <1>11 DEF TypeOK, CarPickUp
  <2>5. inCar' \subseteq Users /\ waitingForCar' \subseteq Users
    BY <2>1, <2>2 DEF TypeOK
  <2> QED BY <1>11, <2>3, <2>4, <2>5, ScheduleTypes DEF TypeOK, CarPickUp, clockVars, tripVars
<1>12. ASSUME NEW c \in Cars, CarDropOff(c) PROVE TypeOK'
  <2>1. PICK i \in FindNextTarget(c) :
          /\ CanDropOff(passengers[c][i])
          /\ DropOffUser(passengers[c][i])
          /\ IF indexPassenger[c] + 1 = Len(passengers[c])
             THEN FinishRide(c)
             ELSE /\ endPoints' = [endPoints EXCEPT ![c][i] = Gone]
                  /\ indexPassenger' = [indexPassenger EXCEPT ![c] = @ + 1]
                  /\ UNCHANGED <<passengers, startPoints, isFree, objective>>
    BY <1>12 DEF CarDropOff
  <2>2. passengers[c][i] \in Users /\ i \in 1 .. Len(passengers[c])
    BY <1>12, FindNextTargetFacts DEF CarDropOff
  <2>3. Len(endPoints[c]) = Len(passengers[c])
    BY <1>12, FindNextTargetFacts DEF CarDropOff, CarListsAgree, CarOK, BusyCarAligned
  <2>4. [endPoints[c] EXCEPT ![i] = Gone] \in Seq(Points)
    BY <2>2, <2>3 DEF TypeOK, Points
  <2>5. /\ isFree' \subseteq Cars
        /\ objective' \in [Cars -> {"wander", "pickUp", "dropOff"}]
        /\ passengers' \in [Cars -> Seq(Users)]
        /\ startPoints' \in [Cars -> Seq(Users)]
        /\ endPoints' \in [Cars -> Seq(Points)]
        /\ indexPassenger' \in [Cars -> Nat]
    <3>1. CASE indexPassenger[c] + 1 = Len(passengers[c])
      <4>1. FinishRide(c)
        BY <2>1, <3>1
      <4>2. <<>> \in Seq(Users) /\ <<>> \in Seq(Points)
        OBVIOUS
      <4> QED BY <4>1, <4>2 DEF TypeOK, FinishRide
    <3>2. CASE indexPassenger[c] + 1 # Len(passengers[c])
      <4>1. /\ endPoints' = [endPoints EXCEPT ![c] = [endPoints[c] EXCEPT ![i] = Gone]]
            /\ indexPassenger' = [indexPassenger EXCEPT ![c] = indexPassenger[c] + 1]
            /\ UNCHANGED <<passengers, startPoints, isFree, objective>>
        BY <2>1, <3>2
      <4> QED BY <2>4, <4>1 DEF TypeOK
    <3> QED BY <3>1, <3>2
  <2>6. /\ phase' \in {"world", "updateTarget", "move", "car"} /\ turn' \in Nat
        /\ indexNext' \in [Cars -> Nat]
        /\ UNCHANGED clockVars
    BY <1>12, ScheduleTypes DEF TypeOK, CarDropOff
  <2> QED BY <2>1, <2>2, <2>5, <2>6, DropOffTypes DEF TypeOK, clockVars
<1>13. ASSUME NEW c \in Cars, CarDropOffFails(c) PROVE TypeOK'
  BY <1>13 DEF TypeOK, CarDropOffFails, userVars, tripVars, carVars
<1>14. CASE UNCHANGED vars
  BY <1>14 DEF TypeOK, vars, clockVars, userVars, tripVars, carVars
<1> QED BY <1>1, <1>2, <1>3, <1>4, <1>5, <1>6, <1>7, <1>8, <1>9, <1>10, <1>11, <1>12,
           <1>13, <1>14 DEF Next, UserMove, CarMove

-----------------------------------------------------------------------------
(* Cars and groups. *)

\* A car whose attributes a step leaves alone is in order afterwards.
SameCar(c) ==
    /\ c \in isFree' <=> c \in isFree
    /\ objective'[c] = objective[c] /\ passengers'[c] = passengers[c]
    /\ startPoints'[c] = startPoints[c] /\ endPoints'[c] = endPoints[c]
    /\ indexPassenger'[c] = indexPassenger[c] /\ indexNext'[c] = indexNext[c]

LEMMA SameCarOK ==
    ASSUME NEW c \in Cars, CarOK(c), SameCar(c)
    PROVE  CarOK(c)'
BY DEF CarOK, FreeCarClean, BusyCarAligned, SameCar

LEMMA SameCarsOK ==
    ASSUME CarListsAgree, UNCHANGED carVars
    PROVE  CarListsAgree'
BY DEF CarListsAgree, CarOK, FreeCarClean, BusyCarAligned, carVars

\* A free car that is given a group that is not empty is in order.
LEMMA AddPassengersOK ==
    ASSUME TypeOK, CarListsAgree, NEW c \in isFree, NEW group \in Seq(Users), Len(group) > 0,
           AddPassengers(c, group)
    PROVE  CarListsAgree'
<1> DEFINE points == [i \in 1 .. Len(group) |->
                        [user |-> group[i], place |-> nextObjective[group[i]]]]
<1>1. c \in Cars /\ FreeCarClean(c)
  BY DEF TypeOK, CarListsAgree, CarOK
<1>2. ASSUME NEW d \in Cars, d # c PROVE CarOK(d)'
  <2>1. SameCar(d)
    BY <1>1, <1>2 DEF AddPassengers, SameCar, TypeOK
  <2> QED BY <2>1, SameCarOK DEF CarListsAgree
<1>3. CarOK(c)'
  <2>1. /\ Len(group) \in Nat
        /\ \A i \in 1 .. Len(group) : group[i] \in Users
    OBVIOUS
  <2>2. points \in Seq(Points) /\ Len(points) = Len(group)
    <3>1. \A i \in 1 .. Len(group) : [user |-> group[i], place |-> nextObjective[group[i]]] \in Points
      BY <2>1 DEF Points, TypeOK
    <3> QED BY <2>1, <3>1
  <2>3. <<>> \o group = group /\ <<>> \o points = points
    BY <2>2
  <2>4. /\ c \notin isFree' /\ objective'[c] = "pickUp"
        /\ passengers'[c] = group
        /\ startPoints'[c] = <<>> \o group
        /\ endPoints'[c] = <<>> \o points
        /\ indexPassenger'[c] = 0 /\ indexNext'[c] = 0
    BY <1>1 DEF AddPassengers, FreeCarClean, TypeOK
  <2>5. \A i \in 1 .. Len(group) : points[i].user = group[i]
    BY <2>1
  <2> QED BY <2>1, <2>2, <2>3, <2>4, <2>5 DEF CarOK, BusyCarAligned
<1> QED BY <1>2, <1>3 DEF CarListsAgree

LEMMA FindCarOK ==
    ASSUME TypeOK, CarListsAgree, NEW u \in Users, NEW group \in Seq(Users), Len(group) > 0,
           FindCarAndUpdateGroup(u, group)
    PROVE  CarListsAgree'
<1>1. CASE UNCHANGED carVars
  BY <1>1, SameCarsOK
<1>2. CASE \E c \in isFree : AddPassengers(c, group)
  BY <1>2, AddPassengersOK
<1> QED BY <1>1, <1>2 DEF FindCarAndUpdateGroup

LEMMA CarListsStep ==
    ASSUME TypeOK, CarListsAgree, GroupsNotEmpty, [Next]_vars
    PROVE  CarListsAgree'
<1>1. CASE NextCycle \/ StopSim \/ UNCHANGED vars
  BY <1>1, SameCarsOK DEF NextCycle, StopSim, vars
<1>2. ASSUME NEW u \in Users, UpdateTarget(u) \/ MoveIdle(u) \/ KeepLooking(u) \/ Confirm(u)
      PROVE  CarListsAgree'
  BY <1>2, SameCarsOK DEF UpdateTarget, MoveIdle, KeepLooking, Confirm
<1>3. ASSUME NEW u \in Users, FormGroup(u) PROVE CarListsAgree'
  <2>1. PICK group \in FindPeople(u) : FindCarAndUpdateGroup(u, group)
    BY <1>3 DEF FormGroup
  <2> QED BY <2>1, FindPeopleFacts, FindCarOK
<1>4. ASSUME NEW u \in Users, RetryGroup(u) PROVE CarListsAgree'
  <2>1. copassengers[u] \in Seq(Users) /\ Len(copassengers[u]) > 0
    BY <1>4 DEF RetryGroup, GroupsNotEmpty, TypeOK
  <2>2. FindCarAndUpdateGroup(u, copassengers[u])
    BY <1>4 DEF RetryGroup
  <2> QED BY <2>1, <2>2, FindCarOK
<1>5. ASSUME NEW c \in Cars, CarWander(c) \/ CarDropOffFails(c) PROVE CarListsAgree'
  BY <1>5, SameCarsOK DEF CarWander, CarDropOffFails
<1>6. ASSUME NEW c \in Cars, CarDrive(c) PROVE CarListsAgree'
  <2>1. PICK i \in FindNextTarget(c) : indexNext' = [indexNext EXCEPT ![c] = i]
    BY <1>6 DEF CarDrive
  <2>2. c \notin isFree /\ i \in 1 .. Len(passengers[c])
    BY <1>6, FindNextTargetFacts DEF CarDrive
  <2>3. Len(passengers[c]) \in Nat
    BY DEF TypeOK
  <2>4. UNCHANGED <<isFree, objective, passengers, startPoints, endPoints, indexPassenger>>
    BY <1>6 DEF CarDrive
  <2>5. ASSUME NEW d \in Cars, d # c PROVE CarOK(d)'
    <3>1. SameCar(d)
      BY <2>1, <2>4, <2>5 DEF SameCar, TypeOK
    <3> QED BY <3>1, SameCarOK DEF CarListsAgree
  <2>6. CarOK(c)'
    <3>1. BusyCarAligned(c)
      BY <2>2 DEF CarListsAgree, CarOK
    <3>2. indexNext'[c] \in 0 .. Len(passengers[c])
      BY <2>1, <2>2, <2>3 DEF TypeOK
    <3> QED BY <2>2, <2>4, <3>1, <3>2 DEF CarOK, BusyCarAligned
  <2> QED BY <2>5, <2>6 DEF CarListsAgree
<1>7. ASSUME NEW c \in Cars, CarPickUp(c) PROVE CarListsAgree'
  <2> DEFINE all == indexPassenger[c] + 1 = Len(passengers[c])
  <2>1. /\ UNCHANGED <<isFree, passengers, startPoints, endPoints>>
        /\ indexPassenger' = [indexPassenger EXCEPT ![c] = IF all THEN 0 ELSE indexPassenger[c] + 1]
        /\ objective' = [objective EXCEPT ![c] = IF all THEN "dropOff" ELSE objective[c]]
        /\ indexNext' = [indexNext EXCEPT ![c] = 0]
    BY <1>7 DEF CarPickUp
  <2>2. c \notin isFree /\ BusyCarAligned(c)
    BY <1>7 DEF CarPickUp, CarListsAgree, CarOK, FreeCarClean
  <2>3. ASSUME NEW d \in Cars, d # c PROVE CarOK(d)'
    <3>1. SameCar(d)
      BY <2>1, <2>3 DEF SameCar, TypeOK
    <3> QED BY <3>1, SameCarOK DEF CarListsAgree
  <2>4. CarOK(c)'
    <3>1. Len(passengers[c]) \in Nat
      BY DEF TypeOK
    <3>2. /\ indexPassenger'[c] \in 0 .. Len(passengers[c]) - 1
          /\ indexNext'[c] \in 0 .. Len(passengers[c])
      BY <2>1, <2>2, <3>1 DEF BusyCarAligned, TypeOK
    <3>3. objective'[c] \in {"pickUp", "dropOff"}
      BY <2>1, <2>2 DEF BusyCarAligned, TypeOK
    <3> QED BY <2>1, <2>2, <3>2, <3>3 DEF CarOK, BusyCarAligned
  <2> QED BY <2>3, <2>4 DEF CarListsAgree
<1>8. ASSUME NEW c \in Cars, CarDropOff(c) PROVE CarListsAgree'
  <2>1. PICK i \in FindNextTarget(c) :
          IF indexPassenger[c] + 1 = Len(passengers[c])
          THEN FinishRide(c)
          ELSE /\ endPoints' = [endPoints EXCEPT ![c] = [endPoints[c] EXCEPT ![i] = Gone]]
               /\ indexPassenger' = [indexPassenger EXCEPT ![c] = indexPassenger[c] + 1]
               /\ UNCHANGED <<passengers, startPoints, isFree, objective>>
    BY <1>8 DEF CarDropOff
  <2>2. indexNext' = [indexNext EXCEPT ![c] = 0]
    BY <1>8 DEF CarDropOff
  <2>3. i \in 1 .. Len(passengers[c])
    BY <1>8, FindNextTargetFacts DEF CarDropOff
  <2>4. c \notin isFree /\ BusyCarAligned(c)
    BY <1>8 DEF CarDropOff, CarListsAgree, CarOK, FreeCarClean
  <2>5. CASE indexPassenger[c] + 1 = Len(passengers[c])
    <3>1. FinishRide(c)
      BY <2>1, <2>5
    <3>2. ASSUME NEW d \in Cars, d # c PROVE CarOK(d)'
      <4>1. SameCar(d)
        BY <2>2, <3>1, <3>2 DEF FinishRide, SameCar, TypeOK
      <4> QED BY <4>1, SameCarOK DEF CarListsAgree
    <3>3. CarOK(c)'
      BY <2>2, <3>1 DEF CarOK, FreeCarClean, FinishRide, TypeOK
    <3> QED BY <3>2, <3>3 DEF CarListsAgree
  <2>6. CASE indexPassenger[c] + 1 # Len(passengers[c])
    <3>1. /\ endPoints' = [endPoints EXCEPT ![c] = [endPoints[c] EXCEPT ![i] = Gone]]
          /\ indexPassenger' = [indexPassenger EXCEPT ![c] = indexPassenger[c] + 1]
          /\ UNCHANGED <<passengers, startPoints, isFree, objective>>
      BY <2>1, <2>6
    <3>2. ASSUME NEW d \in Cars, d # c PROVE CarOK(d)'
      <4>1. SameCar(d)
        BY <2>2, <3>1, <3>2 DEF SameCar, TypeOK
      <4> QED BY <4>1, SameCarOK DEF CarListsAgree
    <3>3. CarOK(c)'
      <4>1. Len(passengers[c]) \in Nat /\ endPoints[c] \in Seq(Points)
        BY DEF TypeOK
      <4>2. /\ indexPassenger'[c] \in 0 .. Len(passengers[c]) - 1
            /\ indexNext'[c] \in 0 .. Len(passengers[c])
        BY <2>2, <2>4, <2>6, <3>1, <4>1 DEF BusyCarAligned, TypeOK
      <4>3. endPoints'[c] = [endPoints[c] EXCEPT ![i] = Gone]
        BY <3>1 DEF TypeOK
      <4>4. /\ Len(endPoints'[c]) = Len(passengers[c])
            /\ \A j \in 1 .. Len(passengers[c]) :
                  endPoints'[c][j] = IF j = i THEN Gone ELSE endPoints[c][j]
        BY <2>3, <2>4, <4>1, <4>3 DEF BusyCarAligned
      <4> QED BY <2>4, <3>1, <4>2, <4>4 DEF CarOK, BusyCarAligned
    <3> QED BY <3>2, <3>3 DEF CarListsAgree
  <2> QED BY <2>5, <2>6
<1> QED BY <1>1, <1>2, <1>3, <1>4, <1>5, <1>6, <1>7, <1>8 DEF Next, UserMove, CarMove

\* Whoever asks or is in a group has looked for company before, and found
\* itself.
LEMMA GroupsStep ==
    ASSUME TypeOK, CarListsAgree, GroupsNotEmpty, [Next]_vars
    PROVE  GroupsNotEmpty'
<1>1. CASE NextCycle \/ StopSim \/ UNCHANGED vars
  BY <1>1 DEF GroupsNotEmpty, NextCycle, StopSim, vars, userVars
<1>2. ASSUME NEW u \in Users, UpdateTarget(u) \/ MoveIdle(u) \/ Confirm(u)
      PROVE  GroupsNotEmpty'
  BY <1>2 DEF GroupsNotEmpty, UpdateTarget, MoveIdle, Confirm, userVars
<1>3. ASSUME NEW u \in Users, KeepLooking(u) \/ FormGroup(u) PROVE GroupsNotEmpty'
  <2>1. PICK group \in FindPeople(u) :
          /\ copassengers' = [copassengers EXCEPT ![u] = group]
          /\ inAGroup' \subseteq inAGroup \cup {v \in Users : Listed(group, v)}
    BY <1>3 DEF KeepLooking, FormGroup
  <2>2. askingForCar' = askingForCar \cup {u}
    BY <1>3 DEF KeepLooking, FormGroup
  <2>3. /\ Len(group) > 0
        /\ \A v \in Users : Listed(group, v) => v \in askingForCar \cup {u}
    BY FindPeopleFacts
  <2> QED BY <2>1, <2>2, <2>3 DEF GroupsNotEmpty, TypeOK
<1>4. ASSUME NEW u \in Users, RetryGroup(u) PROVE GroupsNotEmpty'
  BY <1>4 DEF GroupsNotEmpty, RetryGroup
<1>5. ASSUME NEW c \in Cars, CarMove(c) PROVE GroupsNotEmpty'
  <2>1. CASE CarWander(c) \/ CarDrive(c) \/ CarPickUp(c) \/ CarDropOffFails(c)
    BY <2>1 DEF GroupsNotEmpty, CarWander, CarDrive, CarPickUp, CarDropOffFails, userVars
  <2>2. CASE CarDropOff(c)
    <3>1. /\ copassengers' = copassengers
          /\ askingForCar' \subseteq askingForCar /\ inAGroup' \subseteq inAGroup
      BY <2>2 DEF CarDropOff, DropOffUser
    <3> QED BY <3>1 DEF GroupsNotEmpty
  <2> QED BY <1>5, <2>1, <2>2 DEF CarMove
<1> QED BY <1>1, <1>2, <1>3, <1>4, <1>5 DEF Next, UserMove

LEMMA CarsOKInit == Init => CarsOK
<1> SUFFICES ASSUME Init PROVE CarsOK
  OBVIOUS
<1>1. TypeOK
  <2>1. <<>> \in Seq(Users) /\ <<>> \in Seq(Points) /\ <<>> \in Seq(Messages)
    OBVIOUS
  <2> QED BY <2>1, DispatchConstants DEF Init, TypeOK, Places
<1>2. CarListsAgree
  BY DEF Init, CarListsAgree, CarOK, FreeCarClean
<1>3. GroupsNotEmpty
  BY DEF Init, GroupsNotEmpty
<1> QED BY <1>1, <1>2, <1>3 DEF CarsOK

LEMMA CarsOKStep == CarsOK /\ [Next]_vars => CarsOK'
BY TypeStep, CarListsStep, GroupsStep DEF CarsOK

\* The attributes keep their types: no step reads a list out of its range or
\* dereferences nil, except dropOff, where the model stops.
THEOREM TypeCorrect == Spec => []TypeOK
<1>1. CarsOK => TypeOK
  BY DEF CarsOK
<1> QED BY <1>1, CarsOKInit, CarsOKStep, PTL DEF Spec

\* However users group, retry and change their minds, free cars are clean and
\* the lists of the others belong together.
THEOREM CarListsCorrect == Spec => []CarListsAgree
<1>1. CarsOK => CarListsAgree
  BY DEF CarsOK
<1> QED BY <1>1, CarsOKInit, CarsOKStep, PTL DEF Spec

-----------------------------------------------------------------------------
(* What the users send: Dispatch implements RideLog. *)

\* What the messages depend on.
tripLog == <<currentTransaction, driver, nextTrans, sent>>

LEMMA SameTrips ==
    ASSUME TripsLogged, UNCHANGED tripLog
    PROVE  TripsLogged'
BY DEF TripsLogged, Announced, NotAnnounced, tripLog, Log!Open, Log!Latest, Log!Unused,
       Log!Transaction

\* The transaction a moving user has after createAndAddTransaction.
LEMMA TransOfFacts ==
    ASSUME TypeOK, TripsLogged, NEW u \in Users
    PROVE  /\ TransOf(u) \in Nat /\ TransOf(u) \in 0 .. nextTrans
           /\ driver[u] = Nil => ~Log!Open(u) /\ Log!Unused(TransOf(u))
           /\ driver[u] # Nil => /\ TransOf(u) = currentTransaction[u]
                                 /\ Log!Open(u) /\ TransOf(u) = Log!Latest(u).trans
           /\ \A v \in Users \ {u} : currentTransaction[v] # TransOf(u)
<1>1. TransOf(u) \in Nat /\ TransOf(u) \in 0 .. nextTrans
  BY DEF TypeOK, TripsLogged, TransOf, Nil
<1>2. ASSUME driver[u] = Nil PROVE ~Log!Open(u) /\ Log!Unused(TransOf(u))
  <2>1. NotAnnounced(u)
    BY <1>2 DEF TripsLogged
  <2>2. Log!Unused(nextTrans)
    <3> SUFFICES ASSUME NEW v \in Users, NEW i \in 1 .. Len(sent[v])
                 PROVE  sent[v][i].trans # nextTrans
      BY DEF Log!Unused
    <3>1. sent[v][i].trans < nextTrans
      BY DEF TripsLogged
    <3>2. sent[v][i] \in Messages
      BY DEF TypeOK
    <3>3. sent[v][i].trans \in Nat /\ nextTrans \in Nat
      BY <3>2 DEF Messages, TypeOK
    <3> QED BY <3>1, <3>3
  <2> QED BY <2>1, <2>2 DEF NotAnnounced, TransOf
<1>3. ASSUME driver[u] # Nil
      PROVE  /\ TransOf(u) = currentTransaction[u]
             /\ Log!Open(u) /\ TransOf(u) = Log!Latest(u).trans
  <2>1. Announced(u)
    BY <1>3 DEF TripsLogged
  <2>2. TransOf(u) = currentTransaction[u]
    BY <2>1 DEF Announced, TransOf
  <2>3. Log!Latest(u) = [kind |-> "Transaction", trans |-> currentTransaction[u], car |-> driver[u]]
    BY <2>1 DEF Announced, Log!Latest, Log!Transaction
  <2> QED BY <2>1, <2>2, <2>3 DEF Announced, Log!Open
<1>4. ASSUME NEW v \in Users \ {u} PROVE currentTransaction[v] # TransOf(u)
  <2>1. CASE currentTransaction[u] = Nil
    BY <2>1 DEF TypeOK, TripsLogged, TransOf, Nil
  <2>2. CASE currentTransaction[u] # Nil
    BY <2>2 DEF TripsLogged, TransOf
  <2> QED BY <2>1, <2>2
<1> QED BY <1>1, <1>2, <1>3, <1>4

LEMMA CreateFacts ==
    ASSUME TypeOK, TripsLogged, NEW u \in Users, CreateAndAddTransaction(u)
    PROVE  /\ currentTransaction'[u] = TransOf(u)
           /\ \A v \in Users \ {u} : currentTransaction'[v] = currentTransaction[v]
           /\ nextTrans' \in Nat /\ nextTrans' >= nextTrans /\ TransOf(u) < nextTrans'
<1>1. /\ currentTransaction'[u] = TransOf(u)
      /\ \A v \in Users \ {u} : currentTransaction'[v] = currentTransaction[v]
  BY DEF TypeOK, CreateAndAddTransaction
<1>2. /\ nextTrans' \in Nat /\ nextTrans' >= nextTrans /\ TransOf(u) < nextTrans'
  BY DEF TypeOK, TripsLogged, CreateAndAddTransaction, TransOf
<1> QED BY <1>1, <1>2

\* Numbers stay below nextTrans and different users have different ones.
LEMMA CreateNumbers ==
    ASSUME TypeOK, TripsLogged, NEW u \in Users, CreateAndAddTransaction(u)
    PROVE  /\ \A v \in Users : currentTransaction'[v] < nextTrans'
           /\ \A v, w \in Users :
                 currentTransaction'[v] = currentTransaction'[w] /\ currentTransaction'[v] # Nil
                    => v = w
<1>1. \A v \in Users : currentTransaction'[v] < nextTrans'
  <2> SUFFICES ASSUME NEW v \in Users PROVE currentTransaction'[v] < nextTrans'
    OBVIOUS
  <2>1. currentTransaction[v] < nextTrans /\ nextTrans \in Nat /\ currentTransaction[v] \in Int
    BY DEF TripsLogged, TypeOK, Nil
  <2> QED BY <2>1, CreateFacts
<1>2. ASSUME NEW v \in Users, NEW w \in Users, v # w,
             currentTransaction'[v] = currentTransaction'[w], currentTransaction'[v] # Nil
      PROVE  FALSE
  <2>1. CASE v = u
    BY <1>2, <2>1, CreateFacts, TransOfFacts
  <2>2. CASE w = u
    BY <1>2, <2>2, CreateFacts, TransOfFacts
  <2>3. CASE v # u /\ w # u
    BY <1>2, <2>3, CreateFacts DEF TripsLogged
  <2> QED BY <2>1, <2>2, <2>3
<1> QED BY <1>1, <1>2

\* A user that goes on looking sends nothing.
LEMMA CreateOnly ==
    ASSUME TypeOK, TripsLogged, NEW u \in Users, CreateAndAddTransaction(u),
           UNCHANGED <<driver, sent>>
    PROVE  TripsLogged'
<1>1. \A v \in Users : IF driver'[v] # Nil THEN Announced(v)' ELSE NotAnnounced(v)'
  <2> SUFFICES ASSUME NEW v \in Users
               PROVE  IF driver'[v] # Nil THEN Announced(v)' ELSE NotAnnounced(v)'
    OBVIOUS
  <2>1. CASE v # u
    BY <2>1, CreateFacts DEF TripsLogged, Announced, NotAnnounced, Log!Open, Log!Latest,
       Log!Unused, Log!Transaction
  <2>2. CASE v = u /\ driver[u] # Nil
    BY <2>2, CreateFacts, TransOfFacts DEF TripsLogged, Announced, Log!Transaction
  <2>3. CASE v = u /\ driver[u] = Nil
    <3>1. ~Log!Open(u) /\ Log!Unused(TransOf(u)) /\ currentTransaction'[u] = TransOf(u)
      BY <2>3, CreateFacts, TransOfFacts
    <3> QED BY <2>3, <3>1 DEF NotAnnounced, Log!Open, Log!Latest, Log!Unused
  <2> QED BY <2>1, <2>2, <2>3
<1>2. \A v \in Users : \A i \in 1 .. Len(sent'[v]) : sent'[v][i].trans < nextTrans'
  <2> SUFFICES ASSUME NEW v \in Users, NEW i \in 1 .. Len(sent[v])
               PROVE  sent[v][i].trans < nextTrans'
    OBVIOUS
  <2>1. sent[v][i] \in Messages
    BY DEF TypeOK
  <2>2. sent[v][i].trans \in Nat /\ sent[v][i].trans < nextTrans /\ nextTrans \in Nat
    BY <2>1 DEF Messages, TripsLogged, TypeOK
  <2> QED BY <2>2, CreateFacts
<1> QED BY <1>1, <1>2, CreateNumbers DEF TripsLogged

\* A message appended to u's log: the others are as before.
LEMMA SendFacts ==
    ASSUME TypeOK, NEW u \in Users, NEW m \in Messages,
           sent' = [sent EXCEPT ![u] = Append(sent[u], m)]
    PROVE  /\ \A v \in Users \ {u} : sent'[v] = sent[v]
           /\ Len(sent[u]) \in Nat
           /\ Len(sent'[u]) = Len(sent[u]) + 1
           /\ \A i \in 1 .. Len(sent[u]) : sent'[u][i] = sent[u][i]
           /\ sent'[u][Len(sent[u]) + 1] = m
<1>1. sent[u] \in Seq(Messages)
  BY DEF TypeOK
<1>2. sent'[u] = Append(sent[u], m)
  BY DEF TypeOK
<1>3. \A v \in Users \ {u} : sent'[v] = sent[v]
  BY DEF TypeOK
<1> QED BY <1>1, <1>2, <1>3

\* A number other than the one sent is as unused as before.
LEMMA StillUnused ==
    ASSUME TypeOK, NEW u \in Users, NEW m \in Messages,
           sent' = [sent EXCEPT ![u] = Append(sent[u], m)],
           NEW t \in Nat, t # m.trans, Log!Unused(t)
    PROVE  Log!Unused(t)'
<1> SUFFICES ASSUME NEW v \in Users, NEW i \in 1 .. Len(sent'[v])
             PROVE  sent'[v][i].trans # t
  BY DEF Log!Unused
<1>1. CASE v # u
  BY <1>1, SendFacts DEF Log!Unused
<1>2. CASE v = u /\ i <= Len(sent[u])
  <2>1. i \in 1 .. Len(sent[u])
    BY <1>2, SendFacts
  <2> QED BY <1>2, <2>1, SendFacts DEF Log!Unused
<1>3. CASE v = u /\ i = Len(sent[u]) + 1
  BY <1>3, SendFacts
<1> QED BY <1>1, <1>2, <1>3, SendFacts

\* The numbers in the log stay below nextTrans.
LEMMA LoggedBelow ==
    ASSUME TypeOK, TripsLogged, NEW u \in Users, NEW m \in Messages,
           sent' = [sent EXCEPT ![u] = Append(sent[u], m)],
           nextTrans' \in Nat, nextTrans' >= nextTrans, m.trans < nextTrans'
    PROVE  \A v \in Users : \A i \in 1 .. Len(sent'[v]) : sent'[v][i].trans < nextTrans'
<1> SUFFICES ASSUME NEW v \in Users, NEW i \in 1 .. Len(sent'[v])
             PROVE  sent'[v][i].trans < nextTrans'
  OBVIOUS
<1>1. ASSUME NEW w \in Users, NEW j \in 1 .. Len(sent[w]) PROVE sent[w][j].trans < nextTrans'
  <2>1. sent[w][j] \in Messages
    BY DEF TypeOK
  <2>2. sent[w][j].trans \in Nat /\ sent[w][j].trans < nextTrans /\ nextTrans \in Nat
    BY <2>1 DEF Messages, TripsLogged, TypeOK
  <2> QED BY <2>2
<1>2. CASE v # u
  BY <1>1, <1>2, SendFacts
<1>3. CASE v = u /\ i <= Len(sent[u])
  <2>1. i \in 1 .. Len(sent[u])
    BY <1>3, SendFacts
  <2> QED BY <1>1, <1>3, <2>1, SendFacts
<1>4. CASE v = u /\ i = Len(sent[u]) + 1
  BY <1>4, SendFacts
<1> QED BY <1>2, <1>3, <1>4, SendFacts

\* A user that sends "Transaction" announces a ride of RideLog.
LEMMA SendAnnounces ==
    ASSUME TypeOK, TripsLogged, NEW u \in Users, NEW c \in Cars,
           CreateAndAddTransaction(u), SendTransaction(u, c)
    PROVE  TripsLogged' /\ Log!Announce(u, TransOf(u), c) /\ TransOf(u) \in 0 .. nextTrans
<1> DEFINE m == [kind |-> "Transaction", trans |-> TransOf(u), car |-> c]
<1>1. TransOf(u) \in Nat /\ TransOf(u) \in 0 .. nextTrans
  BY TransOfFacts
<1>2. m \in Messages
  BY <1>1 DEF Messages
<1>3. sent' = [sent EXCEPT ![u] = Append(sent[u], m)]
  BY DEF SendTransaction
<1>4. driver' = [driver EXCEPT ![u] = c] /\ c # Nil
  BY DispatchConstants DEF SendTransaction, Cars, Nil
<1>5. Log!Announce(u, TransOf(u), c)
  BY <1>3, TransOfFacts DEF Log!Announce, Log!Transaction, TypeOK
<1> HIDE DEF m
<1>6. /\ \A v \in Users \ {u} : sent'[v] = sent[v]
      /\ Len(sent[u]) \in Nat /\ Len(sent'[u]) = Len(sent[u]) + 1
      /\ sent'[u][Len(sent[u]) + 1] = m
  BY <1>2, <1>3, SendFacts
<1>7. m.trans = TransOf(u) /\ m = Log!Transaction(TransOf(u), c)
  BY DEF m, Log!Transaction
<1>8. \A v \in Users : IF driver'[v] # Nil THEN Announced(v)' ELSE NotAnnounced(v)'
  <2> SUFFICES ASSUME NEW v \in Users
               PROVE  IF driver'[v] # Nil THEN Announced(v)' ELSE NotAnnounced(v)'
    OBVIOUS
  <2>1. CASE v = u
    <3>1. /\ Len(sent'[u]) > 0
          /\ sent'[u][Len(sent'[u])] = Log!Transaction(TransOf(u), c)
      <4>1. Len(sent'[u]) > 0
        BY <1>6
      <4>2. sent'[u][Len(sent'[u])] = m
        BY <1>6
      <4> QED BY <1>7, <4>1, <4>2
    <3>2. currentTransaction'[u] = TransOf(u) /\ TransOf(u) # Nil
      BY <1>1, CreateFacts DEF Nil
    <3>3. driver'[u] = c
      BY <1>4 DEF TypeOK
    <3> QED BY <1>4, <2>1, <3>1, <3>2, <3>3 DEF Announced, Log!Transaction
  <2>2. CASE v # u
    <3>1. driver'[v] = driver[v]
      BY <1>4, <2>2 DEF TypeOK
    <3>2. /\ driver'[v] = driver[v] /\ currentTransaction'[v] = currentTransaction[v]
          /\ sent'[v] = sent[v]
      BY <1>6, <2>2, <3>1, CreateFacts
    <3>3. CASE driver[v] # Nil
      BY <3>2, <3>3 DEF TripsLogged, Announced, Log!Transaction
    <3>4. CASE driver[v] = Nil
      <4>1. ~Log!Open(v) /\ (currentTransaction[v] # Nil => Log!Unused(currentTransaction[v]))
        BY <3>4 DEF TripsLogged, NotAnnounced
      <4>2. ~Log!Open(v)'
        BY <3>2, <4>1 DEF Log!Open, Log!Latest
      <4>3. ASSUME currentTransaction[v] # Nil PROVE Log!Unused(currentTransaction[v])'
        <5>1. currentTransaction[v] \in Nat /\ currentTransaction[v] # m.trans
          BY <1>7, <2>2, <4>3, TransOfFacts DEF TypeOK
        <5>2. /\ Log!Unused(currentTransaction[v])
              /\ currentTransaction'[v] = currentTransaction[v]
          BY <3>2, <4>1, <4>3
        <5>3. \A w \in Users : \A i \in 1 .. Len(sent'[w]) : sent'[w][i].trans # currentTransaction[v]
          BY <1>2, <1>3, <5>1, <5>2, StillUnused DEF Log!Unused
        <5> QED BY <5>2, <5>3 DEF Log!Unused
      <4>4. currentTransaction'[v] # Nil => Log!Unused(currentTransaction[v])'
        BY <3>2, <4>3
      <4> QED BY <3>2, <3>4, <4>2, <4>4 DEF NotAnnounced
    <3> QED BY <3>3, <3>4
  <2> QED BY <2>1, <2>2
<1>9. \A v \in Users : \A i \in 1 .. Len(sent'[v]) : sent'[v][i].trans < nextTrans'
  BY <1>2, <1>3, <1>7, CreateFacts, LoggedBelow
<1>10. TripsLogged'
  BY <1>8, <1>9, CreateNumbers DEF TripsLogged
<1> QED BY <1>1, <1>5, <1>10

\* dropOff ends the ride that was announced last.
LEMMA DropOffEnds ==
    ASSUME TypeOK, TripsLogged, NEW p \in Users, CanDropOff(p), DropOffUser(p)
    PROVE  TripsLogged' /\ Log!End(p)
<1> DEFINE m == [kind |-> "addEndHour", trans |-> currentTransaction[p], car |-> driver[p]]
<1>1. m \in Messages /\ currentTransaction[p] \in Nat
  BY DEF TypeOK, CanDropOff, Messages
<1>2. /\ sent' = [sent EXCEPT ![p] = Append(sent[p], m)]
      /\ currentTransaction' = [currentTransaction EXCEPT ![p] = Nil]
      /\ driver' = [driver EXCEPT ![p] = Nil]
      /\ nextTrans' = nextTrans
  BY DEF DropOffUser
<1>3. Announced(p)
  BY DEF CanDropOff, TripsLogged
<1>4. Log!Latest(p) = [kind |-> "Transaction", trans |-> currentTransaction[p], car |-> driver[p]]
  BY <1>3 DEF Announced, Log!Latest, Log!Transaction
<1>5. Log!End(p)
  BY <1>2, <1>3, <1>4 DEF Log!End, Log!Open, Log!AddEndHour, Announced, TypeOK
<1> HIDE DEF m
<1>6. m.trans = currentTransaction[p] /\ m.kind = "addEndHour"
  BY DEF m
<1>7. \A v \in Users : IF driver'[v] # Nil THEN Announced(v)' ELSE NotAnnounced(v)'
  <2> SUFFICES ASSUME NEW v \in Users
               PROVE  IF driver'[v] # Nil THEN Announced(v)' ELSE NotAnnounced(v)'
    OBVIOUS
  <2>1. CASE v = p
    <3>1. sent'[p][Len(sent'[p])].kind = "addEndHour"
      <4>1. /\ Len(sent[p]) \in Nat /\ Len(sent'[p]) = Len(sent[p]) + 1
            /\ sent'[p][Len(sent[p]) + 1] = m
        BY <1>1, <1>2, SendFacts
      <4> QED BY <1>6, <4>1
    <3>2. driver'[p] = Nil /\ currentTransaction'[p] = Nil
      BY <1>2 DEF TypeOK
    <3> QED BY <2>1, <3>1, <3>2 DEF NotAnnounced, Log!Open, Log!Latest
  <2>2. CASE v # p
    <3>1. /\ driver'[v] = driver[v] /\ currentTransaction'[v] = currentTransaction[v]
          /\ sent'[v] = sent[v]
      BY <1>1, <1>2, <2>2, SendFacts DEF TypeOK
    <3>2. CASE driver[v] # Nil
      BY <3>1, <3>2 DEF TripsLogged, Announced, Log!Transaction
    <3>3. CASE driver[v] = Nil
      <4>1. ~Log!Open(v) /\ (currentTransaction[v] # Nil => Log!Unused(currentTransaction[v]))
        BY <3>3 DEF TripsLogged, NotAnnounced
      <4>2. ~Log!Open(v)'
        BY <3>1, <4>1 DEF Log!Open, Log!Latest
      <4>3. ASSUME currentTransaction[v] # Nil PROVE Log!Unused(currentTransaction[v])'
        <5>1. currentTransaction[v] \in Nat /\ currentTransaction[v] # m.trans
          BY <1>6, <2>2, <4>3 DEF TypeOK, TripsLogged
        <5>2. /\ Log!Unused(currentTransaction[v])
              /\ currentTransaction'[v] = currentTransaction[v]
          BY <3>1, <4>1, <4>3
        <5>3. \A w \in Users : \A i \in 1 .. Len(sent'[w]) : sent'[w][i].trans # currentTransaction[v]
          BY <1>1, <1>2, <5>1, <5>2, StillUnused DEF Log!Unused
        <5> QED BY <5>2, <5>3 DEF Log!Unused
      <4>4. currentTransaction'[v] # Nil => Log!Unused(currentTransaction[v])'
        BY <3>1, <4>3
      <4> QED BY <3>1, <3>3, <4>2, <4>4 DEF NotAnnounced
    <3> QED BY <3>2, <3>3
  <2> QED BY <2>1, <2>2
<1>8. \A v \in Users : \A i \in 1 .. Len(sent'[v]) : sent'[v][i].trans < nextTrans'
  <2>1. nextTrans' \in Nat /\ nextTrans' >= nextTrans /\ m.trans < nextTrans'
    BY <1>2, <1>6 DEF TypeOK, TripsLogged
  <2> QED BY <1>1, <1>2, <2>1, LoggedBelow
<1>9. /\ \A v \in Users : currentTransaction'[v] < nextTrans'
      /\ \A v, w \in Users :
            currentTransaction'[v] = currentTransaction'[w] /\ currentTransaction'[v] # Nil => v = w
  BY <1>2 DEF TypeOK, TripsLogged, Nil
<1>10. TripsLogged'
  BY <1>7, <1>8, <1>9 DEF TripsLogged
<1> QED BY <1>5, <1>10

-----------------------------------------------------------------------------
(* The refinement. *)

LogStep == UNCHANGED sent \/ Log!Step(0 .. nextTrans)

\* findCarAndUpdateGroup announces a ride if it finds a car, and nothing
\* otherwise.
LEMMA FindCarLogs ==
    ASSUME TypeOK, TripsLogged, NEW u \in Users, NEW group \in Seq(Users),
           CreateAndAddTransaction(u), FindCarAndUpdateGroup(u, group)
    PROVE  TripsLogged' /\ LogStep
<1>1. CASE UNCHANGED <<driver, sent>>
  BY <1>1, CreateOnly DEF LogStep
<1>2. CASE \E c \in isFree : SendTransaction(u, c)
  <2>1. PICK c \in isFree : SendTransaction(u, c)
    BY <1>2
  <2>2. c \in Cars
    BY DEF TypeOK
  <2>3. TripsLogged' /\ Log!Announce(u, TransOf(u), c) /\ TransOf(u) \in 0 .. nextTrans
    BY <2>1, <2>2, SendAnnounces
  <2> QED BY <2>2, <2>3 DEF LogStep, Log!Step
<1> QED BY <1>1, <1>2 DEF FindCarAndUpdateGroup

LEMMA TripsStep ==
    ASSUME CarsOK, TripsLogged, [Next]_vars
    PROVE  TripsLogged' /\ LogStep
<1> USE DEF CarsOK
<1>1. CASE NextCycle \/ StopSim \/ UNCHANGED vars
  <2>1. UNCHANGED tripLog
    BY <1>1 DEF NextCycle, StopSim, vars, userVars, tripVars, tripLog
  <2> QED BY <2>1, SameTrips DEF LogStep, tripLog
<1>2. ASSUME NEW u \in Users, UpdateTarget(u) \/ MoveIdle(u)
      PROVE  TripsLogged' /\ LogStep
  <2>1. UNCHANGED tripLog
    BY <1>2 DEF UpdateTarget, MoveIdle, userVars, tripVars, tripLog
  <2> QED BY <2>1, SameTrips DEF LogStep, tripLog
<1>3. ASSUME NEW u \in Users, KeepLooking(u) PROVE TripsLogged' /\ LogStep
  BY <1>3, CreateOnly DEF KeepLooking, LogStep
<1>4. ASSUME NEW u \in Users, FormGroup(u) PROVE TripsLogged' /\ LogStep
  <2>1. PICK group \in FindPeople(u) : FindCarAndUpdateGroup(u, group)
    BY <1>4 DEF FormGroup
  <2>2. group \in Seq(Users) /\ CreateAndAddTransaction(u)
    BY <1>4, FindPeopleFacts DEF FormGroup
  <2> QED BY <2>1, <2>2, FindCarLogs
<1>5. ASSUME NEW u \in Users, RetryGroup(u) PROVE TripsLogged' /\ LogStep
  <2>1. copassengers[u] \in Seq(Users)
    BY DEF TypeOK
  <2>2. CreateAndAddTransaction(u) /\ FindCarAndUpdateGroup(u, copassengers[u])
    BY <1>5 DEF RetryGroup
  <2> QED BY <2>1, <2>2, FindCarLogs
<1>6. ASSUME NEW u \in Users, Confirm(u) PROVE TripsLogged' /\ LogStep
  <2>1. myBlockCar[u] \in Cars
    BY <1>6 DEF TypeOK, Confirm
  <2>2. CreateAndAddTransaction(u) /\ SendTransaction(u, myBlockCar[u])
    BY <1>6 DEF Confirm
  <2>3. /\ TripsLogged' /\ Log!Announce(u, TransOf(u), myBlockCar[u])
        /\ TransOf(u) \in 0 .. nextTrans
    BY <2>1, <2>2, SendAnnounces
  <2> QED BY <2>1, <2>3 DEF LogStep, Log!Step
<1>7. ASSUME NEW c \in Cars, CarMove(c) PROVE TripsLogged' /\ LogStep
  <2>1. CASE CarWander(c) \/ CarDrive(c) \/ CarPickUp(c) \/ CarDropOffFails(c)
    <3>1. UNCHANGED tripLog
      BY <2>1 DEF CarWander, CarDrive, CarPickUp, CarDropOffFails, userVars, tripVars, tripLog
    <3> QED BY <3>1, SameTrips DEF LogStep, tripLog
  <2>2. CASE CarDropOff(c)
    <3>1. PICK i \in FindNextTarget(c) : CanDropOff(passengers[c][i]) /\ DropOffUser(passengers[c][i])
      BY <2>2 DEF CarDropOff
    <3>2. passengers[c][i] \in Users
      BY <2>2, FindNextTargetFacts DEF CarDropOff
    <3>3. TripsLogged' /\ Log!End(passengers[c][i])
      BY <3>1, <3>2, DropOffEnds
    <3> QED BY <3>2, <3>3 DEF LogStep, Log!Step
  <2> QED BY <1>7, <2>1, <2>2 DEF CarMove
<1> QED BY <1>1, <1>2, <1>3, <1>4, <1>5, <1>6, <1>7 DEF Next, UserMove

LEMMA TripsInit == Init => TripsLogged /\ Log!Init
BY DEF Init, TripsLogged, NotAnnounced, Log!Init, Log!Open, Nil

\* What the users send is a behaviour of RideLog.
THEOREM Refinement == Spec => ImplementsRideLog
<1>1. Init => CarsOK /\ TripsLogged /\ Log!Init
  BY CarsOKInit, TripsInit
<1>2. CarsOK /\ TripsLogged /\ [Next]_vars => CarsOK' /\ TripsLogged' /\ [Log!Step(0 .. nextTrans)]_sent
  BY CarsOKStep, TripsStep DEF LogStep
<1> QED BY <1>1, <1>2, PTL DEF Spec, ImplementsRideLog

\* The lemmas about RideLog, for what the users send.
LogP == INSTANCE RideLogProofs WITH log <- sent

LEMMA LogStepWellFormed ==
    ASSUME TypeOK, RidesWellFormed, LogStep
    PROVE  RidesWellFormed'
<1>1. LogP!TypeOK /\ LogP!RidesWellFormed
  BY DEF TypeOK, LogP!TypeOK, Messages, LogP!Messages, RidesWellFormed, Log!RidesWellFormed,
     LogP!RidesWellFormed, Log!EndsAnnounced, LogP!EndsAnnounced, Log!EndedOnce, LogP!EndedOnce,
     Log!OwnTransactions, LogP!OwnTransactions, Log!Transaction, LogP!Transaction
<1>2. CASE UNCHANGED sent
  BY <1>2 DEF RidesWellFormed, Log!RidesWellFormed, Log!EndsAnnounced, Log!EndedOnce,
     Log!OwnTransactions, Log!Transaction
<1>3. CASE Log!Step(0 .. nextTrans)
  <2>1. 0 .. nextTrans \subseteq Nat
    BY DEF TypeOK
  <2>2. LogP!Step(Nat)
    BY <1>3, <2>1 DEF Log!Step, LogP!Step, Log!End, LogP!End, Log!Announce, LogP!Announce,
       Log!Open, LogP!Open, Log!Latest, LogP!Latest, Log!Unused, LogP!Unused,
       Log!Transaction, LogP!Transaction, Log!AddEndHour, LogP!AddEndHour
  <2>3. PICK u \in Users, m \in LogP!Messages : LogP!Appends(u, m)
    BY <1>1, <2>2, LogP!StepAppends
  <2>4. LogP!RidesWellFormed'
    BY <1>1, <2>3, LogP!WellFormedStep
  <2> QED
    BY <2>4 DEF RidesWellFormed, Log!RidesWellFormed,
     LogP!RidesWellFormed, Log!EndsAnnounced, LogP!EndsAnnounced, Log!EndedOnce, LogP!EndedOnce,
     Log!OwnTransactions, LogP!OwnTransactions, Log!Transaction, LogP!Transaction
<1> QED BY <1>2, <1>3 DEF LogStep

\* An end hour follows the announcement of the same transaction and car, is
\* sent once, and no two users share a transaction.
THEOREM WellFormed == Spec => []RidesWellFormed
<1>1. Init => CarsOK /\ TripsLogged /\ RidesWellFormed
  <2>1. Init => RidesWellFormed
    BY DEF Init, RidesWellFormed, Log!RidesWellFormed, Log!EndsAnnounced, Log!EndedOnce,
       Log!OwnTransactions
  <2> QED BY <2>1, CarsOKInit, TripsInit
<1>2. CarsOK /\ TripsLogged /\ RidesWellFormed /\ [Next]_vars
         => CarsOK' /\ TripsLogged' /\ RidesWellFormed'
  BY CarsOKStep, TripsStep, LogStepWellFormed DEF CarsOK
<1> QED BY <1>1, <1>2, PTL DEF Spec

-----------------------------------------------------------------------------
(***************************************************************************)
(* Proofs about the dispatch with a car for every user, for any number of  *)
(* users and cars and any working hours; the first part for rides of any   *)
(* length, the second for rides that are over before the hour changes.     *)
(*                                                                         *)
(* The argument.  A user without a car finds a free one, because each busy *)
(* car has a passenger left, who has no other car (FreeCar, by counting):  *)
(* a group has its car at once (GroupsHaveCars) and nobody ever asks a     *)
(* second time for the same trip.  Only users who travel are taken into a  *)
(* group (AskersMove), so that a passenger is never taken away from a car. *)
(* A car has passed as many destinations as it counts, and never returns   *)
(* to one (RidesOK).  The members of a group announce their rides in their *)
(* own turns, at the latest in the cycle in which the car has picked up    *)
(* the first passenger (ConfirmsInTime): before the car turns to           *)
(* destinations, all have a transaction and a driver.                      *)
(*                                                                         *)
(* If moreover nobody travels when the hour changes, a user on a trip      *)
(* never gets a new objective (StayPut), so that the car goes where the    *)
(* transaction says (PlacesOK).  Then nobody announces a ride twice, who   *)
(* has announced it waits or sits in the car (SeatsOK), and each stop for  *)
(* a pick-up finds a passenger who waits: the car has all of them when it  *)
(* has counted them (PickUpsOK).                                           *)
(***************************************************************************)

Enough == NbBlockCarUser <= NbBlockCar /\ ~SentinelInReach

\* The passengers of a car that have been dropped off.
GoneAt(c) == {i \in 1 .. Len(passengers[c]) : endPoints[c][i] = Gone}

\* A car under way has no passenger twice and counts those it has dropped
\* off; it never heads for a destination where it has been.
RideOK(c) ==
    c \notin isFree =>
        /\ \A i, j \in 1 .. Len(passengers[c]) : passengers[c][i] = passengers[c][j] => i = j
        /\ objective[c] = "pickUp" => GoneAt(c) = {}
        /\ objective[c] = "dropOff" => Cardinality(GoneAt(c)) = indexPassenger[c]
        /\ objective[c] = "dropOff" /\ indexNext[c] # 0 => indexNext[c] \notin GoneAt(c)

RidesOK == \A c \in Cars : RideOK(c)

\* A group always has a car, and whoever asks without a group is on the move.
GroupsHaveCars == \A u \in Users : u \in inAGroup <=> myBlockCar[u] # Nil
AskersMove == askingForCar \ inAGroup \subseteq target

\* The car has moved in this cycle, or user v has yet to move in it.
Later(c, v) ==
    \/ phase = "car" /\ turn > c
    \/ phase = "world"
    \/ phase \in {"updateTarget", "move"} /\ turn <= v

\* A passenger that has not announced its ride yet will do so before its car
\* has picked up a second one.
ConfirmsInTime ==
    \A c \in Cars, v \in Users :
        Aboard(v, c) /\ driver[v] = Nil =>
            /\ v \in target /\ objective[c] = "pickUp" /\ Len(passengers[c]) > 1
            /\ indexPassenger[c] = 0 \/ (indexPassenger[c] = 1 /\ Later(c, v))

EnoughInv ==
    /\ CarsOK /\ TripsLogged
    /\ OneCarPerUser /\ RidesOK /\ GroupsHaveCars /\ AskersMove /\ ConfirmsInTime
    /\ NoError

-----------------------------------------------------------------------------
(* The cars' lists. *)

LEMMA Numbers ==
    /\ Users \subseteq Nat /\ Cars \subseteq Nat /\ Nil \notin Users /\ Nil \notin Cars
    /\ IsFiniteSet(Users) /\ Cardinality(Users) = NbBlockCarUser
    /\ IsFiniteSet(Cars) /\ Cardinality(Cars) = NbBlockCar
    /\ NbBlockCarUser \in Nat \ {0} /\ NbBlockCar \in Nat \ {0}
<1>1. NbBlockCarUser \in Nat \ {0} /\ NbBlockCar \in Nat \ {0}
  BY DispatchConstants
<1>2. \A n \in Nat \ {0} : IsFiniteSet(0 .. n - 1) /\ Cardinality(0 .. n - 1) = n
  BY FS_Interval
<1> QED BY <1>1, <1>2 DEF Users, Cars, Nil

LEMMA FindPeopleMore ==
    ASSUME TypeOK, NEW u \in Users, NEW group \in FindPeople(u)
    PROVE  /\ group \in Seq(Users) /\ Len(group) > 0 /\ Listed(group, u)
           /\ \A v \in Users : Listed(group, v) <=> \E i \in 1 .. Len(group) : group[i] = v
           /\ \A v \in Users : Listed(group, v) => v = u \/ v \in askingForCar \ inAGroup
           /\ \A i, j \in 1 .. Len(group) : group[i] = group[j] => i = j
<1> DEFINE eligible == (askingForCar \ inAGroup) \cup {u}
<1>1. group \in Seq(Users) /\ Len(group) > 0
  BY FindPeopleFacts
<1>2. DOMAIN group = 1 .. Len(group) /\ Len(group) \in Nat
  BY <1>1
<1>3. /\ Listed(group, u) /\ \A i, j \in DOMAIN group : i < j => group[i] < group[j]
  BY DEF FindPeople
<1>4. PICK n \in 1 .. Cardinality(eligible) : group \in [1 .. n -> eligible]
  BY DEF FindPeople
<1>5. \A i \in DOMAIN group : group[i] \in eligible /\ group[i] \in Nat
  <2>1. \A i \in DOMAIN group : group[i] \in eligible
    BY <1>4
  <2>2. \A i \in DOMAIN group : group[i] \in Users
    BY <1>1, <1>2
  <2> QED BY <2>1, <2>2, Numbers
<1>6. ASSUME NEW i \in 1 .. Len(group), NEW j \in 1 .. Len(group), group[i] = group[j], i # j
      PROVE  FALSE
  <2>1. i < j \/ j < i
    BY <1>6
  <2>2. group[i] < group[j] \/ group[j] < group[i]
    BY <1>2, <1>3, <2>1
  <2>3. group[i] \in Nat /\ group[j] \in Nat
    BY <1>2, <1>5
  <2> QED BY <1>6, <2>2, <2>3
<1> QED BY <1>1, <1>2, <1>3, <1>5, <1>6 DEF Listed

LEMMA BusyFacts ==
    ASSUME TypeOK, CarListsAgree, NEW c \in Cars, c \notin isFree
    PROVE  /\ BusyCarAligned(c) /\ Len(passengers[c]) \in Nat \ {0}
           /\ passengers[c] \in Seq(Users) /\ endPoints[c] \in Seq(Points)
           /\ IsFiniteSet(GoneAt(c)) /\ Cardinality(GoneAt(c)) \in Nat
           /\ IsFiniteSet(1 .. Len(passengers[c]))
           /\ Cardinality(1 .. Len(passengers[c])) = Len(passengers[c])
<1>1. BusyCarAligned(c) /\ passengers[c] \in Seq(Users) /\ endPoints[c] \in Seq(Points)
  BY DEF CarListsAgree, CarOK, TypeOK
<1>2. Len(passengers[c]) \in Nat \ {0}
  BY <1>1 DEF BusyCarAligned
<1>3. \A n \in Nat \ {0} : IsFiniteSet(1 .. n) /\ Cardinality(1 .. n) = n
  BY FS_Interval
<1>4. IsFiniteSet(GoneAt(c))
  BY <1>2, <1>3, FS_Subset DEF GoneAt
<1> QED BY <1>1, <1>2, <1>3, <1>4, FS_CardinalityType

\* A car under way has somebody left.
LEMMA BusyHasLeft ==
    ASSUME TypeOK, CarListsAgree, RidesOK, NEW c \in Cars, c \notin isFree
    PROVE  \E i \in 1 .. Len(passengers[c]) : endPoints[c][i] # Gone
<1> SUFFICES ASSUME \A i \in 1 .. Len(passengers[c]) : endPoints[c][i] = Gone PROVE FALSE
  OBVIOUS
<1>1. GoneAt(c) = 1 .. Len(passengers[c])
  BY DEF GoneAt
<1>2. /\ BusyCarAligned(c) /\ Len(passengers[c]) \in Nat \ {0}
      /\ Cardinality(1 .. Len(passengers[c])) = Len(passengers[c])
  BY BusyFacts
<1>3. GoneAt(c) # {}
  BY <1>1, <1>2
<1>4. Cardinality(GoneAt(c)) = indexPassenger[c]
  BY <1>2, <1>3 DEF RidesOK, RideOK, BusyCarAligned
<1>5. indexPassenger[c] \in 0 .. Len(passengers[c]) - 1
  BY <1>2 DEF BusyCarAligned
<1> QED BY <1>1, <1>2, <1>4, <1>5

\* findNextTarget returns a destination where the car has not been.
LEMMA DropOffLeft ==
    ASSUME Enough, TypeOK, CarListsAgree, RidesOK, NEW c \in Cars, objective[c] = "dropOff",
           NEW i \in FindNextTarget(c)
    PROVE  /\ c \notin isFree /\ i \in 1 .. Len(passengers[c]) /\ endPoints[c][i] # Gone
           /\ passengers[c][i] \in Users /\ Aboard(passengers[c][i], c)
<1>1. c \notin isFree /\ i \in 1 .. Len(passengers[c]) /\ passengers[c][i] \in Users
  BY FindNextTargetFacts
<1>2. BusyCarAligned(c) /\ endPoints[c] \in Seq(Points)
  BY <1>1, BusyFacts
<1>3. DOMAIN endPoints[c] = 1 .. Len(passengers[c])
  BY <1>2 DEF BusyCarAligned
<1>4. CASE indexNext[c] # 0
  <2>1. i = indexNext[c]
    BY <1>4 DEF FindNextTarget
  <2>2. i \notin GoneAt(c)
    BY <1>1, <1>4, <2>1 DEF RidesOK, RideOK
  <2> QED BY <1>1, <2>2 DEF GoneAt, Aboard
<1>5. CASE indexNext[c] = 0
  <2>1. i \in NextDropOff(c)
    BY <1>5 DEF FindNextTarget
  <2>2. {j \in DOMAIN endPoints[c] : endPoints[c][j] # Gone} # {}
    BY <1>1, <1>3, BusyHasLeft
  <2>3. ~SentinelInReach
    BY DEF Enough
  <2>4. i \in {j \in DOMAIN endPoints[c] : endPoints[c][j] # Gone}
    BY <2>1, <2>2, <2>3 DEF NextDropOff
  <2> QED BY <1>1, <2>4 DEF Aboard
<1> QED BY <1>4, <1>5

\* A user without a car finds a free one: each busy car has another user.
LEMMA FreeCar ==
    ASSUME Enough, TypeOK, CarListsAgree, RidesOK, OneCarPerUser,
           NEW u \in Users, myBlockCar[u] = Nil
    PROVE  isFree # {}
<1> SUFFICES ASSUME isFree = {} PROVE FALSE
  OBVIOUS
<1> DEFINE S == {v \in Users : myBlockCar[v] \in Cars}
           f == [v \in S |-> myBlockCar[v]]
<1>1. ASSUME NEW c \in Cars PROVE \E v \in S : f[v] = c
  <2>1. PICK i \in 1 .. Len(passengers[c]) : endPoints[c][i] # Gone
    BY BusyHasLeft
  <2>2. passengers[c][i] \in Users
    BY DEF TypeOK
  <2>3. Aboard(passengers[c][i], c)
    BY <2>1 DEF Aboard
  <2> QED BY <2>2, <2>3 DEF OneCarPerUser
<1>2. f \in Surjection(S, Cars)
  BY <1>1 DEF Surjection
<1>3. S \subseteq Users \ {u}
  BY Numbers
<1>4. IsFiniteSet(Users \ {u}) /\ Cardinality(Users \ {u}) = NbBlockCarUser - 1
  BY Numbers, FS_RemoveElement
<1>5. IsFiniteSet(S) /\ Cardinality(S) <= NbBlockCarUser - 1 /\ Cardinality(S) \in Nat
  BY <1>3, <1>4, FS_Subset, FS_CardinalityType
<1>6. NbBlockCar <= Cardinality(S)
  BY <1>2, <1>5, FS_Surjection, Numbers
<1> QED BY <1>5, <1>6, Numbers DEF Enough

-----------------------------------------------------------------------------
(* What a step does to the cars. *)

LEMMA SameCarRides ==
    ASSUME NEW c \in Cars, SameCar(c)
    PROVE  /\ RideOK(c) => RideOK(c)'
           /\ \A v \in Users : Aboard(v, c)' <=> Aboard(v, c)
<1>1. GoneAt(c)' = GoneAt(c)
  BY DEF SameCar, GoneAt
<1>2. RideOK(c) => RideOK(c)'
  BY <1>1 DEF SameCar, RideOK
<1>3. ASSUME NEW v \in Users PROVE Aboard(v, c)' <=> Aboard(v, c)
  BY DEF SameCar, Aboard
<1> QED BY <1>2, <1>3

\* A free car is given a group.
LEMMA GiveCar ==
    ASSUME TypeOK, CarListsAgree, NEW c \in isFree, NEW group \in Seq(Users), Len(group) > 0,
           \A i, j \in 1 .. Len(group) : group[i] = group[j] => i = j,
           AddPassengers(c, group)
    PROVE  /\ RideOK(c)' /\ \A d \in Cars \ {c} : SameCar(d)
           /\ \A v \in Users : Aboard(v, c)' <=> \E i \in 1 .. Len(group) : group[i] = v
           /\ \A v \in Users : ~Aboard(v, c)
           /\ isFree' = isFree \ {c} /\ passengers'[c] = group
           /\ objective'[c] = "pickUp" /\ indexPassenger'[c] = 0 /\ indexNext'[c] = 0
           /\ Len(endPoints'[c]) = Len(group)
           /\ \A i \in 1 .. Len(group) :
                endPoints'[c][i] = [user |-> group[i], place |-> nextObjective[group[i]]]
           /\ \A i \in 1 .. Len(group) : endPoints'[c][i] # Gone
<1> DEFINE points == [i \in 1 .. Len(group) |->
                        [user |-> group[i], place |-> nextObjective[group[i]]]]
<1>1. c \in Cars /\ FreeCarClean(c)
  BY DEF TypeOK, CarListsAgree, CarOK
<1>2. Len(group) \in Nat /\ \A i \in 1 .. Len(group) : group[i] \in Users
  OBVIOUS
<1>3. endPoints' = [endPoints EXCEPT ![c] = endPoints[c] \o points]
  BY DEF AddPassengers
<1>4. points \in Seq([user : Users, place : Places]) /\ Len(points) = Len(group)
  <2>1. \A i \in 1 .. Len(group) :
           [user |-> group[i], place |-> nextObjective[group[i]]] \in [user : Users, place : Places]
    BY <1>2 DEF TypeOK
  <2> QED BY <1>2, <2>1
<1>5. endPoints'[c] = points
  <2>1. endPoints'[c] = << >> \o points
    BY <1>1, <1>3 DEF FreeCarClean, TypeOK
  <2>2. << >> \o points = points
    BY <1>4
  <2> QED BY <2>1, <2>2
<1>6. \A i \in 1 .. Len(group) :
        /\ endPoints'[c][i] = [user |-> group[i], place |-> nextObjective[group[i]]]
        /\ endPoints'[c][i] # Gone
  <2>1. \A i \in 1 .. Len(group) :
          endPoints'[c][i] = [user |-> group[i], place |-> nextObjective[group[i]]]
    BY <1>5
  <2>2. \A i \in 1 .. Len(group) : endPoints'[c][i] \in [user : Users, place : Places]
    BY <1>4, <1>5
  <2>3. Gone \notin [user : Users, place : Places]
    BY Numbers DEF Gone
  <2> QED BY <2>1, <2>2, <2>3, Zenon
<1> HIDE DEF points
<1>7. /\ isFree' = isFree \ {c} /\ passengers'[c] = group /\ objective'[c] = "pickUp"
      /\ indexPassenger'[c] = 0 /\ indexNext'[c] = 0
  BY <1>1 DEF AddPassengers, TypeOK, FreeCarClean
<1>8. \A d \in Cars \ {c} : SameCar(d)
  BY <1>1 DEF AddPassengers, SameCar, TypeOK
<1>9. GoneAt(c)' = {}
  BY <1>6, <1>7 DEF GoneAt
<1>10. RideOK(c)'
  BY <1>7, <1>9 DEF RideOK
<1>11. ASSUME NEW v \in Users PROVE Aboard(v, c)' <=> \E i \in 1 .. Len(group) : group[i] = v
  BY <1>6, <1>7 DEF Aboard
<1>12. \A v \in Users : ~Aboard(v, c)
  <2>1. 1 .. Len(passengers[c]) = {}
    <3>1. Len(<< >>) = 0 /\ 1 .. 0 = {}
      OBVIOUS
    <3> QED BY <1>1, <3>1 DEF FreeCarClean
  <2> QED BY <2>1 DEF Aboard
<1>13. Len(endPoints'[c]) = Len(group)
  BY <1>4, <1>5
<1> QED BY <1>6, <1>7, <1>8, <1>10, <1>11, <1>12, <1>13

\* A user is dropped off.
LEMMA DropOff ==
    ASSUME Enough, TypeOK, CarListsAgree, RidesOK, OneCarPerUser, NEW c \in Cars, CarDropOff(c)
    PROVE  \E i \in 1 .. Len(passengers[c]) :
            LET p == passengers[c][i] IN
            /\ p \in Users /\ endPoints[c][i] # Gone /\ Aboard(p, c) /\ myBlockCar[p] = c
            /\ CanDropOff(p) /\ DropOffUser(p)
            /\ RideOK(c)' /\ \A d \in Cars \ {c} : SameCar(d)
            /\ \A v \in Users : Aboard(v, c)' <=> Aboard(v, c) /\ v # p
            /\ \/ passengers'[c] = << >> /\ endPoints'[c] = << >> /\ isFree' = isFree \cup {c}
               \/ /\ passengers'[c] = passengers[c] /\ objective'[c] = "dropOff"
                  /\ endPoints'[c] = [endPoints[c] EXCEPT ![i] = Gone] /\ isFree' = isFree
<1> DEFINE n == Len(passengers[c])
<1>1. PICK i \in FindNextTarget(c) :
        /\ CanDropOff(passengers[c][i]) /\ DropOffUser(passengers[c][i])
        /\ IF indexPassenger[c] + 1 = Len(passengers[c])
           THEN FinishRide(c)
           ELSE /\ endPoints' = [endPoints EXCEPT ![c] = [endPoints[c] EXCEPT ![i] = Gone]]
                /\ indexPassenger' = [indexPassenger EXCEPT ![c] = indexPassenger[c] + 1]
                /\ UNCHANGED <<passengers, startPoints, isFree, objective>>
  BY DEF CarDropOff
<1> DEFINE p == passengers[c][i]
<1>2. objective[c] = "dropOff" /\ indexNext' = [indexNext EXCEPT ![c] = 0]
  BY DEF CarDropOff
<1>3. c \notin isFree /\ i \in 1 .. n /\ endPoints[c][i] # Gone /\ p \in Users /\ Aboard(p, c)
  BY <1>2, DropOffLeft
<1>4. /\ BusyCarAligned(c) /\ n \in Nat \ {0} /\ endPoints[c] \in Seq(Points)
      /\ Len(endPoints[c]) = n
      /\ IsFiniteSet(GoneAt(c)) /\ Cardinality(GoneAt(c)) \in Nat
      /\ IsFiniteSet(1 .. n) /\ Cardinality(1 .. n) = n
  BY <1>3, BusyFacts DEF BusyCarAligned
<1>5. Cardinality(GoneAt(c)) = indexPassenger[c]
      /\ \A j, k \in 1 .. n : passengers[c][j] = passengers[c][k] => j = k
  BY <1>2, <1>3 DEF RidesOK, RideOK
<1>6. i \notin GoneAt(c)
  BY <1>3 DEF GoneAt
<1>7. Cardinality(GoneAt(c) \cup {i}) = indexPassenger[c] + 1 /\ IsFiniteSet(GoneAt(c) \cup {i})
  BY <1>4, <1>5, <1>6, FS_AddElement
<1>8. myBlockCar[p] = c
  BY <1>3 DEF OneCarPerUser
<1>9. CASE indexPassenger[c] + 1 = n
  <2>1. FinishRide(c)
    BY <1>1, <1>9
  <2>2. GoneAt(c) \cup {i} = 1 .. n
    <3>1. GoneAt(c) \cup {i} \subseteq 1 .. n
      BY <1>3 DEF GoneAt
    <3> QED BY <1>4, <1>7, <1>9, <3>1, FS_Subset
  <2>3. ASSUME NEW v \in Users, Aboard(v, c) PROVE v = p
    <3>1. PICK j \in 1 .. n : passengers[c][j] = v /\ endPoints[c][j] # Gone
      BY <2>3 DEF Aboard
    <3>2. j \notin GoneAt(c)
      BY <3>1 DEF GoneAt
    <3> QED BY <2>2, <3>1, <3>2
  <2>4. /\ passengers'[c] = << >> /\ endPoints'[c] = << >> /\ isFree' = isFree \cup {c}
        /\ \A d \in Cars \ {c} : SameCar(d)
    BY <1>2, <2>1 DEF FinishRide, SameCar, TypeOK
  <2>5. \A v \in Users : ~(Aboard(v, c)')
    <3>1. Len(<< >>) = 0 /\ 1 .. 0 = {}
      OBVIOUS
    <3> QED BY <2>4, <3>1 DEF Aboard
  <2>6. RideOK(c)'
    BY <2>4 DEF RideOK
  <2> QED BY <1>1, <1>3, <1>8, <2>3, <2>4, <2>5, <2>6
<1>10. CASE indexPassenger[c] + 1 # n
  <2>1. /\ endPoints' = [endPoints EXCEPT ![c] = [endPoints[c] EXCEPT ![i] = Gone]]
        /\ indexPassenger' = [indexPassenger EXCEPT ![c] = indexPassenger[c] + 1]
        /\ UNCHANGED <<passengers, startPoints, isFree, objective>>
    BY <1>1, <1>10
  <2>2. endPoints'[c] = [endPoints[c] EXCEPT ![i] = Gone]
        /\ indexPassenger'[c] = indexPassenger[c] + 1 /\ indexNext'[c] = 0
    BY <1>2, <2>1 DEF TypeOK
  <2>3. \A d \in Cars \ {c} : SameCar(d)
    BY <1>2, <2>1 DEF SameCar, TypeOK
  <2>4. DOMAIN endPoints[c] = 1 .. n
    BY <1>4
  <2>5. endPoints'[c][i] = Gone /\ \A j \in 1 .. n : j # i => endPoints'[c][j] = endPoints[c][j]
    BY <1>3, <2>2, <2>4
  <2>6. GoneAt(c)' = GoneAt(c) \cup {i}
    BY <1>3, <2>1, <2>5 DEF GoneAt
  <2>7. RideOK(c)'
    BY <1>2, <1>5, <1>7, <2>1, <2>2, <2>6 DEF RideOK
  <2>8. ASSUME NEW v \in Users PROVE Aboard(v, c)' <=> Aboard(v, c) /\ v # p
    <3>1. \A j \in 1 .. n : endPoints'[c][j] # Gone <=> endPoints[c][j] # Gone /\ j # i
      BY <2>5
    <3> QED BY <1>3, <1>5, <2>1, <3>1 DEF Aboard
  <2> QED BY <1>1, <1>2, <1>3, <1>8, <2>1, <2>2, <2>3, <2>7, <2>8
<1> QED BY <1>9, <1>10

-----------------------------------------------------------------------------
(* The steps. *)

LEMMA FormGroupFacts ==
    ASSUME Enough, EnoughInv, NEW u \in Users, FormGroup(u)
    PROVE  \E group \in Seq(Users), c \in Cars :
            /\ c \in isFree /\ Listed(group, u)
            /\ \A v \in Users : Listed(group, v) => myBlockCar[v] = Nil
            /\ \A v \in Users : Listed(group, v) => v = u \/ v \in askingForCar \ inAGroup
            /\ \A v \in Users : Listed(group, v) /\ v # u => Len(group) > 1
            /\ \A v \in Users : Listed(group, v) <=> \E i \in 1 .. Len(group) : group[i] = v
            /\ myBlockCar' = [v \in Users |-> IF Listed(group, v) THEN c ELSE myBlockCar[v]]
            /\ inAGroup' = inAGroup \cup {v \in Users : Listed(group, v)}
            /\ SendTransaction(u, c)
            /\ RideOK(c)' /\ \A d \in Cars \ {c} : SameCar(d)
            /\ \A v \in Users : Aboard(v, c)' <=> Listed(group, v)
            /\ \A v \in Users : ~Aboard(v, c)
            /\ isFree' = isFree \ {c} /\ passengers'[c] = group
            /\ objective'[c] = "pickUp" /\ indexPassenger'[c] = 0 /\ indexNext'[c] = 0
            /\ Len(endPoints'[c]) = Len(group)
            /\ \A i \in 1 .. Len(group) :
                 endPoints'[c][i] = [user |-> group[i], place |-> nextObjective[group[i]]]
<1>1. TypeOK /\ CarListsAgree /\ RidesOK /\ OneCarPerUser /\ GroupsHaveCars
  BY DEF EnoughInv, CarsOK
<1>2. myBlockCar[u] = Nil /\ u \in target
  BY DEF FormGroup, MovePre
<1>3. PICK group \in FindPeople(u) :
        /\ inAGroup' = inAGroup \cup {v \in Users : Listed(group, v)}
        /\ FindCarAndUpdateGroup(u, group)
  BY DEF FormGroup
<1>4. /\ group \in Seq(Users) /\ Len(group) > 0 /\ Listed(group, u)
      /\ \A v \in Users : Listed(group, v) <=> \E i \in 1 .. Len(group) : group[i] = v
      /\ \A v \in Users : Listed(group, v) => v = u \/ v \in askingForCar \ inAGroup
      /\ \A i, j \in 1 .. Len(group) : group[i] = group[j] => i = j
  BY <1>1, FindPeopleMore
<1>5. isFree # {}
  BY <1>1, <1>2, FreeCar
<1>6. PICK c \in isFree :
        /\ myBlockCar' = [v \in Users |-> IF v = u \/ Listed(group, v) THEN c ELSE myBlockCar[v]]
        /\ AddPassengers(c, group)
        /\ SendTransaction(u, c)
  BY <1>3, <1>5 DEF FindCarAndUpdateGroup
<1>7. c \in Cars
  BY <1>1 DEF TypeOK
<1>8. /\ RideOK(c)' /\ \A d \in Cars \ {c} : SameCar(d)
      /\ \A v \in Users : Aboard(v, c)' <=> \E i \in 1 .. Len(group) : group[i] = v
      /\ \A v \in Users : ~Aboard(v, c)
      /\ isFree' = isFree \ {c} /\ passengers'[c] = group
      /\ objective'[c] = "pickUp" /\ indexPassenger'[c] = 0 /\ indexNext'[c] = 0
      /\ Len(endPoints'[c]) = Len(group)
      /\ \A i \in 1 .. Len(group) :
           endPoints'[c][i] = [user |-> group[i], place |-> nextObjective[group[i]]]
  BY <1>1, <1>4, <1>6, GiveCar
<1>9. \A v \in Users : Listed(group, v) => myBlockCar[v] = Nil
  BY <1>1, <1>2, <1>4 DEF GroupsHaveCars
<1>10. ASSUME NEW v \in Users, Listed(group, v), v # u PROVE Len(group) > 1
  <2>1. PICK i \in 1 .. Len(group), j \in 1 .. Len(group) : group[i] = v /\ group[j] = u
    BY <1>4, <1>10
  <2>2. i # j /\ Len(group) \in Nat
    BY <1>4, <1>10, <2>1
  <2> QED BY <2>1, <2>2
<1>11. \A v \in Users : Aboard(v, c)' <=> Listed(group, v)
  BY <1>4, <1>8
<1>12. myBlockCar' = [v \in Users |-> IF Listed(group, v) THEN c ELSE myBlockCar[v]]
  BY <1>4, <1>6
<1> QED BY <1>3, <1>4, <1>6, <1>7, <1>8, <1>9, <1>10, <1>11, <1>12

\* Every group got a car when it was formed.
LEMMA NoRetry ==
    ASSUME EnoughInv, NEW u \in Users PROVE ~RetryGroup(u)
BY DEF EnoughInv, GroupsHaveCars, RetryGroup

\* The steps that neither give a car nor drop a user off.
LEMMA QuietSteps ==
    ASSUME EnoughInv, [Next]_vars
    PROVE  \/ UNCHANGED <<passengers, endPoints, isFree, myBlockCar, inAGroup>>
           \/ \E u \in Users : FormGroup(u)
           \/ \E c \in Cars : CarDropOff(c)
BY NoRetry DEF Next, NextCycle, StopSim, UpdateTarget, UserMove, MoveIdle, KeepLooking, Confirm,
   CarMove, CarWander, CarDrive, CarPickUp, CarDropOffFails, vars, userVars, carVars

LEMMA OneCarStep ==
    ASSUME Enough, EnoughInv, [Next]_vars
    PROVE  OneCarPerUser' /\ GroupsHaveCars'
<1>1. TypeOK /\ CarListsAgree /\ RidesOK /\ OneCarPerUser /\ GroupsHaveCars
  BY DEF EnoughInv, CarsOK
<1>2. CASE UNCHANGED <<passengers, endPoints, isFree, myBlockCar, inAGroup>>
  BY <1>1, <1>2 DEF OneCarPerUser, Aboard, GroupsHaveCars
<1>3. ASSUME NEW u \in Users, FormGroup(u) PROVE OneCarPerUser' /\ GroupsHaveCars'
  <2>1. PICK group \in Seq(Users), c \in Cars :
            /\ \A v \in Users : Listed(group, v) => myBlockCar[v] = Nil
            /\ myBlockCar' = [v \in Users |-> IF Listed(group, v) THEN c ELSE myBlockCar[v]]
            /\ inAGroup' = inAGroup \cup {v \in Users : Listed(group, v)}
            /\ \A d \in Cars \ {c} : SameCar(d)
            /\ \A v \in Users : Aboard(v, c)' <=> Listed(group, v)
            /\ \A v \in Users : ~Aboard(v, c)
    BY <1>3, FormGroupFacts
  <2>2. Nil \notin Cars
    BY Numbers
  <2>3. ASSUME NEW v \in Users, NEW d \in Cars PROVE Aboard(v, d)' <=> myBlockCar'[v] = d
    <3>1. CASE d = c
      <4>1. Aboard(v, c)' <=> myBlockCar'[v] = c
        BY <1>1, <2>1 DEF OneCarPerUser
      <4> QED BY <3>1, <4>1 DEF Aboard
    <3>2. CASE d # c
      <4>1. Aboard(v, d)' <=> Aboard(v, d)
        BY <2>1, <3>2, SameCarRides
      <4> QED BY <1>1, <2>1, <2>2, <3>2, <4>1 DEF OneCarPerUser
    <3> QED BY <3>1, <3>2
  <2>4. GroupsHaveCars'
    BY <1>1, <2>1, <2>2 DEF GroupsHaveCars
  <2> QED BY <2>3, <2>4 DEF OneCarPerUser, Aboard
<1>4. ASSUME NEW c \in Cars, CarDropOff(c) PROVE OneCarPerUser' /\ GroupsHaveCars'
  <2>1. PICK i \in 1 .. Len(passengers[c]) :
            /\ passengers[c][i] \in Users /\ myBlockCar[passengers[c][i]] = c
            /\ DropOffUser(passengers[c][i])
            /\ \A d \in Cars \ {c} : SameCar(d)
            /\ \A v \in Users : Aboard(v, c)' <=> Aboard(v, c) /\ v # passengers[c][i]
    BY <1>1, <1>4, DropOff
  <2> DEFINE p == passengers[c][i]
  <2>2. myBlockCar' = [myBlockCar EXCEPT ![p] = Nil] /\ inAGroup' = inAGroup \ {p}
    BY <2>1 DEF DropOffUser
  <2>3. Nil \notin Cars
    BY Numbers
  <2>4. p \in Users /\ myBlockCar[p] = c /\ \A v \in Users : Aboard(v, c)' <=> Aboard(v, c) /\ v # p
    BY <2>1
  <2> HIDE DEF p
  <2>5. \A v \in Users : myBlockCar'[v] = IF v = p THEN Nil ELSE myBlockCar[v]
    BY <1>1, <2>2 DEF TypeOK
  <2>6. ASSUME NEW v \in Users, NEW d \in Cars PROVE Aboard(v, d)' <=> myBlockCar'[v] = d
    <3>1. CASE d = c
      <4>1. Aboard(v, c)' <=> myBlockCar'[v] = c
        BY <1>1, <2>3, <2>4, <2>5 DEF OneCarPerUser
      <4> QED BY <3>1, <4>1 DEF Aboard
    <3>2. CASE d # c
      <4>1. Aboard(v, d)' <=> Aboard(v, d)
        BY <2>1, <3>2, SameCarRides
      <4> QED BY <1>1, <2>3, <2>4, <2>5, <3>2, <4>1 DEF OneCarPerUser
    <3> QED BY <3>1, <3>2
  <2>7. GroupsHaveCars'
    BY <1>1, <2>2, <2>5 DEF GroupsHaveCars
  <2> QED BY <2>6, <2>7 DEF OneCarPerUser, Aboard
<1> QED BY <1>2, <1>3, <1>4, QuietSteps

LEMMA RidesStep ==
    ASSUME Enough, EnoughInv, [Next]_vars
    PROVE  RidesOK'
<1>1. TypeOK /\ CarListsAgree /\ RidesOK /\ OneCarPerUser
  BY DEF EnoughInv, CarsOK
<1>2. ASSUME NEW c \in Cars, RideOK(c)', \A d \in Cars \ {c} : SameCar(d) PROVE RidesOK'
  <2>1. ASSUME NEW d \in Cars PROVE RideOK(d)'
    <3>1. CASE d = c
      BY <1>2, <3>1 DEF RideOK, GoneAt
    <3>2. CASE d # c
      BY <1>1, <1>2, <3>2, SameCarRides DEF RidesOK
    <3> QED BY <3>1, <3>2
  <2> QED BY <2>1 DEF RidesOK, RideOK, GoneAt
<1>3. CASE UNCHANGED carVars
  BY <1>1, <1>3 DEF RidesOK, RideOK, GoneAt, carVars
<1>4. ASSUME NEW u \in Users, FormGroup(u) PROVE RidesOK'
  BY <1>2, <1>4, FormGroupFacts
<1>5. ASSUME NEW c \in Cars, CarDropOff(c) PROVE RidesOK'
  BY <1>1, <1>2, <1>5, DropOff
<1>6. ASSUME NEW c \in Cars, CarDrive(c) PROVE RidesOK'
  <2>1. PICK i \in FindNextTarget(c) : indexNext' = [indexNext EXCEPT ![c] = i]
    BY <1>6 DEF CarDrive
  <2>2. UNCHANGED <<isFree, objective, passengers, startPoints, endPoints, indexPassenger>>
    BY <1>6 DEF CarDrive
  <2>3. \A d \in Cars \ {c} : SameCar(d)
    BY <1>1, <2>1, <2>2 DEF SameCar, TypeOK
  <2>4. indexNext'[c] = i /\ GoneAt(c)' = GoneAt(c)
    BY <1>1, <2>1, <2>2 DEF GoneAt, TypeOK
  <2>5. objective[c] = "dropOff" => i \notin GoneAt(c)
    BY <1>1, DropOffLeft DEF GoneAt
  <2>6. RideOK(c)'
    BY <1>1, <2>2, <2>4, <2>5 DEF RidesOK, RideOK
  <2> QED BY <1>2, <2>3, <2>6
<1>7. ASSUME NEW c \in Cars, CarPickUp(c) PROVE RidesOK'
  <2> DEFINE all == indexPassenger[c] + 1 = Len(passengers[c])
  <2>1. /\ UNCHANGED <<isFree, passengers, startPoints, endPoints>>
        /\ indexPassenger' = [indexPassenger EXCEPT ![c] = IF all THEN 0 ELSE indexPassenger[c] + 1]
        /\ objective' = [objective EXCEPT ![c] = IF all THEN "dropOff" ELSE objective[c]]
        /\ indexNext' = [indexNext EXCEPT ![c] = 0]
        /\ objective[c] = "pickUp"
    BY <1>7 DEF CarPickUp
  <2>2. \A d \in Cars \ {c} : SameCar(d)
    BY <1>1, <2>1 DEF SameCar, TypeOK
  <2>3. /\ indexNext'[c] = 0 /\ GoneAt(c)' = GoneAt(c)
        /\ indexPassenger'[c] = 0 \/ objective'[c] = "pickUp"
    BY <1>1, <2>1 DEF GoneAt, TypeOK
  <2>4. Cardinality({}) = 0
    BY FS_EmptySet
  <2>5. RideOK(c)'
    BY <1>1, <2>1, <2>3, <2>4 DEF RidesOK, RideOK
  <2> QED BY <1>2, <2>2, <2>5
<1> QED BY <1>3, <1>4, <1>5, <1>6, <1>7, NoRetry
        DEF Next, NextCycle, StopSim, UpdateTarget, UserMove, MoveIdle, KeepLooking, Confirm,
            CarMove, CarWander, CarDropOffFails, vars

LEMMA AskersStep ==
    ASSUME Enough, EnoughInv, [Next]_vars
    PROVE  AskersMove'
<1>1. TypeOK /\ CarListsAgree /\ RidesOK /\ OneCarPerUser /\ GroupsHaveCars /\ AskersMove
  BY DEF EnoughInv, CarsOK
<1>2. CASE askingForCar' = askingForCar /\ inAGroup' = inAGroup /\ target \subseteq target'
  BY <1>1, <1>2 DEF AskersMove
<1>3. ASSUME NEW u \in Users, KeepLooking(u) PROVE AskersMove'
  BY <1>1, <1>3 DEF AskersMove, KeepLooking, MovePre
<1>4. ASSUME NEW u \in Users, Confirm(u) PROVE AskersMove'
  BY <1>1, <1>4 DEF AskersMove, Confirm, SendTransaction, GroupsHaveCars
<1>5. ASSUME NEW u \in Users, FormGroup(u) PROVE AskersMove'
  <2>1. \E group \in Seq(Users), c \in Cars :
            /\ Listed(group, u) /\ SendTransaction(u, c)
            /\ inAGroup' = inAGroup \cup {v \in Users : Listed(group, v)}
    BY <1>5, FormGroupFacts
  <2>2. askingForCar' = askingForCar \cup {u}
    BY <1>5 DEF FormGroup
  <2> QED BY <1>1, <2>1, <2>2 DEF AskersMove, SendTransaction
<1>6. ASSUME NEW c \in Cars, CarDropOff(c) PROVE AskersMove'
  <2>1. \E p \in Users : DropOffUser(p)
    BY <1>1, <1>6, DropOff
  <2> QED BY <1>1, <2>1 DEF AskersMove, DropOffUser
<1> QED BY <1>2, <1>3, <1>4, <1>5, <1>6, NoRetry
        DEF Next, NextCycle, StopSim, UpdateTarget, UserMove, MoveIdle,
            CarMove, CarWander, CarDrive, CarPickUp, CarDropOffFails, vars, userVars

LEMMA LaterUser ==
    ASSUME NEW c \in Cars, NEW v \in Users, NEW u \in Users, Runs("move", u), AfterUser(u),
           u # v, Later(c, v)
    PROVE  Later(c, v)'
<1>1. turn = u /\ phase = "move" /\ u <= v
  BY DEF Runs, Later
<1>2. u \in Nat /\ v \in Nat /\ u + 1 <= v
  BY <1>1, Numbers
<1>3. u + 1 \in Users
  BY <1>2, Numbers DEF Users
<1> QED BY <1>2, <1>3 DEF AfterUser, Later

LEMMA LaterCar ==
    ASSUME NEW c \in Cars, NEW v \in Users, NEW d \in Cars, Runs("car", d), AfterCar(d),
           Later(c, v) \/ d = c
    PROVE  Later(c, v)'
<1>1. turn = d /\ phase = "car" /\ c \in Nat /\ d \in Nat
  BY Numbers DEF Runs
<1>2. d >= c
  BY <1>1 DEF Later
<1>3. d + 1 > c
  BY <1>1, <1>2
<1> QED BY <1>1, <1>3 DEF AfterCar, Later

\* A passenger and its car that a step does not change.
LEMMA ConfirmsSame ==
    ASSUME EnoughInv, NEW c \in Cars, NEW v \in Users,
           Aboard(v, c)' => Aboard(v, c), driver'[v] = driver[v],
           passengers'[c] = passengers[c],
           objective'[c] = objective[c], indexPassenger'[c] = indexPassenger[c],
           v \in target => v \in target',
           Later(c, v) /\ v \in target => Later(c, v)',
           (Aboard(v, c) /\ driver[v] = Nil)'
    PROVE  /\ (v \in target /\ objective[c] = "pickUp" /\ Len(passengers[c]) > 1)'
           /\ (indexPassenger[c] = 0 \/ (indexPassenger[c] = 1 /\ Later(c, v)))'
<1>1. Aboard(v, c) /\ driver[v] = Nil
  OBVIOUS
<1>2. /\ v \in target /\ objective[c] = "pickUp" /\ Len(passengers[c]) > 1
      /\ indexPassenger[c] = 0 \/ (indexPassenger[c] = 1 /\ Later(c, v))
  BY <1>1 DEF EnoughInv, ConfirmsInTime
<1> QED BY <1>2

LEMMA ConfirmsStep ==
    ASSUME Enough, EnoughInv, [Next]_vars
    PROVE  ConfirmsInTime'
<1> SUFFICES ASSUME NEW c \in Cars, NEW v \in Users, (Aboard(v, c) /\ driver[v] = Nil)'
             PROVE  /\ (v \in target /\ objective[c] = "pickUp" /\ Len(passengers[c]) > 1)'
                    /\ (indexPassenger[c] = 0 \/ (indexPassenger[c] = 1 /\ Later(c, v)))'
  BY DEF ConfirmsInTime
<1>1. TypeOK /\ CarListsAgree /\ RidesOK /\ OneCarPerUser /\ GroupsHaveCars /\ AskersMove
      /\ ConfirmsInTime
  BY DEF EnoughInv, CarsOK
<1>2. Nil \notin Cars /\ v \in Nat
  BY Numbers
<1>3. CASE UNCHANGED <<phase, turn, target, driver, carVars>>
  <2>1. Aboard(v, c)' <=> Aboard(v, c)
    BY <1>3 DEF Aboard, carVars
  <2>2. Later(c, v)' <=> Later(c, v)
    BY <1>3 DEF Later
  <2> QED BY <1>3, <2>1, <2>2, ConfirmsSame DEF carVars
<1>4. CASE NextCycle
  <2>1. phase' = "updateTarget" /\ turn' = 0 /\ UNCHANGED <<target, driver, carVars>>
    BY <1>4 DEF NextCycle
  <2>2. Later(c, v)'
    BY <1>2, <2>1 DEF Later
  <2>3. Aboard(v, c)' <=> Aboard(v, c)
    BY <2>1 DEF Aboard, carVars
  <2> QED BY <2>1, <2>2, <2>3, ConfirmsSame DEF carVars
<1>5. ASSUME NEW u \in Users, UpdateTarget(u)
      PROVE  /\ (v \in target /\ objective[c] = "pickUp" /\ Len(passengers[c]) > 1)'
             /\ (indexPassenger[c] = 0 \/ (indexPassenger[c] = 1 /\ Later(c, v)))'
  <2>1. /\ phase = "updateTarget" /\ phase' = "move" /\ turn' = turn /\ target \subseteq target'
        /\ UNCHANGED <<driver, carVars>>
    BY <1>5 DEF UpdateTarget, Runs, tripVars
  <2>2. Later(c, v) => Later(c, v)'
    BY <2>1 DEF Later
  <2>3. Aboard(v, c)' <=> Aboard(v, c)
    BY <2>1 DEF Aboard, carVars
  <2> QED BY <2>1, <2>2, <2>3, ConfirmsSame DEF carVars
\* A user that moves and leaves the cars alone: it is another one, or it
\* announces its ride.
<1>6. ASSUME NEW u \in Users, MoveIdle(u) \/ KeepLooking(u) \/ Confirm(u)
      PROVE  /\ (v \in target /\ objective[c] = "pickUp" /\ Len(passengers[c]) > 1)'
             /\ (indexPassenger[c] = 0 \/ (indexPassenger[c] = 1 /\ Later(c, v)))'
  <2>1. Runs("move", u) /\ AfterUser(u) /\ UNCHANGED carVars
    BY <1>6 DEF MoveIdle, KeepLooking, Confirm, MovePre
  <2>2. Aboard(v, c)' <=> Aboard(v, c)
    BY <2>1 DEF Aboard, carVars
  <2>3. Aboard(v, c) /\ myBlockCar[v] = c
    BY <1>1, <2>2 DEF OneCarPerUser
  <2>4. CASE MoveIdle(u)
    <3>1. u \notin target /\ UNCHANGED <<target, driver>>
      BY <2>4 DEF MoveIdle, userVars, tripVars
    <3>2. Later(c, v) /\ v \in target => Later(c, v)'
      BY <2>1, <3>1, LaterUser
    <3> QED BY <2>1, <2>2, <3>1, <3>2, ConfirmsSame DEF carVars
  <2>5. CASE KeepLooking(u)
    <3>1. u # v /\ UNCHANGED <<target, driver>>
      BY <1>2, <2>3, <2>5 DEF KeepLooking
    <3>2. Later(c, v) => Later(c, v)'
      BY <2>1, <3>1, LaterUser
    <3> QED BY <2>1, <2>2, <3>1, <3>2, ConfirmsSame DEF carVars
  <2>6. CASE Confirm(u)
    <3>1. /\ driver' = [driver EXCEPT ![u] = myBlockCar[u]] /\ myBlockCar[u] # Nil
          /\ target' = target \ {u}
      BY <2>6 DEF Confirm, SendTransaction
    <3>2. u # v
      BY <1>1, <3>1 DEF TypeOK
    <3>3. driver'[v] = driver[v] /\ (v \in target => v \in target')
      BY <1>1, <3>1, <3>2 DEF TypeOK
    <3>4. Later(c, v) => Later(c, v)'
      BY <2>1, <3>2, LaterUser
    <3> QED BY <2>1, <2>2, <3>3, <3>4, ConfirmsSame DEF carVars
  <2> QED BY <1>6, <2>4, <2>5, <2>6
<1>7. ASSUME NEW u \in Users, FormGroup(u)
      PROVE  /\ (v \in target /\ objective[c] = "pickUp" /\ Len(passengers[c]) > 1)'
             /\ (indexPassenger[c] = 0 \/ (indexPassenger[c] = 1 /\ Later(c, v)))'
  <2>1. PICK group \in Seq(Users), e \in Cars :
            /\ \A w \in Users : Listed(group, w) => w = u \/ w \in askingForCar \ inAGroup
            /\ \A w \in Users : Listed(group, w) /\ w # u => Len(group) > 1
            /\ SendTransaction(u, e)
            /\ \A d \in Cars \ {e} : SameCar(d)
            /\ \A w \in Users : Aboard(w, e)' <=> Listed(group, w)
            /\ passengers'[e] = group /\ objective'[e] = "pickUp" /\ indexPassenger'[e] = 0
    BY <1>7, FormGroupFacts
  <2>2. /\ Runs("move", u) /\ AfterUser(u) /\ myBlockCar[u] = Nil
        /\ driver' = [driver EXCEPT ![u] = e] /\ target' = target \ {u}
    BY <1>7, <2>1 DEF FormGroup, MovePre, SendTransaction
  <2>3. u # v
    BY <1>1, <1>2, <2>2 DEF TypeOK
  <2>4. driver'[v] = driver[v] /\ (v \in target => v \in target')
    BY <1>1, <2>2, <2>3 DEF TypeOK
  <2>5. CASE c = e
    <3>1. Listed(group, v)
      <4>1. Aboard(v, e)'
        BY <2>5 DEF Aboard
      <4> QED BY <2>1, <4>1
    <3>2. v \in target'
      BY <1>1, <2>1, <2>3, <2>4, <3>1 DEF AskersMove
    <3> QED BY <2>1, <2>3, <2>5, <3>1, <3>2
  <2>6. CASE c # e
    <3>1. SameCar(c) /\ (Aboard(v, c)' <=> Aboard(v, c))
      BY <2>1, <2>6, SameCarRides
    <3>2. Later(c, v) => Later(c, v)'
      BY <2>2, <2>3, LaterUser
    <3> QED BY <2>4, <3>1, <3>2, ConfirmsSame DEF SameCar
  <2> QED BY <2>5, <2>6
<1>8. ASSUME NEW d \in Cars, CarWander(d) \/ CarDrive(d)
      PROVE  /\ (v \in target /\ objective[c] = "pickUp" /\ Len(passengers[c]) > 1)'
             /\ (indexPassenger[c] = 0 \/ (indexPassenger[c] = 1 /\ Later(c, v)))'
  <2>1. /\ Runs("car", d) /\ AfterCar(d)
        /\ UNCHANGED <<target, driver, passengers, endPoints, objective, indexPassenger>>
    BY <1>8 DEF CarWander, CarDrive, userVars, tripVars, carVars
  <2>2. Aboard(v, c)' <=> Aboard(v, c)
    BY <2>1 DEF Aboard
  <2>3. Later(c, v) => Later(c, v)'
    BY <2>1, LaterCar
  <2> QED BY <2>1, <2>2, <2>3, ConfirmsSame
\* The car has not moved yet since the group was formed.
<1>9. ASSUME NEW d \in Cars, CarPickUp(d)
      PROVE  /\ (v \in target /\ objective[c] = "pickUp" /\ Len(passengers[c]) > 1)'
             /\ (indexPassenger[c] = 0 \/ (indexPassenger[c] = 1 /\ Later(c, v)))'
  <2> DEFINE all == indexPassenger[d] + 1 = Len(passengers[d])
  <2>1. /\ Runs("car", d) /\ AfterCar(d) /\ UNCHANGED <<target, driver, passengers, endPoints>>
        /\ indexPassenger' = [indexPassenger EXCEPT ![d] = IF all THEN 0 ELSE indexPassenger[d] + 1]
        /\ objective' = [objective EXCEPT ![d] = IF all THEN "dropOff" ELSE objective[d]]
    BY <1>9 DEF CarPickUp, tripVars
  <2>2. Aboard(v, c)' <=> Aboard(v, c)
    BY <2>1 DEF Aboard
  <2>3. CASE d = c
    <3>1. Aboard(v, c) /\ driver[v] = Nil
      BY <2>1, <2>2
    <3>2. /\ v \in target /\ objective[c] = "pickUp" /\ Len(passengers[c]) > 1
          /\ indexPassenger[c] = 0 \/ (indexPassenger[c] = 1 /\ Later(c, v))
      BY <1>1, <3>1 DEF ConfirmsInTime
    <3>3. ~Later(c, v)
      <4>1. phase = "car" /\ turn = c /\ c \in Nat
        BY <2>1, <2>3, Numbers DEF Runs
      <4> QED BY <4>1 DEF Later
    <3>4. indexPassenger[c] = 0 /\ Len(passengers[c]) \in Nat /\ Len(passengers[c]) > 1
      BY <1>1, <3>2, <3>3 DEF TypeOK
    <3>5. ~all
      <4>1. indexPassenger[c] + 1 = 1
        BY <3>4
      <4>2. Len(passengers[c]) # 1
        <5>1. \A n \in Nat : n > 1 => n # 1
          OBVIOUS
        <5> QED BY <3>4, <5>1, Zenon
      <4>3. indexPassenger[c] + 1 # Len(passengers[c])
        BY <4>1, <4>2
      <4> QED BY <2>3, <4>3
    <3>6. indexPassenger'[c] = 1 /\ objective'[c] = "pickUp"
      BY <1>1, <2>1, <2>3, <3>2, <3>4, <3>5 DEF TypeOK
    <3>7. Later(c, v)'
      BY <2>1, <2>3, LaterCar
    <3> QED BY <2>1, <3>2, <3>6, <3>7
  <2>4. CASE d # c
    <3>1. indexPassenger'[c] = indexPassenger[c] /\ objective'[c] = objective[c]
      BY <1>1, <2>1, <2>4 DEF TypeOK
    <3>2. Later(c, v) => Later(c, v)'
      BY <2>1, LaterCar
    <3> QED BY <2>1, <2>2, <3>1, <3>2, ConfirmsSame
  <2> QED BY <2>3, <2>4
<1>10. ASSUME NEW d \in Cars, CarDropOff(d)
       PROVE  /\ (v \in target /\ objective[c] = "pickUp" /\ Len(passengers[c]) > 1)'
              /\ (indexPassenger[c] = 0 \/ (indexPassenger[c] = 1 /\ Later(c, v)))'
  <2>1. PICK i \in 1 .. Len(passengers[d]) :
            /\ passengers[d][i] \in Users /\ myBlockCar[passengers[d][i]] = d
            /\ DropOffUser(passengers[d][i])
            /\ \A e \in Cars \ {d} : SameCar(e)
            /\ \A w \in Users : Aboard(w, d)' <=> Aboard(w, d) /\ w # passengers[d][i]
    BY <1>1, <1>10, DropOff
  <2> DEFINE p == passengers[d][i]
  <2>2. /\ Runs("car", d) /\ AfterCar(d) /\ objective[d] = "dropOff"
        /\ target' = target \ {p} /\ driver' = [driver EXCEPT ![p] = Nil]
    BY <1>10, <2>1 DEF CarDropOff, DropOffUser
  <2>3. p \in Users /\ myBlockCar[p] = d /\ \A w \in Users : Aboard(w, d)' <=> Aboard(w, d) /\ w # p
    BY <2>1
  <2> HIDE DEF p
  <2>4. CASE c = d
    <3>1. Aboard(v, d) /\ v # p
      <4>1. Aboard(v, d)'
        BY <2>4 DEF Aboard
      <4> QED BY <2>3, <4>1
    <3>2. driver[v] = Nil
      BY <1>1, <2>2, <3>1 DEF TypeOK
    <3> QED BY <1>1, <2>2, <3>1, <3>2 DEF ConfirmsInTime
  <2>5. CASE c # d
    <3>1. SameCar(c) /\ (Aboard(v, c)' <=> Aboard(v, c))
      BY <2>1, <2>5, SameCarRides
    <3>2. v # p
      BY <1>1, <2>3, <2>5, <3>1 DEF OneCarPerUser
    <3>3. driver'[v] = driver[v] /\ (v \in target => v \in target')
      BY <1>1, <2>2, <3>2 DEF TypeOK
    <3>4. Later(c, v) => Later(c, v)'
      BY <2>2, LaterCar
    <3> QED BY <3>1, <3>3, <3>4, ConfirmsSame DEF SameCar
  <2> QED BY <2>4, <2>5
<1>11. UNCHANGED vars \/ StopSim \/ (\E d \in Cars : CarDropOffFails(d))
         => UNCHANGED <<phase, turn, target, driver, carVars>>
  BY DEF vars, StopSim, CarDropOffFails, userVars, tripVars
<1> QED BY <1>3, <1>4, <1>5, <1>6, <1>7, <1>8, <1>9, <1>10, <1>11, NoRetry
        DEF Next, UserMove, CarMove

LEMMA NoErrorStep ==
    ASSUME Enough, EnoughInv, [Next]_vars
    PROVE  NoError'
<1>1. TypeOK /\ CarListsAgree /\ RidesOK /\ TripsLogged /\ ConfirmsInTime /\ NoError
  BY DEF EnoughInv, CarsOK
<1>2. ASSUME NEW c \in Cars, CarDropOffFails(c) PROVE FALSE
  <2>1. PICK i \in FindNextTarget(c) : ~CanDropOff(passengers[c][i])
    BY <1>2 DEF CarDropOffFails
  <2>2. objective[c] = "dropOff"
    BY <1>2 DEF CarDropOffFails
  <2>3. passengers[c][i] \in Users /\ Aboard(passengers[c][i], c)
    BY <1>1, <2>2, DropOffLeft
  <2>4. driver[passengers[c][i]] # Nil
    BY <1>1, <2>2, <2>3 DEF ConfirmsInTime
  <2>5. currentTransaction[passengers[c][i]] # Nil
    BY <1>1, <2>3, <2>4 DEF TripsLogged, Announced
  <2> QED BY <2>1, <2>4, <2>5 DEF CanDropOff
<1>3. CASE StopSim
  BY <1>3 DEF StopSim, NoError
<1>4. CASE status' = status
  BY <1>1, <1>4 DEF NoError
<1> QED BY <1>2, <1>3, <1>4
        DEF Next, NextCycle, UpdateTarget, UserMove, MoveIdle, KeepLooking, FormGroup, RetryGroup,
            Confirm, CarMove, CarWander, CarDrive, CarPickUp, CarDropOff, clockVars, vars

LEMMA EnoughInitOK == Init => EnoughInv
<1> SUFFICES ASSUME Init PROVE EnoughInv
  OBVIOUS
<1>1. CarsOK /\ TripsLogged
  BY CarsOKInit, TripsInit
<1>2. \A c \in Cars, v \in Users : ~Aboard(v, c)
  <2>1. Len(<< >>) = 0 /\ 1 .. 0 = {}
    OBVIOUS
  <2>2. \A c \in Cars : passengers[c] = << >>
    BY DEF Init
  <2> QED BY <2>1, <2>2 DEF Aboard
<1>3. OneCarPerUser /\ ConfirmsInTime
  BY <1>2, Numbers DEF OneCarPerUser, ConfirmsInTime, Init
<1>4. RidesOK /\ GroupsHaveCars /\ AskersMove /\ NoError
  BY DEF Init, RidesOK, RideOK, GroupsHaveCars, AskersMove, NoError
<1> QED BY <1>1, <1>3, <1>4 DEF EnoughInv

LEMMA EnoughStep == Enough /\ EnoughInv /\ [Next]_vars => EnoughInv'
<1> SUFFICES ASSUME Enough, EnoughInv, [Next]_vars PROVE EnoughInv'
  OBVIOUS
<1>1. CarsOK' /\ TripsLogged'
  BY CarsOKStep, TripsStep DEF EnoughInv
<1> QED BY <1>1, OneCarStep, RidesStep, AskersStep, ConfirmsStep, NoErrorStep DEF EnoughInv

\* With a car for every user, a user is a passenger of one car at most, the
\* one it thinks is coming, however long the rides are.
THEOREM OneCarEach == Enough => (Spec => []OneCarPerUser)
<1> SUFFICES ASSUME Enough PROVE Spec => []OneCarPerUser
  OBVIOUS
<1>1. EnoughInv => OneCarPerUser
  BY DEF EnoughInv
<1> QED BY <1>1, EnoughInitOK, EnoughStep, PTL DEF Spec

\* With a car for every user, dropOff always finds a transaction and a driver:
\* the passengers have announced their rides before the car has them all.
THEOREM DropOffFindsTransaction == Enough => (Spec => []NoError)
<1> SUFFICES ASSUME Enough PROVE Spec => []NoError
  OBVIOUS
<1>1. EnoughInv => NoError
  BY DEF EnoughInv
<1> QED BY <1>1, EnoughInitOK, EnoughStep, PTL DEF Spec

-----------------------------------------------------------------------------
(* Rides that are over before the hour changes. *)

InTime == Enough /\ RidesFitInAnHour

Settled(u) == ~LeavesForWork(u) /\ ~LeavesForHome(u)

\* A user on a trip does not change its mind: it has nowhere else to be in
\* this hour, and its transaction names the place it goes to.
Stays(u) ==
    /\ phase = "move" /\ turn = u => Settled(u)
    /\ currentTransaction[u] # Nil =>
        /\ Settled(u) /\ endPoint[u] = nextObjective[u]
        /\ u \in target \/ myBlockCar[u] # Nil
    /\ myBlockCar[u] # Nil \/ u \in askingForCar => currentTransaction[u] # Nil

StayPut == \A u \in Users : Stays(u)

\* A car goes where its passengers want to be.
PlacesOK ==
    \A c \in Cars : \A i \in 1 .. Len(passengers[c]) :
        endPoints[c][i] # Gone => endPoints[c][i].place = nextObjective[passengers[c][i]]

LEMMA StaysSame ==
    ASSUME NEW u \in Users, Stays(u),
           phase' # "move",
           hour' = hour, nextObjective'[u] = nextObjective[u],
           \/ /\ currentTransaction'[u] = Nil /\ myBlockCar'[u] = Nil /\ u \notin askingForCar'
           \/ /\ currentTransaction'[u] = currentTransaction[u] /\ endPoint'[u] = endPoint[u]
              /\ myBlockCar'[u] = myBlockCar[u] /\ (u \in target' <=> u \in target)
              /\ (u \in askingForCar' <=> u \in askingForCar)
    PROVE  Stays(u)'
BY DEF Stays, Settled, LeavesForWork, LeavesForHome

\* Nobody travels when the hour changes.
LEMMA NobodyTravels ==
    ASSUME InTime, EnoughInv, StayPut, NextCycle, hour' # hour, NEW u \in Users
    PROVE  currentTransaction[u] = Nil
<1>1. target = {} /\ isFree = Cars
  BY DEF NextCycle, InTime
<1>2. TypeOK /\ CarListsAgree /\ OneCarPerUser
  BY DEF EnoughInv, CarsOK
<1>3. ASSUME myBlockCar[u] # Nil PROVE FALSE
  <2>1. PICK c \in Cars : myBlockCar[u] = c
    BY <1>2, <1>3 DEF TypeOK
  <2>2. Aboard(u, c)
    BY <1>2, <2>1 DEF OneCarPerUser
  <2>3. passengers[c] = << >>
    BY <1>1, <1>2 DEF CarListsAgree, CarOK, FreeCarClean
  <2>4. Len(<< >>) = 0 /\ 1 .. 0 = {}
    OBVIOUS
  <2> QED BY <2>2, <2>3, <2>4 DEF Aboard
<1> QED BY <1>1, <1>3 DEF StayPut, Stays

LEMMA AfterUserPhase ==
    ASSUME NEW u \in Users, AfterUser(u) PROVE phase' # "move"
BY DEF AfterUser

LEMMA AfterCarPhase ==
    ASSUME NEW c \in Cars, Runs("car", c), AfterCar(c) PROVE phase' # "move"
BY DEF AfterCar, Runs

\* A user whose turn it is creates its transaction, or has it.
LEMMA StaysCreate ==
    ASSUME TypeOK, TripsLogged, StayPut, NEW u \in Users, Runs("move", u), AfterUser(u),
           CreateAndAddTransaction(u), hour' = hour, nextObjective' = nextObjective,
           u \in target' \/ myBlockCar'[u] # Nil
    PROVE  /\ Stays(u)'
           /\ \A v \in Users \ {u} : /\ currentTransaction'[v] = currentTransaction[v]
                                     /\ endPoint'[v] = endPoint[v]
<1>1. Settled(u)
  BY DEF StayPut, Stays, Runs
<1>2. Settled(u)'
  BY <1>1 DEF Settled, LeavesForWork, LeavesForHome
<1>3. currentTransaction'[u] = TransOf(u) /\ TransOf(u) \in Nat
  BY CreateFacts, TransOfFacts
<1>4. currentTransaction'[u] # Nil
  BY <1>3 DEF Nil
<1>5. endPoint'[u] = nextObjective'[u]
  BY DEF CreateAndAddTransaction, TypeOK, StayPut, Stays
<1>6. \A v \in Users \ {u} : /\ currentTransaction'[v] = currentTransaction[v]
                             /\ endPoint'[v] = endPoint[v]
  BY DEF CreateAndAddTransaction, TypeOK
<1>7. phase' # "move"
  BY AfterUserPhase
<1> QED BY <1>2, <1>4, <1>5, <1>6, <1>7 DEF Stays

LEMMA StayStep ==
    ASSUME InTime, EnoughInv, StayPut, [Next]_vars
    PROVE  StayPut'
<1> SUFFICES ASSUME NEW v \in Users PROVE Stays(v)'
  BY DEF StayPut, Stays, Settled, LeavesForWork, LeavesForHome
<1>1. TypeOK /\ CarListsAgree /\ RidesOK /\ OneCarPerUser /\ TripsLogged /\ Enough
  BY DEF EnoughInv, CarsOK, InTime
<1>2. Stays(v)
  BY DEF StayPut
<1>3. CASE NextCycle
  <2>1. /\ phase' = "updateTarget"
        /\ UNCHANGED <<target, nextObjective, askingForCar, myBlockCar, currentTransaction, endPoint>>
    BY <1>3 DEF NextCycle
  <2>2. CASE hour' = hour
    BY <1>2, <2>1, <2>2, StaysSame
  <2>3. CASE hour' # hour
    <3>1. currentTransaction[v] = Nil
      BY <1>3, <2>3, NobodyTravels
    <3> QED BY <1>2, <2>1, <3>1 DEF Stays
  <2> QED BY <2>2, <2>3
<1>4. ASSUME NEW u \in Users, UpdateTarget(u) PROVE Stays(v)'
  <2>1. /\ Runs("updateTarget", u) /\ phase' = "move" /\ turn' = u
        /\ UNCHANGED <<hour, askingForCar, myBlockCar, currentTransaction, endPoint>>
    BY <1>4 DEF UpdateTarget, clockVars, tripVars, Runs
  <2>2. target' = target \/ target' = target \cup {u}
    BY <1>4 DEF UpdateTarget
  <2>3. Settled(u)'
    <3>1. hour \in Int /\ EndWork[u] \in Int /\ StartWork[u] \in Int
      BY <1>1, DispatchConstants DEF TypeOK
    <3>2. \A h, e \in Int : ~(h < e /\ h > e)
      OBVIOUS
    <3>3. "home" # "work"
      OBVIOUS
    <3>4. CASE LeavesForWork(u) /\ nextObjective' = [nextObjective EXCEPT ![u] = "work"]
      <4>1. nextObjective'[u] = "work" /\ hour' = hour /\ hour < EndWork[u]
        BY <1>1, <2>1, <3>4 DEF TypeOK, LeavesForWork
      <4> QED BY <3>1, <3>2, <3>3, <4>1 DEF Settled, LeavesForWork, LeavesForHome
    <3>5. CASE LeavesForHome(u) /\ nextObjective' = [nextObjective EXCEPT ![u] = "home"]
      <4>1. nextObjective'[u] = "home" /\ hour' = hour /\ hour > EndWork[u]
        BY <1>1, <2>1, <3>5 DEF TypeOK, LeavesForHome
      <4> QED BY <3>1, <3>2, <3>3, <4>1 DEF Settled, LeavesForWork, LeavesForHome
    <3>6. CASE Settled(u) /\ nextObjective' = nextObjective
      BY <2>1, <3>6 DEF Settled, LeavesForWork, LeavesForHome
    <3> QED BY <1>4, <3>4, <3>5, <3>6 DEF UpdateTarget, Settled
  <2>4. nextObjective' = nextObjective \/ (~Settled(u) /\ \A w \in Users \ {u} : nextObjective'[w] = nextObjective[w])
    BY <1>1, <1>4 DEF UpdateTarget, Settled, TypeOK
  <2>5. CASE nextObjective'[v] = nextObjective[v]
    <3>1. Settled(v) => Settled(v)'
      BY <2>1, <2>5 DEF Settled, LeavesForWork, LeavesForHome
    <3>2. turn' = v => Settled(v)'
      BY <2>1, <2>3
    <3>3. v \in target => v \in target'
      BY <2>2
    <3> QED BY <1>2, <2>1, <2>5, <3>1, <3>2, <3>3 DEF Stays
  <2>6. CASE nextObjective'[v] # nextObjective[v]
    <3>1. v = u /\ ~Settled(v)
      BY <2>4, <2>6
    <3>2. currentTransaction[v] = Nil
      BY <1>2, <3>1 DEF Stays
    <3>3. Settled(v)'
      BY <2>3, <3>1
    <3> QED BY <1>2, <2>1, <3>2, <3>3 DEF Stays
  <2> QED BY <2>5, <2>6
<1>5. ASSUME NEW u \in Users, MoveIdle(u) PROVE Stays(v)'
  <2>1. phase' # "move"
    BY <1>5, AfterUserPhase DEF MoveIdle
  <2> QED BY <1>2, <1>5, <2>1, StaysSame DEF MoveIdle, clockVars, userVars, tripVars
<1>6. ASSUME NEW u \in Users, KeepLooking(u) \/ Confirm(u) PROVE Stays(v)'
  <2>1. /\ Runs("move", u) /\ AfterUser(u) /\ CreateAndAddTransaction(u)
        /\ UNCHANGED <<hour, nextObjective, myBlockCar>>
        /\ \A w \in Users \ {u} : (w \in target' <=> w \in target) /\ (w \in askingForCar' <=> w \in askingForCar)
        /\ u \in target' \/ myBlockCar'[u] # Nil
    BY <1>6 DEF KeepLooking, Confirm, MovePre, clockVars, SendTransaction
  <2>2. CASE v = u
    BY <1>1, <2>1, <2>2, StaysCreate
  <2>3. CASE v # u
    <3>1. phase' # "move" /\ currentTransaction'[v] = currentTransaction[v] /\ endPoint'[v] = endPoint[v]
      BY <1>1, <2>1, <2>3, StaysCreate, AfterUserPhase
    <3> QED BY <1>2, <2>1, <2>3, <3>1, StaysSame
  <2> QED BY <2>2, <2>3
<1>7. ASSUME NEW u \in Users, FormGroup(u) PROVE Stays(v)'
  <2>1. /\ Runs("move", u) /\ AfterUser(u) /\ CreateAndAddTransaction(u)
        /\ UNCHANGED <<hour, nextObjective>> /\ askingForCar' = askingForCar \cup {u}
    BY <1>7 DEF FormGroup, MovePre, clockVars
  <2>2. PICK group \in Seq(Users), c \in Cars :
            /\ Listed(group, u)
            /\ \A w \in Users : Listed(group, w) => w = u \/ w \in askingForCar \ inAGroup
            /\ myBlockCar' = [w \in Users |-> IF Listed(group, w) THEN c ELSE myBlockCar[w]]
            /\ SendTransaction(u, c)
    BY <1>1, <1>7, FormGroupFacts
  <2>3. Nil \notin Cars /\ target' = target \ {u}
    BY <2>2, Numbers DEF SendTransaction
  <2>4. myBlockCar'[u] # Nil
    BY <2>2, <2>3
  <2>5. CASE v = u
    BY <1>1, <2>1, <2>4, <2>5, StaysCreate
  <2>6. CASE v # u
    <3>1. phase' # "move" /\ currentTransaction'[v] = currentTransaction[v] /\ endPoint'[v] = endPoint[v]
      BY <1>1, <2>1, <2>4, <2>6, StaysCreate, AfterUserPhase
    <3>2. (v \in target' <=> v \in target) /\ (v \in askingForCar' <=> v \in askingForCar)
      BY <2>1, <2>3, <2>6
    <3>3. CASE Listed(group, v)
      <4>1. v \in askingForCar /\ myBlockCar'[v] # Nil
        BY <2>2, <2>3, <2>6, <3>3
      <4>2. Settled(v) => Settled(v)'
        BY <2>1 DEF Settled, LeavesForWork, LeavesForHome
      <4> QED BY <1>2, <2>1, <3>1, <3>2, <4>1, <4>2 DEF Stays
    <3>4. CASE ~Listed(group, v)
      <4>1. myBlockCar'[v] = myBlockCar[v]
        BY <2>2, <3>4
      <4> QED BY <1>2, <2>1, <3>1, <3>2, <4>1, StaysSame
    <3> QED BY <3>3, <3>4
  <2> QED BY <2>5, <2>6
<1>8. ASSUME NEW d \in Cars, CarWander(d) \/ CarDrive(d) \/ CarPickUp(d) PROVE Stays(v)'
  <2>1. Runs("car", d) /\ AfterCar(d)
    BY <1>8 DEF CarWander, CarDrive, CarPickUp
  <2>2. UNCHANGED <<hour, nextObjective, currentTransaction, endPoint, myBlockCar, target, askingForCar>>
    BY <1>8 DEF CarWander, CarDrive, CarPickUp, clockVars, userVars, tripVars
  <2>3. phase' # "move"
    BY <2>1, AfterCarPhase
  <2> QED BY <1>2, <2>2, <2>3, StaysSame
<1>9. ASSUME NEW d \in Cars, CarDropOff(d) PROVE Stays(v)'
  <2>1. PICK i \in 1 .. Len(passengers[d]) :
            passengers[d][i] \in Users /\ DropOffUser(passengers[d][i])
    BY <1>1, <1>9, DropOff
  <2> DEFINE p == passengers[d][i]
  <2>2. /\ Runs("car", d) /\ AfterCar(d) /\ hour' = hour
        /\ UNCHANGED <<nextObjective, endPoint>>
        /\ target' = target \ {p} /\ askingForCar' = askingForCar \ {p} /\ p \in Users
        /\ myBlockCar' = [myBlockCar EXCEPT ![p] = Nil]
        /\ currentTransaction' = [currentTransaction EXCEPT ![p] = Nil]
    BY <1>9, <2>1 DEF CarDropOff, DropOffUser, clockVars
  <2>3. phase' # "move"
    BY <2>2, AfterCarPhase
  <2> HIDE DEF p
  <2>4. CASE v = p
    <3>1. currentTransaction'[v] = Nil /\ myBlockCar'[v] = Nil /\ v \notin askingForCar'
      BY <1>1, <2>2, <2>4 DEF TypeOK
    <3> QED BY <1>2, <2>2, <2>3, <3>1, StaysSame
  <2>5. CASE v # p
    <3>1. /\ currentTransaction'[v] = currentTransaction[v] /\ myBlockCar'[v] = myBlockCar[v]
          /\ (v \in target' <=> v \in target) /\ (v \in askingForCar' <=> v \in askingForCar)
      BY <1>1, <2>2, <2>5 DEF TypeOK
    <3> QED BY <1>2, <2>2, <2>3, <3>1, StaysSame
  <2> QED BY <2>4, <2>5
<1>10. CASE UNCHANGED vars \/ StopSim \/ (\E d \in Cars : CarDropOffFails(d))
  <2>1. UNCHANGED <<phase, turn, hour, nextObjective, currentTransaction, endPoint, myBlockCar,
                    target, askingForCar>>
    BY <1>10 DEF vars, StopSim, CarDropOffFails, clockVars, userVars, tripVars
  <2> QED BY <1>2, <2>1 DEF Stays, Settled, LeavesForWork, LeavesForHome
<1> QED BY <1>3, <1>4, <1>5, <1>6, <1>7, <1>8, <1>9, <1>10, NoRetry DEF Next, UserMove, CarMove

LEMMA PlacesStep ==
    ASSUME InTime, EnoughInv, StayPut, PlacesOK, [Next]_vars
    PROVE  PlacesOK'
<1> SUFFICES ASSUME NEW c \in Cars, NEW i \in 1 .. Len(passengers'[c]), endPoints'[c][i] # Gone
             PROVE  endPoints'[c][i].place = nextObjective'[passengers'[c][i]]
  BY DEF PlacesOK
<1>1. TypeOK /\ CarListsAgree /\ RidesOK /\ OneCarPerUser /\ Enough
  BY DEF EnoughInv, CarsOK, InTime
<1>2. ASSUME UNCHANGED nextObjective, passengers'[c] = passengers[c], endPoints'[c] = endPoints[c]
      PROVE  endPoints'[c][i].place = nextObjective'[passengers'[c][i]]
  BY <1>2 DEF PlacesOK
<1>3. ASSUME NEW u \in Users, UpdateTarget(u)
      PROVE  endPoints'[c][i].place = nextObjective'[passengers'[c][i]]
  <2>1. UNCHANGED <<passengers, endPoints, myBlockCar>>
    BY <1>3 DEF UpdateTarget, carVars
  <2>2. i \in 1 .. Len(passengers[c]) /\ endPoints[c][i] # Gone /\ passengers[c][i] \in Users
    BY <1>1, <2>1 DEF TypeOK
  <2>3. myBlockCar[passengers[c][i]] = c
    BY <1>1, <2>2 DEF OneCarPerUser, Aboard
  <2>4. Settled(passengers[c][i])
    BY <2>2, <2>3, Numbers DEF StayPut, Stays
  <2>5. nextObjective'[passengers[c][i]] = nextObjective[passengers[c][i]]
    BY <1>1, <1>3, <2>2, <2>4 DEF UpdateTarget, Settled, TypeOK
  <2> QED BY <2>1, <2>2, <2>5 DEF PlacesOK
<1>4. ASSUME NEW u \in Users, FormGroup(u)
      PROVE  endPoints'[c][i].place = nextObjective'[passengers'[c][i]]
  <2>1. nextObjective' = nextObjective
    BY <1>4 DEF FormGroup
  <2>2. PICK group \in Seq(Users), e \in Cars :
            /\ \A d \in Cars \ {e} : SameCar(d)
            /\ passengers'[e] = group
            /\ \A j \in 1 .. Len(group) :
                 endPoints'[e][j] = [user |-> group[j], place |-> nextObjective[group[j]]]
    BY <1>1, <1>4, FormGroupFacts
  <2>3. CASE c = e
    <3>1. i \in 1 .. Len(group) /\ passengers'[c] = group
      BY <2>2, <2>3
    <3>2. endPoints'[c][i] = [user |-> group[i], place |-> nextObjective[group[i]]]
      BY <2>2, <2>3, <3>1
    <3>3. endPoints'[c][i].place = nextObjective[group[i]]
      BY <3>2
    <3> QED BY <2>1, <3>1, <3>3
  <2>4. CASE c # e
    BY <1>2, <2>1, <2>2, <2>4 DEF SameCar
  <2> QED BY <2>3, <2>4
<1>5. ASSUME NEW d \in Cars, CarDropOff(d)
      PROVE  endPoints'[c][i].place = nextObjective'[passengers'[c][i]]
  <2>1. PICK j \in 1 .. Len(passengers[d]) :
            /\ DropOffUser(passengers[d][j])
            /\ \A e \in Cars \ {d} : SameCar(e)
            /\ \/ passengers'[d] = << >> /\ endPoints'[d] = << >>
               \/ /\ passengers'[d] = passengers[d]
                  /\ endPoints'[d] = [endPoints[d] EXCEPT ![j] = Gone]
    BY <1>1, <1>5, DropOff
  <2>2. nextObjective' = nextObjective
    BY <2>1 DEF DropOffUser
  <2>3. CASE c # d
    BY <1>2, <2>1, <2>2, <2>3 DEF SameCar
  <2>4. CASE c = d
    <3>1. passengers'[d] # << >>
      <4>1. Len(<< >>) = 0 /\ 1 .. 0 = {}
        OBVIOUS
      <4> QED BY <2>4, <4>1
    <3>2. passengers'[c] = passengers[c] /\ endPoints'[c] = [endPoints[c] EXCEPT ![j] = Gone]
      BY <2>1, <2>4, <3>1
    <3>3. i \in DOMAIN endPoints[c]
      <4>1. c \notin isFree
        <5>1. c \in isFree => passengers[c] = << >>
          BY <1>1 DEF CarListsAgree, CarOK, FreeCarClean
        <5> QED BY <2>4, <3>1, <3>2, <5>1
      <4>2. BusyCarAligned(c) /\ endPoints[c] \in Seq(Points)
        BY <1>1, <4>1, BusyFacts
      <4> QED BY <3>2, <4>2 DEF BusyCarAligned
    <3>4. endPoints'[c][i] = endPoints[c][i]
      BY <3>2, <3>3
    <3> QED BY <2>2, <3>2, <3>4 DEF PlacesOK
  <2> QED BY <2>3, <2>4
<1>6. nextObjective' = nextObjective \/ \E u \in Users : UpdateTarget(u)
  BY DEF Next, NextCycle, StopSim, UserMove, MoveIdle, KeepLooking, FormGroup, RetryGroup, Confirm,
         CarMove, CarWander, CarDrive, CarPickUp, CarDropOff, CarDropOffFails, DropOffUser, vars, userVars
<1> QED BY <1>2, <1>3, <1>4, <1>5, <1>6, QuietSteps

LEMMA DestinationsRecorded ==
    ASSUME EnoughInv, StayPut, PlacesOK PROVE DestinationRecorded
<1> SUFFICES ASSUME NEW c \in Cars, NEW i \in 1 .. Len(endPoints[c]), endPoints[c][i] # Gone
             PROVE  endPoints[c][i].place = endPoint[passengers[c][i]]
  BY DEF DestinationRecorded
<1>1. TypeOK /\ CarListsAgree /\ OneCarPerUser
  BY DEF EnoughInv, CarsOK
<1>2. c \notin isFree
  <2>1. Len(<< >>) = 0 /\ 1 .. 0 = {}
    OBVIOUS
  <2> QED BY <1>1, <2>1 DEF CarListsAgree, CarOK, FreeCarClean
<1>3. i \in 1 .. Len(passengers[c]) /\ passengers[c] \in Seq(Users)
  BY <1>1, <1>2, BusyFacts DEF BusyCarAligned
<1>4. passengers[c][i] \in Users /\ myBlockCar[passengers[c][i]] = c
  BY <1>1, <1>3 DEF OneCarPerUser, Aboard
<1>5. endPoint[passengers[c][i]] = nextObjective[passengers[c][i]]
  BY <1>4, Numbers DEF StayPut, Stays
<1> QED BY <1>3, <1>5 DEF PlacesOK

LEMMA StayInitOK == Init => StayPut /\ PlacesOK
<1>1. Len(<< >>) = 0 /\ 1 .. 0 = {}
  OBVIOUS
<1> QED BY <1>1 DEF Init, StayPut, Stays, PlacesOK

\* With a car for every user and rides that are over before the hour changes,
\* a car takes its passengers where their transactions say.
THEOREM DestinationsAgree == InTime => (Spec => []DestinationRecorded)
<1> SUFFICES ASSUME InTime PROVE Spec => []DestinationRecorded
  OBVIOUS
<1> DEFINE Inv == EnoughInv /\ StayPut /\ PlacesOK
<1>1. Init => Inv
  BY EnoughInitOK, StayInitOK
<1>2. Inv /\ [Next]_vars => Inv'
  BY EnoughStep, StayStep, PlacesStep DEF InTime
<1>3. Inv => DestinationRecorded
  BY DestinationsRecorded
<1> QED BY <1>1, <1>2, <1>3, PTL DEF Spec

\* A user that has announced its ride waits for its car or sits in it, and has
\* no other plans.
Seat(u) ==
    /\ u \notin inCar \/ u \notin waitingForCar
    /\ u \in inCar \cup waitingForCar <=> driver[u] # Nil
    /\ driver[u] # Nil => u \notin target /\ myBlockCar[u] # Nil

SeatsOK == \A u \in Users : Seat(u)

\* The passengers of a car that have been picked up.
SeatedAt(c) == {i \in 1 .. Len(passengers[c]) : passengers[c][i] \in inCar}

\* A car counts the passengers it has picked up; it goes to one who waits, and
\* turns to destinations when it has all of them.
PickUpOK(c) ==
    c \notin isFree =>
        /\ objective[c] = "dropOff" =>
            \A i \in 1 .. Len(passengers[c]) : endPoints[c][i] # Gone => passengers[c][i] \in inCar
        /\ objective[c] = "pickUp" =>
            /\ Cardinality(SeatedAt(c)) = indexPassenger[c]
            /\ indexNext[c] # 0 => passengers[c][indexNext[c]] \in waitingForCar
            /\ \E i \in 1 .. Len(passengers[c]) : driver[passengers[c][i]] # Nil

PickUpsOK == \A c \in Cars : PickUpOK(c)

InTimeInv == EnoughInv /\ StayPut /\ PlacesOK /\ SeatsOK /\ PickUpsOK

\* Nobody has left a car that still picks up.
LEMMA PickUpAboard ==
    ASSUME EnoughInv, NEW c \in Cars, c \notin isFree, objective[c] = "pickUp",
           NEW i \in 1 .. Len(passengers[c])
    PROVE  /\ passengers[c][i] \in Users /\ Aboard(passengers[c][i], c)
           /\ myBlockCar[passengers[c][i]] = c
<1>1. TypeOK /\ CarListsAgree /\ RidesOK /\ OneCarPerUser
  BY DEF EnoughInv, CarsOK
<1>2. passengers[c][i] \in Users
  BY <1>1 DEF TypeOK
<1>3. endPoints[c][i] # Gone
  BY <1>1 DEF RidesOK, RideOK, GoneAt
<1>4. Aboard(passengers[c][i], c)
  BY <1>3 DEF Aboard
<1> QED BY <1>1, <1>2, <1>4 DEF OneCarPerUser

\* findNextTarget always finds a passenger who waits.
LEMMA NextWaits ==
    ASSUME InTimeInv, NEW c \in Cars, Runs("car", c), objective[c] = "pickUp",
           NEW i \in FindNextTarget(c)
    PROVE  /\ c \notin isFree /\ i \in 1 .. Len(passengers[c]) /\ passengers[c][i] \in Users
           /\ passengers[c][i] \in waitingForCar /\ myBlockCar[passengers[c][i]] = c
<1>1. /\ TypeOK /\ CarListsAgree /\ RidesOK /\ OneCarPerUser /\ EnoughInv /\ ConfirmsInTime
      /\ SeatsOK /\ PickUpOK(c)
  BY DEF InTimeInv, EnoughInv, CarsOK, PickUpsOK
<1>2. c \notin isFree /\ i \in 1 .. Len(passengers[c]) /\ passengers[c][i] \in Users
  BY <1>1, FindNextTargetFacts
<1>3. myBlockCar[passengers[c][i]] = c
  BY <1>1, <1>2, PickUpAboard
<1>4. CASE indexNext[c] # 0
  <2>1. i = indexNext[c]
    BY <1>4 DEF FindNextTarget
  <2>2. passengers[c][i] \in waitingForCar
    BY <1>1, <1>2, <1>4, <2>1 DEF PickUpOK
  <2> QED BY <1>2, <1>3, <2>2
<1>5. CASE indexNext[c] = 0
  <2> DEFINE waiting == {j \in DOMAIN passengers[c] : passengers[c][j] \in waitingForCar}
  <2>1. i \in NextPickUp(c)
    BY <1>5 DEF FindNextTarget
  <2>2. /\ BusyCarAligned(c) /\ Len(passengers[c]) \in Nat \ {0} /\ passengers[c] \in Seq(Users)
        /\ IsFiniteSet(1 .. Len(passengers[c]))
        /\ Cardinality(1 .. Len(passengers[c])) = Len(passengers[c])
    BY <1>1, <1>2, BusyFacts
  <2>3. DOMAIN passengers[c] = 1 .. Len(passengers[c])
    BY <2>2
  <2>4. /\ Cardinality(SeatedAt(c)) = indexPassenger[c]
        /\ \E j \in 1 .. Len(passengers[c]) : driver[passengers[c][j]] # Nil
    BY <1>1, <1>2 DEF PickUpOK
  <2>5. ASSUME NEW j \in 1 .. Len(passengers[c]), driver[passengers[c][j]] # Nil, waiting = {}
        PROVE  j \in SeatedAt(c)
    <3>1. passengers[c][j] \in Users
      BY <1>1, <1>2, PickUpAboard
    <3>2. passengers[c][j] \notin waitingForCar
      BY <2>3, <2>5
    <3>3. passengers[c][j] \in inCar
      BY <1>1, <2>5, <3>1, <3>2 DEF SeatsOK, Seat
    <3> QED BY <3>3 DEF SeatedAt
  <2>6. ASSUME NEW j \in 1 .. Len(passengers[c]), driver[passengers[c][j]] = Nil
        PROVE  indexPassenger[c] = 0
    <3>1. passengers[c][j] \in Users /\ Aboard(passengers[c][j], c)
      BY <1>1, <1>2, PickUpAboard
    <3>2. ~Later(c, passengers[c][j])
      <4>1. phase = "car" /\ turn = c /\ c \in Nat
        BY Numbers DEF Runs
      <4> QED BY <4>1 DEF Later
    <3> QED BY <1>1, <2>6, <3>1, <3>2 DEF ConfirmsInTime
  <2>7. ASSUME waiting = {} PROVE FALSE
    <3>1. SeatedAt(c) # {}
      BY <2>4, <2>5, <2>7
    <3>2. IsFiniteSet(SeatedAt(c))
      BY <2>2, FS_Subset DEF SeatedAt
    <3>3. indexPassenger[c] # 0
      BY <2>4, <3>1, <3>2, FS_EmptySet
    <3>4. \A j \in 1 .. Len(passengers[c]) : driver[passengers[c][j]] # Nil
      BY <2>6, <3>3
    <3>5. SeatedAt(c) = 1 .. Len(passengers[c])
      BY <2>5, <2>7, <3>4 DEF SeatedAt
    <3>6. indexPassenger[c] = Len(passengers[c])
      BY <2>2, <2>4, <3>5
    <3>7. indexPassenger[c] \in 0 .. Len(passengers[c]) - 1
      BY <2>2 DEF BusyCarAligned
    <3> QED BY <2>2, <3>6, <3>7
  <2>8. i \in waiting
    BY <2>1, <2>7 DEF NextPickUp
  <2> QED BY <1>2, <1>3, <2>8
<1> QED BY <1>4, <1>5

\* A user gets in.
LEMMA GetsIn ==
    ASSUME InTimeInv, NEW c \in Cars, CarPickUp(c)
    PROVE  \E i \in 1 .. Len(passengers[c]) :
            LET p == passengers[c][i] IN
            /\ p \in Users /\ p \in waitingForCar /\ myBlockCar[p] = c
            /\ inCar' = inCar \cup {p} /\ waitingForCar' = waitingForCar \ {p}
<1>1. PICK i \in FindNextTarget(c) : /\ inCar' = inCar \cup {passengers[c][i]}
                                     /\ waitingForCar' = waitingForCar \ {passengers[c][i]}
  BY DEF CarPickUp
<1>2. Runs("car", c) /\ objective[c] = "pickUp"
  BY DEF CarPickUp
<1> QED BY <1>1, <1>2, NextWaits

LEMMA SeatSame ==
    ASSUME NEW u \in Users, Seat(u), u \in inCar' <=> u \in inCar,
           u \in waitingForCar' <=> u \in waitingForCar, driver'[u] = driver[u],
           driver[u] # Nil => (u \in target' => u \in target),
           myBlockCar[u] # Nil => myBlockCar'[u] # Nil
    PROVE  Seat(u)'
BY DEF Seat

\* A moving user sends its transaction.
LEMMA SeatSend ==
    ASSUME TypeOK, SeatsOK, NEW u \in Users, u \in target, NEW c \in Cars,
           SendTransaction(u, c), inCar' = inCar, myBlockCar'[u] # Nil
    PROVE  /\ Seat(u)' /\ driver'[u] # Nil
           /\ \A v \in Users \ {u} : /\ driver'[v] = driver[v] /\ (v \in target' <=> v \in target)
                                     /\ v \in waitingForCar' <=> v \in waitingForCar
<1>1. /\ waitingForCar' = waitingForCar \cup {u} /\ target' = target \ {u}
      /\ driver' = [driver EXCEPT ![u] = c]
  BY DEF SendTransaction
<1>2. driver'[u] = c /\ c # Nil /\ \A v \in Users \ {u} : driver'[v] = driver[v]
  BY <1>1, Numbers DEF TypeOK
<1>3. u \notin inCar
  BY DEF SeatsOK, Seat
<1> QED BY <1>1, <1>2, <1>3 DEF Seat

LEMMA SeatsStep ==
    ASSUME InTime, InTimeInv, [Next]_vars
    PROVE  SeatsOK'
<1> SUFFICES ASSUME NEW v \in Users PROVE Seat(v)'
  BY DEF SeatsOK, Seat
<1>1. /\ TypeOK /\ CarListsAgree /\ RidesOK /\ OneCarPerUser /\ TripsLogged /\ EnoughInv /\ StayPut
      /\ SeatsOK /\ Enough
  BY DEF InTimeInv, EnoughInv, CarsOK, InTime
<1>2. Seat(v)
  BY <1>1 DEF SeatsOK
<1>3. CASE UNCHANGED <<inCar, waitingForCar, driver, target, myBlockCar>>
  BY <1>2, <1>3, SeatSame
<1>4. ASSUME NEW u \in Users, UpdateTarget(u) PROVE Seat(v)'
  <2>1. UNCHANGED <<inCar, waitingForCar, driver, myBlockCar>>
    BY <1>4 DEF UpdateTarget, tripVars
  <2>2. target' = target \/ (target' = target \cup {u} /\ ~Settled(u))
    BY <1>4 DEF UpdateTarget, Settled
  <2>3. ~Settled(u) => driver[u] = Nil
    BY <1>1 DEF StayPut, Stays, TripsLogged, Announced
  <2>4. driver[v] # Nil => (v \in target' => v \in target)
    BY <2>2, <2>3
  <2> QED BY <1>2, <2>1, <2>4, SeatSame
<1>5. ASSUME NEW u \in Users, Confirm(u) PROVE Seat(v)'
  <2>1. /\ u \in target /\ myBlockCar[u] # Nil /\ SendTransaction(u, myBlockCar[u])
        /\ UNCHANGED <<inCar, myBlockCar>>
    BY <1>5 DEF Confirm, MovePre
  <2>2. myBlockCar[u] \in Cars
    BY <1>1, <2>1 DEF TypeOK
  <2>3. /\ Seat(u)'
        /\ \A w \in Users \ {u} : /\ driver'[w] = driver[w] /\ (w \in target' <=> w \in target)
                                  /\ w \in waitingForCar' <=> w \in waitingForCar
    BY <1>1, <2>1, <2>2, SeatSend
  <2>4. CASE v = u
    BY <2>3, <2>4
  <2>5. CASE v # u
    BY <1>2, <2>1, <2>3, <2>5, SeatSame
  <2> QED BY <2>4, <2>5
<1>6. ASSUME NEW u \in Users, FormGroup(u) PROVE Seat(v)'
  <2>1. u \in target /\ inCar' = inCar
    BY <1>6 DEF FormGroup, MovePre
  <2>2. PICK group \in Seq(Users), c \in Cars :
            /\ Listed(group, u)
            /\ myBlockCar' = [w \in Users |-> IF Listed(group, w) THEN c ELSE myBlockCar[w]]
            /\ SendTransaction(u, c)
    BY <1>1, <1>6, FormGroupFacts
  <2>3. c # Nil
    BY Numbers
  <2>4. myBlockCar'[u] # Nil /\ (myBlockCar[v] # Nil => myBlockCar'[v] # Nil)
    BY <2>2, <2>3
  <2>5. /\ Seat(u)'
        /\ \A w \in Users \ {u} : /\ driver'[w] = driver[w] /\ (w \in target' <=> w \in target)
                                  /\ w \in waitingForCar' <=> w \in waitingForCar
    BY <1>1, <2>1, <2>2, <2>4, SeatSend
  <2>6. CASE v = u
    BY <2>5, <2>6
  <2>7. CASE v # u
    BY <1>2, <2>1, <2>4, <2>5, <2>7, SeatSame
  <2> QED BY <2>6, <2>7
<1>7. ASSUME NEW d \in Cars, CarPickUp(d) PROVE Seat(v)'
  <2>1. PICK i \in 1 .. Len(passengers[d]) :
            /\ passengers[d][i] \in waitingForCar
            /\ inCar' = inCar \cup {passengers[d][i]}
            /\ waitingForCar' = waitingForCar \ {passengers[d][i]}
    BY <1>7, GetsIn
  <2>2. UNCHANGED <<driver, target, myBlockCar>>
    BY <1>7 DEF CarPickUp, tripVars
  <2> QED BY <1>2, <2>1, <2>2 DEF Seat
<1>8. ASSUME NEW d \in Cars, CarDropOff(d) PROVE Seat(v)'
  <2>1. PICK i \in 1 .. Len(passengers[d]) :
            passengers[d][i] \in Users /\ DropOffUser(passengers[d][i])
    BY <1>1, <1>8, DropOff
  <2> DEFINE p == passengers[d][i]
  <2>2. /\ p \in Users /\ target' = target \ {p} /\ inCar' = inCar \ {p}
        /\ waitingForCar' = waitingForCar \ {p}
        /\ myBlockCar' = [myBlockCar EXCEPT ![p] = Nil] /\ driver' = [driver EXCEPT ![p] = Nil]
    BY <2>1 DEF DropOffUser
  <2> HIDE DEF p
  <2>3. CASE v = p
    <3>1. v \notin inCar' /\ v \notin waitingForCar' /\ driver'[v] = Nil
      BY <1>1, <2>2, <2>3 DEF TypeOK
    <3> QED BY <3>1 DEF Seat
  <2>4. CASE v # p
    <3>1. driver'[v] = driver[v] /\ myBlockCar'[v] = myBlockCar[v]
      BY <1>1, <2>2, <2>4 DEF TypeOK
    <3> QED BY <1>2, <2>2, <2>4, <3>1, SeatSame
  <2> QED BY <2>3, <2>4
<1> QED BY <1>1, <1>3, <1>4, <1>5, <1>6, <1>7, <1>8, NoRetry
        DEF Next, NextCycle, StopSim, UserMove, MoveIdle, KeepLooking, CarMove, CarWander, CarDrive,
            CarDropOffFails, vars, userVars, tripVars

\* A car that a step leaves alone, with the passengers it has.
LEMMA PickUpSame ==
    ASSUME EnoughInv, PickUpsOK, NEW c \in Cars, SameCar(c),
           \A v \in Users : Aboard(v, c) =>
               /\ v \in inCar' <=> v \in inCar
               /\ v \in waitingForCar => v \in waitingForCar'
               /\ driver[v] # Nil => driver'[v] # Nil
    PROVE  PickUpOK(c)'
<1> SUFFICES ASSUME c \notin isFree PROVE PickUpOK(c)'
  BY DEF PickUpOK, SameCar
<1>1. /\ objective'[c] = objective[c] /\ passengers'[c] = passengers[c] /\ endPoints'[c] = endPoints[c]
      /\ indexPassenger'[c] = indexPassenger[c] /\ indexNext'[c] = indexNext[c]
  BY DEF SameCar
<1>2. TypeOK /\ CarListsAgree /\ PickUpOK(c)
  BY DEF EnoughInv, CarsOK, PickUpsOK
<1>3. CASE objective[c] = "dropOff"
  <2>1. ASSUME NEW i \in 1 .. Len(passengers[c]), endPoints[c][i] # Gone
        PROVE  passengers[c][i] \in inCar'
    <3>1. passengers[c][i] \in Users /\ Aboard(passengers[c][i], c)
      BY <1>2, <2>1 DEF TypeOK, Aboard
    <3> QED BY <1>2, <1>3, <2>1, <3>1 DEF PickUpOK
  <2> QED BY <1>1, <1>3, <2>1 DEF PickUpOK
<1>4. CASE objective[c] = "pickUp"
  <2>1. \A i \in 1 .. Len(passengers[c]) :
            passengers[c][i] \in Users /\ Aboard(passengers[c][i], c)
    BY <1>4, PickUpAboard
  <2>2. SeatedAt(c)' = SeatedAt(c)
    BY <1>1, <2>1 DEF SeatedAt
  <2>3. indexNext[c] # 0 => indexNext[c] \in 1 .. Len(passengers[c])
    <3>1. BusyCarAligned(c) /\ Len(passengers[c]) \in Nat
      BY <1>2, BusyFacts
    <3> QED BY <3>1 DEF BusyCarAligned
  <2>4. indexNext[c] # 0 => passengers[c][indexNext[c]] \in waitingForCar'
    BY <1>2, <1>4, <2>1, <2>3 DEF PickUpOK
  <2>5. \E i \in 1 .. Len(passengers[c]) : driver'[passengers[c][i]] # Nil
    BY <1>2, <1>4, <2>1 DEF PickUpOK
  <2>6. Cardinality(SeatedAt(c)) = indexPassenger[c]
    BY <1>2, <1>4 DEF PickUpOK
  <2>7. Cardinality(SeatedAt(c)') = indexPassenger'[c]
    BY <1>1, <2>2, <2>6
  <2> QED BY <1>1, <1>4, <2>4, <2>5, <2>7 DEF PickUpOK
<1>5. objective[c] \in {"pickUp", "dropOff"}
  BY <1>2 DEF CarListsAgree, CarOK, BusyCarAligned
<1> QED BY <1>3, <1>4, <1>5

LEMMA PickUpsStep ==
    ASSUME InTime, InTimeInv, [Next]_vars
    PROVE  PickUpsOK'
<1> SUFFICES ASSUME NEW c \in Cars PROVE PickUpOK(c)'
  BY DEF PickUpsOK, PickUpOK, SeatedAt
<1>1. /\ TypeOK /\ CarListsAgree /\ RidesOK /\ OneCarPerUser /\ EnoughInv /\ SeatsOK /\ PickUpsOK
      /\ Enough
  BY DEF InTimeInv, EnoughInv, CarsOK, InTime
<1>2. CASE UNCHANGED <<inCar, waitingForCar, driver>> /\ UNCHANGED carVars
  <2>1. SameCar(c)
    BY <1>2 DEF carVars, SameCar
  <2> QED BY <1>1, <1>2, <2>1, PickUpSame
<1>3. ASSUME NEW u \in Users, Confirm(u) PROVE PickUpOK(c)'
  <2>1. /\ u \in target /\ myBlockCar[u] # Nil /\ SendTransaction(u, myBlockCar[u])
        /\ UNCHANGED <<inCar, myBlockCar, carVars>>
    BY <1>3 DEF Confirm, MovePre
  <2>2. myBlockCar[u] \in Cars
    BY <1>1, <2>1 DEF TypeOK
  <2>3. driver'[u] # Nil /\ \A w \in Users \ {u} : driver'[w] = driver[w]
    BY <1>1, <2>1, <2>2, SeatSend
  <2>4. waitingForCar' = waitingForCar \cup {u}
    BY <2>1 DEF SendTransaction
  <2>5. SameCar(c)
    BY <2>1 DEF carVars, SameCar
  <2> QED BY <1>1, <2>1, <2>3, <2>4, <2>5, PickUpSame
<1>4. ASSUME NEW u \in Users, FormGroup(u) PROVE PickUpOK(c)'
  <2>1. u \in target /\ inCar' = inCar
    BY <1>4 DEF FormGroup, MovePre
  <2>2. PICK group \in Seq(Users), e \in Cars :
            /\ Listed(group, u)
            /\ \A v \in Users : Listed(group, v) => myBlockCar[v] = Nil
            /\ \A v \in Users : Listed(group, v) <=> \E i \in 1 .. Len(group) : group[i] = v
            /\ myBlockCar' = [w \in Users |-> IF Listed(group, w) THEN e ELSE myBlockCar[w]]
            /\ SendTransaction(u, e)
            /\ \A d \in Cars \ {e} : SameCar(d)
            /\ isFree' = isFree \ {e} /\ passengers'[e] = group
            /\ objective'[e] = "pickUp" /\ indexPassenger'[e] = 0 /\ indexNext'[e] = 0
    BY <1>1, <1>4, FormGroupFacts
  <2>3. myBlockCar'[u] # Nil /\ waitingForCar' = waitingForCar \cup {u}
    BY <2>2, Numbers DEF SendTransaction
  <2>4. driver'[u] # Nil /\ \A w \in Users \ {u} : driver'[w] = driver[w]
    BY <1>1, <2>1, <2>2, <2>3, SeatSend
  <2>5. CASE c # e
    <3>1. SameCar(c)
      BY <2>2, <2>5
    <3> QED BY <1>1, <2>1, <2>3, <2>4, <3>1, PickUpSame
  <2>6. CASE c = e
    <3>1. ASSUME NEW i \in 1 .. Len(group) PROVE group[i] \notin inCar
      <4>1. group[i] \in Users
        OBVIOUS
      <4>2. myBlockCar[group[i]] = Nil
        BY <2>2, <4>1
      <4> QED BY <1>1, <4>1, <4>2 DEF SeatsOK, Seat
    <3>2. passengers'[c] = group
      BY <2>2, <2>6
    <3>3. SeatedAt(c)' = {}
      BY <2>1, <3>1, <3>2 DEF SeatedAt
    <3>4. Cardinality(SeatedAt(c)') = 0
      BY <3>3, FS_EmptySet
    <3>5. \E i \in 1 .. Len(group) : driver'[group[i]] # Nil
      BY <2>2, <2>4
    <3> QED BY <2>2, <2>6, <3>2, <3>4, <3>5 DEF PickUpOK
  <2> QED BY <2>5, <2>6
<1>5. ASSUME NEW d \in Cars, CarDrive(d) PROVE PickUpOK(c)'
  <2>1. PICK i \in FindNextTarget(d) : indexNext' = [indexNext EXCEPT ![d] = i]
    BY <1>5 DEF CarDrive
  <2>2. /\ UNCHANGED <<isFree, objective, passengers, startPoints, endPoints, indexPassenger,
                       inCar, waitingForCar, driver>>
        /\ Runs("car", d)
    BY <1>5 DEF CarDrive, userVars, tripVars
  <2>3. CASE c # d
    <3>1. SameCar(c)
      BY <1>1, <2>1, <2>2, <2>3 DEF SameCar, TypeOK
    <3> QED BY <1>1, <2>2, <3>1, PickUpSame
  <2>4. CASE c = d
    <3>1. indexNext'[c] = i
      BY <1>1, <2>1, <2>4 DEF TypeOK
    <3>2. objective[c] = "pickUp" => passengers[c][i] \in waitingForCar
      BY <2>2, <2>4, NextWaits
    <3>3. SeatedAt(c)' = SeatedAt(c)
      BY <2>2 DEF SeatedAt
    <3>4. PickUpOK(c)
      BY <1>1 DEF PickUpsOK
    <3>5. objective[c] = "pickUp" /\ c \notin isFree => Cardinality(SeatedAt(c)') = indexPassenger[c]
      BY <3>3, <3>4 DEF PickUpOK
    <3> QED BY <2>2, <3>1, <3>2, <3>4, <3>5 DEF PickUpOK
  <2> QED BY <2>3, <2>4
<1>6. ASSUME NEW d \in Cars, CarPickUp(d) PROVE PickUpOK(c)'
  <2> DEFINE all == indexPassenger[d] + 1 = Len(passengers[d])
  <2>1. /\ UNCHANGED <<isFree, passengers, startPoints, endPoints, driver>>
        /\ indexPassenger' = [indexPassenger EXCEPT ![d] = IF all THEN 0 ELSE indexPassenger[d] + 1]
        /\ objective' = [objective EXCEPT ![d] = IF all THEN "dropOff" ELSE objective[d]]
        /\ indexNext' = [indexNext EXCEPT ![d] = 0]
        /\ objective[d] = "pickUp"
    BY <1>6 DEF CarPickUp, tripVars
  <2>2. PICK i \in 1 .. Len(passengers[d]) :
            /\ passengers[d][i] \in Users /\ passengers[d][i] \in waitingForCar
            /\ myBlockCar[passengers[d][i]] = d
            /\ inCar' = inCar \cup {passengers[d][i]}
            /\ waitingForCar' = waitingForCar \ {passengers[d][i]}
    BY <1>6, GetsIn
  <2>3. CASE c # d
    <3>1. SameCar(c)
      BY <1>1, <2>1, <2>3 DEF SameCar, TypeOK
    <3>2. \A v \in Users : Aboard(v, c) => v # passengers[d][i]
      BY <1>1, <2>2, <2>3 DEF OneCarPerUser
    <3> QED BY <1>1, <2>1, <2>2, <3>1, <3>2, PickUpSame
  <2>4. CASE c = d
    <3> DEFINE n == Len(passengers[c])
               S == SeatedAt(c)
    <3>1. c \notin isFree
      <4>1. c \in isFree => objective[c] = "wander"
        BY <1>1 DEF CarListsAgree, CarOK, FreeCarClean
      <4> QED BY <2>1, <2>4, <4>1
    <3>2. /\ PickUpOK(c) /\ RideOK(c) /\ BusyCarAligned(c) /\ n \in Nat
          /\ IsFiniteSet(1 .. n) /\ Cardinality(1 .. n) = n
      BY <1>1, <3>1, BusyFacts DEF PickUpsOK, RidesOK
    <3>3. Cardinality(S) = indexPassenger[c] /\ \E j \in 1 .. n : driver[passengers[c][j]] # Nil
      BY <2>1, <2>4, <3>1, <3>2 DEF PickUpOK
    <3>4. \A j, k \in 1 .. n : passengers[c][j] = passengers[c][k] => j = k
      BY <3>1, <3>2 DEF RideOK
    <3>5. SeatedAt(c)' = S \cup {i}
      BY <2>1, <2>2, <2>4, <3>4 DEF SeatedAt
    <3>6. i \notin S
      BY <1>1, <2>2, <2>4 DEF SeatsOK, Seat, SeatedAt
    <3>7. IsFiniteSet(S)
      BY <3>2, FS_Subset DEF SeatedAt
    <3>8. S \subseteq 1 .. n
      BY DEF SeatedAt
    <3> HIDE DEF S
    <3>9. Cardinality(S \cup {i}) = indexPassenger[c] + 1 /\ IsFiniteSet(S \cup {i})
      BY <3>3, <3>6, <3>7, FS_AddElement
    <3>10. CASE indexPassenger[c] + 1 = n
      <4>1. S \cup {i} = 1 .. n
        <5>1. S \cup {i} \subseteq 1 .. n
          BY <2>2, <2>4, <3>8
        <5> QED BY <3>2, <3>9, <3>10, <5>1, FS_Subset
      <4>2. objective'[c] = "dropOff"
        BY <1>1, <2>1, <2>4, <3>10 DEF TypeOK
      <4>3. \A j \in 1 .. n : passengers'[c][j] \in inCar'
        BY <3>5, <4>1 DEF SeatedAt
      <4> QED BY <2>1, <4>2, <4>3 DEF PickUpOK
    <3>11. CASE indexPassenger[c] + 1 # n
      <4>1. objective'[c] = "pickUp" /\ indexPassenger'[c] = indexPassenger[c] + 1 /\ indexNext'[c] = 0
        BY <1>1, <2>1, <2>4, <3>11 DEF TypeOK
      <4>2. Cardinality(SeatedAt(c)') = indexPassenger'[c]
        BY <3>5, <3>9, <4>1
      <4> QED BY <2>1, <3>3, <4>1, <4>2 DEF PickUpOK
    <3> QED BY <3>10, <3>11
  <2> QED BY <2>3, <2>4
<1>7. ASSUME NEW d \in Cars, CarDropOff(d) PROVE PickUpOK(c)'
  <2>1. PICK i \in 1 .. Len(passengers[d]) :
            LET p == passengers[d][i] IN
            /\ p \in Users /\ myBlockCar[p] = d /\ DropOffUser(p) /\ endPoints[d][i] # Gone
            /\ \A e \in Cars \ {d} : SameCar(e)
            /\ \/ passengers'[d] = << >> /\ endPoints'[d] = << >> /\ isFree' = isFree \cup {d}
               \/ /\ passengers'[d] = passengers[d] /\ objective'[d] = "dropOff"
                  /\ endPoints'[d] = [endPoints[d] EXCEPT ![i] = Gone] /\ isFree' = isFree
    BY <1>1, <1>7, DropOff
  <2> DEFINE p == passengers[d][i]
  <2>2. /\ p \in Users /\ myBlockCar[p] = d /\ inCar' = inCar \ {p}
        /\ waitingForCar' = waitingForCar \ {p} /\ driver' = [driver EXCEPT ![p] = Nil]
    BY <2>1 DEF DropOffUser
  <2>3. CASE c # d
    <3>1. SameCar(c)
      BY <2>1, <2>3
    <3>2. \A v \in Users : Aboard(v, c) => v # p
      BY <1>1, <2>2, <2>3 DEF OneCarPerUser
    <3>3. \A v \in Users : v # p => driver'[v] = driver[v]
      BY <1>1, <2>2 DEF TypeOK
    <3> HIDE DEF p
    <3> QED BY <1>1, <2>2, <3>1, <3>2, <3>3, PickUpSame
  <2>4. CASE c = d /\ isFree' = isFree \cup {d}
    BY <2>4 DEF PickUpOK
  <2>5. CASE c = d /\ c \notin isFree'
    <3>1. /\ passengers'[c] = passengers[c] /\ objective'[c] = "dropOff"
          /\ endPoints'[c] = [endPoints[c] EXCEPT ![i] = Gone] /\ isFree' = isFree
      BY <2>1, <2>5
    <3>2. objective[c] = "dropOff"
      BY <1>7, <2>5 DEF CarDropOff
    <3>3. BusyCarAligned(c) /\ RideOK(c) /\ PickUpOK(c) /\ endPoints[c] \in Seq(Points)
      BY <1>1, <2>5, <3>1, BusyFacts DEF RidesOK, PickUpsOK
    <3>4. DOMAIN endPoints[c] = 1 .. Len(passengers[c])
      BY <3>3 DEF BusyCarAligned
    <3>5. ASSUME NEW j \in 1 .. Len(passengers[c]), endPoints'[c][j] # Gone
          PROVE  passengers[c][j] \in inCar'
      <4>1. j # i /\ endPoints[c][j] # Gone
        BY <2>5, <3>1, <3>4, <3>5
      <4>2. passengers[c][j] \in inCar
        BY <2>5, <3>1, <3>2, <3>3, <4>1 DEF PickUpOK
      <4>3. passengers[c][j] # p
        BY <2>1, <2>5, <3>1, <3>3, <4>1 DEF RideOK
      <4> QED BY <2>2, <4>2, <4>3
    <3> QED BY <3>1, <3>5 DEF PickUpOK
  <2> QED BY <2>3, <2>4, <2>5 DEF PickUpOK
<1> QED BY <1>1, <1>2, <1>3, <1>4, <1>5, <1>6, <1>7, NoRetry
        DEF Next, NextCycle, StopSim, UpdateTarget, UserMove, MoveIdle, KeepLooking, CarMove, CarWander,
            CarDropOffFails, vars, userVars, tripVars

LEMMA InTimeInitOK == Init => InTimeInv
<1> SUFFICES ASSUME Init PROVE InTimeInv
  OBVIOUS
<1>1. SeatsOK /\ PickUpsOK
  BY DEF Init, SeatsOK, Seat, PickUpsOK, PickUpOK
<1> QED BY <1>1, EnoughInitOK, StayInitOK DEF InTimeInv

LEMMA InTimeStep == InTime /\ InTimeInv /\ [Next]_vars => InTimeInv'
<1> SUFFICES ASSUME InTime, InTimeInv, [Next]_vars PROVE InTimeInv'
  OBVIOUS
<1>1. EnoughInv' /\ StayPut' /\ PlacesOK'
  BY EnoughStep, StayStep, PlacesStep DEF InTimeInv, InTime
<1> QED BY <1>1, SeatsStep, PickUpsStep DEF InTimeInv

\* With a car for every user and rides that are over before the hour changes,
\* an end hour is sent only for a user that sat in the car.
THEOREM EndsAfterRide == InTime => (Spec => EndHourAfterRide)
<1> SUFFICES ASSUME InTime PROVE Spec => EndHourAfterRide
  OBVIOUS
<1> DEFINE Ended == \A u \in Users : currentTransaction[u] # Nil /\ currentTransaction'[u] = Nil
                                        => u \in inCar
<1>1. InTimeInv /\ [Next]_vars => [Ended]_vars
  <2> SUFFICES ASSUME InTimeInv, Next, NEW u \in Users, currentTransaction[u] # Nil,
                      currentTransaction'[u] = Nil
               PROVE  u \in inCar
    OBVIOUS
  <2>1. /\ TypeOK /\ CarListsAgree /\ RidesOK /\ OneCarPerUser /\ TripsLogged /\ EnoughInv /\ PickUpsOK
        /\ Enough
    BY DEF InTimeInv, EnoughInv, CarsOK, InTime
  <2>2. ASSUME NEW v \in Users, CreateAndAddTransaction(v) PROVE FALSE
    <3>1. /\ currentTransaction'[v] = TransOf(v) /\ TransOf(v) \in Nat
          /\ \A w \in Users \ {v} : currentTransaction'[w] = currentTransaction[w]
      BY <2>1, <2>2, CreateFacts, TransOfFacts
    <3> QED BY <3>1 DEF Nil
  <2>3. ASSUME NEW c \in Cars, CarDropOff(c) PROVE u \in inCar
    <3>1. PICK i \in 1 .. Len(passengers[c]) :
            /\ passengers[c][i] \in Users /\ endPoints[c][i] # Gone
            /\ DropOffUser(passengers[c][i])
      BY <2>1, <2>3, DropOff
    <3>2. u = passengers[c][i]
      BY <2>1, <3>1 DEF DropOffUser, TypeOK
    <3>3. objective[c] = "dropOff"
      BY <2>3 DEF CarDropOff
    <3>4. c \notin isFree
      BY <2>1, <3>3 DEF CarListsAgree, CarOK, FreeCarClean
    <3> QED BY <2>1, <3>1, <3>2, <3>3, <3>4 DEF PickUpsOK, PickUpOK
  <2>4. CASE UNCHANGED currentTransaction
    BY <2>4
  <2> QED BY <2>2, <2>3, <2>4
          DEF Next, NextCycle, StopSim, UpdateTarget, UserMove, MoveIdle, KeepLooking, FormGroup,
              RetryGroup, Confirm, CarMove, CarWander, CarDrive, CarPickUp, CarDropOffFails,
              userVars, tripVars
<1>2. Spec => [][Ended]_vars
  BY <1>1, InTimeInitOK, InTimeStep, PTL DEF Spec
<1> QED BY <1>2 DEF EndHourAfterRide

=============================================================================
