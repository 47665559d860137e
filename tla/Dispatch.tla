------------------------------ MODULE Dispatch ------------------------------
(***************************************************************************)
(* The ride dispatch of the GAMA model CityScope_Custom_Template.gaml:     *)
(* BlockCarUser agents travel between home and work, gather in groups, ask *)
(* for a BlockCar and are picked up and dropped off by it.  Every user     *)
(* owns a TCP connection to the Python server (UserClient.gaml) on which   *)
(* it announces a ride ("Transaction") and the end of a ride               *)
(* ("addEndHour").                                                         *)
(*                                                                         *)
(* GAMA runs one agent at a time: in every cycle the world agent, then the *)
(* users and then the cars in the order of their creation.  A reflex is    *)
(* one action; phase and turn say which reflex runs next.                  *)
(*                                                                         *)
(* Abstractions.  Geometry is nondeterministic: closest_to returns any     *)
(* candidate, goto arrives in this cycle or does not, and the people that  *)
(* findPeople finds near are any of the eligible ones.  An hour lasts any  *)
(* number of cycles (600 in the code).  A Boolean attribute of an agent is *)
(* the set of agents for which it is true, lists are sequences and indices *)
(* start at 1 with 0 for the code's -1.                                    *)
(***************************************************************************)
EXTENDS Integers, Sequences, FiniteSets

CONSTANTS
    NbBlockCarUser,   \* number of users (20 in the code)
    NbBlockCar,       \* number of cars (2 in the code)
    StartWork,        \* the hour after which each user goes to work
    EndWork,          \* the hour after which each user goes home
    HoursPerDay,      \* 24 in the code
    LastDay,          \* the day on which stopSim pauses (7 in the code)
    MaxWait,          \* cycles after which a lone user stops waiting for company
    SentinelInReach,  \* may {1000,1000,1000} be closer than a destination?
    RidesFitInAnHour  \* are all rides over before the hour changes?

Users == 0 .. NbBlockCarUser - 1
Cars  == 0 .. NbBlockCar - 1
Nil   == -1           \* nil, for users, cars and transactions

ASSUME DispatchConstants ==
    /\ NbBlockCarUser \in Nat \ {0}
    /\ NbBlockCar \in Nat \ {0}
    /\ HoursPerDay \in Nat \ {0}
    /\ LastDay \in Nat
    /\ MaxWait \in Nat
    /\ StartWork \in [Users -> 0 .. HoursPerDay - 1]
    /\ EndWork \in [Users -> 0 .. HoursPerDay - 1]
    /\ SentinelInReach \in BOOLEAN
    /\ RidesFitInAnHour \in BOOLEAN

Places == {"home", "work"}

\* A destination of a passenger, and the point that replaces it afterwards.
Gone   == [user |-> Nil, place |-> "home"]
Points == [user : Users, place : Places] \cup {Gone}

\* What a user's NetworkingClient sends.
Messages == [kind : {"Transaction", "addEndHour"}, trans : Nat, car : Cars]

VARIABLES
    phase, turn, hour, day, status,
    target,              \* users whose target is not nil
    nextObjective,
    askingForCar, inAGroup, waitingForCar, inCar,
    myBlockCar,
    copassengers,
    currentTransaction,  \* id of the Transaction agent, or Nil
    driver,              \* its driver
    endPoint,            \* its endPoint
    waited,              \* cycles since waitTime, at most MaxWait
    nextTrans,           \* id of the next Transaction agent
    sent,                \* what each user has sent to the server
    isFree, objective, passengers, startPoints, endPoints,
    indexPassenger, indexNext

clockVars == <<hour, day, status>>
tripVars  == <<currentTransaction, driver, endPoint, waited, nextTrans>>
userVars  == <<target, nextObjective, askingForCar, inAGroup, waitingForCar,
               inCar, myBlockCar, copassengers, tripVars, sent>>
carVars   == <<isFree, objective, passengers, startPoints, endPoints,
               indexPassenger, indexNext>>
vars      == <<phase, turn, clockVars, userVars, carVars>>

-----------------------------------------------------------------------------
(* Init: customInit, and the attributes' initial values. *)
Init ==
    /\ phase = "world" /\ turn = 0
    /\ hour = 0 /\ day = 0 /\ status = "running"
    /\ target = {}
    /\ nextObjective = [u \in Users |-> "home"]
    /\ askingForCar = {} /\ inAGroup = {} /\ waitingForCar = {} /\ inCar = {}
    /\ myBlockCar = [u \in Users |-> Nil]
    /\ copassengers = [u \in Users |-> <<>>]
    /\ currentTransaction = [u \in Users |-> Nil]
    /\ driver = [u \in Users |-> Nil]
    /\ endPoint = [u \in Users |-> "home"]
    /\ waited = [u \in Users |-> 0]
    /\ nextTrans = 0
    /\ sent = [u \in Users |-> <<>>]
    /\ isFree = Cars
    /\ objective = [c \in Cars |-> "wander"]
    /\ passengers = [c \in Cars |-> <<>>]
    /\ startPoints = [c \in Cars |-> <<>>]
    /\ endPoints = [c \in Cars |-> <<>>]
    /\ indexPassenger = [c \in Cars |-> 0]
    /\ indexNext = [c \in Cars |-> 0]

-----------------------------------------------------------------------------
(* The scheduler: whose reflex runs, and who is next. *)
Runs(p, agent) == status = "running" /\ phase = p /\ turn = agent

AfterUser(u) ==
    IF u + 1 \in Users THEN phase' = "updateTarget" /\ turn' = u + 1
                       ELSE phase' = "car" /\ turn' = 0

AfterCar(c) ==
    IF c + 1 \in Cars THEN phase' = phase /\ turn' = c + 1
                      ELSE phase' = "world" /\ turn' = 0

(* The world's step: currentHour and currentDay are updated. *)
NextCycle ==
    /\ Runs("world", 0) /\ day < LastDay
    /\ phase' = "updateTarget" /\ turn' = 0
    /\ \/ UNCHANGED <<hour, day>>
       \/ /\ RidesFitInAnHour => target = {} /\ isFree = Cars
          /\ hour' = (hour + 1) % HoursPerDay
          /\ day' = IF hour + 1 = HoursPerDay THEN day + 1 ELSE day
    /\ waited' = [u \in Users |-> IF waited[u] < MaxWait THEN waited[u] + 1
                                                         ELSE MaxWait]
    /\ UNCHANGED <<status, target, nextObjective, askingForCar, inAGroup,
                   waitingForCar, inCar, myBlockCar, copassengers,
                   currentTransaction, driver, endPoint, nextTrans, sent,
                   carVars>>

(* stopSim: the first cycle of the last day is completed, then pause.      *)
StopSim ==
    /\ Runs("world", 0) /\ day = LastDay
    /\ status' = "paused"
    /\ UNCHANGED <<phase, turn, hour, day, userVars, carVars>>

-----------------------------------------------------------------------------
(* BlockCarUser: reflex updateTarget. *)
LeavesForWork(u) ==
    hour > StartWork[u] /\ hour < EndWork[u] /\ nextObjective[u] = "home"

LeavesForHome(u) ==
    ~LeavesForWork(u) /\ hour > EndWork[u] /\ nextObjective[u] = "work"

UpdateTarget(u) ==
    /\ Runs("updateTarget", u)
    /\ phase' = "move" /\ turn' = turn
    /\ \/ /\ LeavesForWork(u)
          /\ target' = target \cup {u}
          /\ nextObjective' = [nextObjective EXCEPT ![u] = "work"]
       \/ /\ LeavesForHome(u)
          /\ target' = target \cup {u}
          /\ nextObjective' = [nextObjective EXCEPT ![u] = "home"]
       \/ /\ ~LeavesForWork(u) /\ ~LeavesForHome(u)
          /\ UNCHANGED <<target, nextObjective>>
    /\ UNCHANGED <<clockVars, askingForCar, inAGroup, waitingForCar, inCar,
                   myBlockCar, copassengers, tripVars, sent, carVars>>

-----------------------------------------------------------------------------
(* BlockCarUser: reflex move, with the actions it calls. *)

MoveIdle(u) ==
    /\ Runs("move", u) /\ u \notin target
    /\ AfterUser(u)
    /\ UNCHANGED <<clockVars, userVars, carVars>>

\* Mutant: a transaction is created whether or not there is one.
TransAlwaysNew(u) == nextTrans

\* createAndAddTransaction, called when there is no current transaction.
TransOf(u) == IF currentTransaction[u] = Nil THEN nextTrans
                                            ELSE currentTransaction[u]
\* Mutant: waitTime is set in every cycle.
WaitRestarts(u) == 0

WaitOf(u)  == IF currentTransaction[u] = Nil THEN 0 ELSE waited[u]

\* Mutant: movement is called with start and end swapped.
CreateSwapped(u) ==
    /\ currentTransaction' = [currentTransaction EXCEPT ![u] = TransOf(u)]
    /\ nextTrans' = IF currentTransaction[u] = Nil THEN nextTrans + 1 ELSE nextTrans
    /\ endPoint' = [endPoint EXCEPT ![u] = IF nextObjective[u] = "work" THEN "home" ELSE "work"]
    /\ waited' = [waited EXCEPT ![u] = WaitOf(u)]

CreateAndAddTransaction(u) ==
    /\ currentTransaction' = [currentTransaction EXCEPT ![u] = TransOf(u)]
    /\ nextTrans' = IF currentTransaction[u] = Nil THEN nextTrans + 1
                                                   ELSE nextTrans
    /\ endPoint' = IF currentTransaction[u] = Nil
                     THEN [endPoint EXCEPT ![u] = nextObjective[u]]
                     ELSE endPoint
    /\ waited' = [waited EXCEPT ![u] = WaitOf(u)]

\* findPeople: the near ones among those who ask and have no group yet.  The
\* caller has just set its own askingForCar and is at distance 0 of itself.
Listed(s, v) == \E i \in DOMAIN s : s[i] = v

FindPeople(u) ==
    LET eligible == (askingForCar \ inAGroup) \cup {u}
        lists    == UNION {[1 .. n -> eligible] : n \in 1 .. Cardinality(eligible)}
    IN  {s \in lists : /\ Listed(s, u)
                       /\ \A i, j \in DOMAIN s : i < j => s[i] < s[j]}

\* Mutant: addPassengers leaves the car free.
AddPassengersKeepsFree(c, group) ==
    /\ passengers' = [passengers EXCEPT ![c] = group]
    /\ startPoints' = [startPoints EXCEPT ![c] = @ \o group]
    /\ endPoints' = [endPoints EXCEPT ![c] = @ \o
           [i \in 1 .. Len(group) |->
               [user |-> group[i], place |-> nextObjective[group[i]]]]]
    /\ objective' = [objective EXCEPT ![c] = "pickUp"]
    /\ UNCHANGED <<isFree, indexPassenger, indexNext>>

\* addPassengers: the points are added to the lists the car has.
AddPassengers(c, group) ==
    /\ isFree' = isFree \ {c}
    /\ passengers' = [passengers EXCEPT ![c] = group]
    /\ startPoints' = [startPoints EXCEPT ![c] = @ \o group]
    /\ endPoints' = [endPoints EXCEPT ![c] = @ \o
           [i \in 1 .. Len(group) |->
               [user |-> group[i], place |-> nextObjective[group[i]]]]]
    /\ objective' = [objective EXCEPT ![c] = "pickUp"]
    /\ UNCHANGED <<indexPassenger, indexNext>>

\* The end of movement, once the user has a car.
SendTransaction(u, c) ==
    /\ waitingForCar' = waitingForCar \cup {u}
    /\ target' = target \ {u}
    /\ driver' = [driver EXCEPT ![u] = c]
    /\ sent' = [sent EXCEPT ![u] =
           Append(@, [kind |-> "Transaction", trans |-> TransOf(u), car |-> c])]

\* findCarAndUpdateGroup.  Asking nil to add the passengers does nothing.
FindCarAndUpdateGroup(u, group) ==
    \/ \E c \in isFree :
          /\ myBlockCar' = [v \in Users |-> IF v = u \/ Listed(group, v)
                                            THEN c ELSE myBlockCar[v]]
          /\ AddPassengers(c, group)
          /\ SendTransaction(u, c)
    \/ /\ isFree = {}
       /\ myBlockCar' = [v \in Users |-> IF v = u \/ Listed(group, v)
                                         THEN Nil ELSE myBlockCar[v]]
       /\ UNCHANGED <<waitingForCar, target, driver, sent, carVars>>

MovePre(u) == Runs("move", u) /\ u \in target

(* movement of a user that has no car and no group: it looks for company. *)
KeepLooking(u) ==
    /\ MovePre(u) /\ myBlockCar[u] = Nil /\ u \notin inAGroup
    /\ AfterUser(u)
    /\ CreateAndAddTransaction(u)
    /\ askingForCar' = askingForCar \cup {u}
    /\ WaitOf(u) < MaxWait
    /\ \E group \in FindPeople(u) :
          /\ Len(group) = 1
          /\ copassengers' = [copassengers EXCEPT ![u] = group]
    /\ UNCHANGED <<clockVars, target, nextObjective, inAGroup, waitingForCar,
                   inCar, myBlockCar, driver, sent, carVars>>

FormGroup(u) ==
    /\ MovePre(u) /\ myBlockCar[u] = Nil /\ u \notin inAGroup
    /\ AfterUser(u)
    /\ CreateAndAddTransaction(u)
    /\ askingForCar' = askingForCar \cup {u}
    /\ \E group \in FindPeople(u) :
          /\ Len(group) > 1 \/ WaitOf(u) >= MaxWait
          /\ copassengers' = [copassengers EXCEPT ![u] = group]
          /\ inAGroup' = inAGroup \cup {v \in Users : Listed(group, v)}
          /\ FindCarAndUpdateGroup(u, group)
    /\ UNCHANGED <<clockVars, nextObjective, inCar>>

(* movement of a user that has a group but no car: it asks with its own    *)
(* list of copassengers, the one it found when it last looked.             *)
RetryGroup(u) ==
    /\ MovePre(u) /\ myBlockCar[u] = Nil /\ u \in inAGroup
    /\ AfterUser(u)
    /\ CreateAndAddTransaction(u)
    /\ askingForCar' = askingForCar \cup {u}
    /\ FindCarAndUpdateGroup(u, copassengers[u])
    /\ UNCHANGED <<clockVars, nextObjective, inAGroup, inCar, copassengers>>

(* movement of a user that has been given a car. *)
Confirm(u) ==
    /\ MovePre(u) /\ myBlockCar[u] # Nil
    /\ AfterUser(u)
    /\ CreateAndAddTransaction(u)
    /\ SendTransaction(u, myBlockCar[u])
    /\ UNCHANGED <<clockVars, nextObjective, askingForCar, inAGroup, inCar,
                   myBlockCar, copassengers, carVars>>

UserMove(u) ==
    MoveIdle(u) \/ KeepLooking(u) \/ FormGroup(u) \/ RetryGroup(u) \/ Confirm(u)

-----------------------------------------------------------------------------
(* BlockCar: reflex move. *)

CarWander(c) ==
    /\ Runs("car", c) /\ objective[c] = "wander"
    /\ AfterCar(c)
    /\ UNCHANGED <<clockVars, userVars, carVars>>

\* Mutants: any passenger is fetched, any destination is chosen.
NextPickUpAny(c)  == DOMAIN passengers[c]
NextDropOffAny(c) == DOMAIN endPoints[c]

\* findNextTarget.  Without a waiting passenger the index stays the first.
NextPickUp(c) ==
    LET waiting == {i \in DOMAIN passengers[c] : passengers[c][i] \in waitingForCar}
    IN  IF waiting = {} THEN {1} ELSE waiting

NextDropOff(c) ==
    LET left  == {i \in DOMAIN endPoints[c] : endPoints[c][i] # Gone}
        gone  == DOMAIN endPoints[c] \ left
        first == {i \in gone : \A j \in gone : i <= j}
    IN  IF left = {} \/ SentinelInReach THEN left \cup first ELSE left

FindNextTarget(c) ==
    IF indexNext[c] # 0 THEN {indexNext[c]}
    ELSE IF objective[c] = "pickUp" THEN NextPickUp(c) ELSE NextDropOff(c)

(* The car drives on and does not arrive in this cycle. *)
CarDrive(c) ==
    /\ Runs("car", c) /\ objective[c] # "wander"
    /\ AfterCar(c)
    /\ \E i \in FindNextTarget(c) : indexNext' = [indexNext EXCEPT ![c] = i]
    /\ UNCHANGED <<clockVars, userVars, isFree, objective, passengers,
                   startPoints, endPoints, indexPassenger>>

(* The car arrives at a start point: the passenger of that index gets in. *)
CarPickUp(c) ==
    /\ Runs("car", c) /\ objective[c] = "pickUp"
    /\ AfterCar(c)
    /\ \E i \in FindNextTarget(c) :
          /\ inCar' = inCar \cup {passengers[c][i]}
          /\ waitingForCar' = waitingForCar \ {passengers[c][i]}
    /\ LET all == indexPassenger[c] + 1 = Len(passengers[c])
       IN  /\ indexPassenger' = [indexPassenger EXCEPT ![c] = IF all THEN 0 ELSE @ + 1]
           /\ objective' = [objective EXCEPT ![c] = IF all THEN "dropOff" ELSE @]
    /\ indexNext' = [indexNext EXCEPT ![c] = 0]
    /\ UNCHANGED <<clockVars, target, nextObjective, askingForCar, inAGroup,
                   myBlockCar, copassengers, tripVars, sent, isFree,
                   passengers, startPoints, endPoints>>

\* Mutant: dropOff goes on with a nil transaction.
CanAlwaysDropOff(p) == TRUE

\* dropOff dereferences the user's current transaction and its driver.
CanDropOff(p) == currentTransaction[p] # Nil /\ driver[p] # Nil

\* Mutant: dropOff leaves the user its transaction.
DropOffKeepsTransaction(p) ==
    /\ sent' = [sent EXCEPT ![p] = Append(@,
           [kind |-> "addEndHour", trans |-> currentTransaction[p],
            car |-> driver[p]])]
    /\ target' = target \ {p}
    /\ askingForCar' = askingForCar \ {p}
    /\ inCar' = inCar \ {p}
    /\ myBlockCar' = [myBlockCar EXCEPT ![p] = Nil]
    /\ inAGroup' = inAGroup \ {p}
    /\ waitingForCar' = waitingForCar \ {p}
    /\ UNCHANGED <<nextObjective, copassengers, tripVars>>

\* dropOff: the end hour is sent and the user's attributes are reset.
DropOffUser(p) ==
    /\ sent' = [sent EXCEPT ![p] = Append(@,
           [kind |-> "addEndHour", trans |-> currentTransaction[p],
            car |-> driver[p]])]
    /\ target' = target \ {p}
    /\ askingForCar' = askingForCar \ {p}
    /\ inCar' = inCar \ {p}
    /\ myBlockCar' = [myBlockCar EXCEPT ![p] = Nil]
    /\ inAGroup' = inAGroup \ {p}
    /\ waitingForCar' = waitingForCar \ {p}
    /\ currentTransaction' = [currentTransaction EXCEPT ![p] = Nil]
    /\ driver' = [driver EXCEPT ![p] = Nil]
    /\ UNCHANGED <<nextObjective, copassengers, endPoint, waited, nextTrans>>

\* Mutants: the car stays taken, or keeps its old destinations.
FinishRideStaysTaken(c) ==
    /\ passengers' = [passengers EXCEPT ![c] = <<>>]
    /\ startPoints' = [startPoints EXCEPT ![c] = <<>>]
    /\ endPoints' = [endPoints EXCEPT ![c] = <<>>]
    /\ objective' = [objective EXCEPT ![c] = "wander"]
    /\ indexPassenger' = [indexPassenger EXCEPT ![c] = 0]
    /\ UNCHANGED isFree

FinishRideKeepsEndPoints(c) ==
    /\ passengers' = [passengers EXCEPT ![c] = <<>>]
    /\ startPoints' = [startPoints EXCEPT ![c] = <<>>]
    /\ isFree' = isFree \cup {c}
    /\ objective' = [objective EXCEPT ![c] = "wander"]
    /\ indexPassenger' = [indexPassenger EXCEPT ![c] = 0]
    /\ UNCHANGED endPoints

\* After the last passenger of the list the car is free and its lists are nil.
FinishRide(c) ==
    /\ passengers' = [passengers EXCEPT ![c] = <<>>]
    /\ startPoints' = [startPoints EXCEPT ![c] = <<>>]
    /\ endPoints' = [endPoints EXCEPT ![c] = <<>>]
    /\ isFree' = isFree \cup {c}
    /\ objective' = [objective EXCEPT ![c] = "wander"]
    /\ indexPassenger' = [indexPassenger EXCEPT ![c] = 0]

(* The car arrives at a destination. *)
CarDropOff(c) ==
    /\ Runs("car", c) /\ objective[c] = "dropOff"
    /\ AfterCar(c)
    /\ \E i \in FindNextTarget(c) :
          /\ CanDropOff(passengers[c][i])
          /\ DropOffUser(passengers[c][i])
          /\ IF indexPassenger[c] + 1 = Len(passengers[c])
             THEN FinishRide(c)
             ELSE /\ endPoints' = [endPoints EXCEPT ![c][i] = Gone]
                  /\ indexPassenger' = [indexPassenger EXCEPT ![c] = @ + 1]
                  /\ UNCHANGED <<passengers, startPoints, isFree, objective>>
    /\ indexNext' = [indexNext EXCEPT ![c] = 0]
    /\ UNCHANGED clockVars

(* dropOff of a user without transaction or driver: the code dereferences  *)
(* nil, and the model ends here.                                           *)
CarDropOffFails(c) ==
    /\ Runs("car", c) /\ objective[c] = "dropOff"
    /\ \E i \in FindNextTarget(c) : ~CanDropOff(passengers[c][i])
    /\ status' = "error"
    /\ UNCHANGED <<phase, turn, hour, day, userVars, carVars>>

CarMove(c) ==
    CarWander(c) \/ CarDrive(c) \/ CarPickUp(c) \/ CarDropOff(c) \/ CarDropOffFails(c)

-----------------------------------------------------------------------------
Next ==
    \/ NextCycle
    \/ StopSim
    \/ \E u \in Users : UpdateTarget(u) \/ UserMove(u)
    \/ \E c \in Cars : CarMove(c)

Spec == Init /\ [][Next]_vars

(* GAMA keeps running cycles.  goto covers at least one step of road in    *)
(* every cycle, so a car that has a target arrives after finitely many.    *)
FairSpec ==
    /\ Spec
    /\ WF_vars(Next)
    /\ \A c \in Cars : SF_vars(CarPickUp(c)) /\ SF_vars(CarDropOff(c) \/ CarDropOffFails(c))

-----------------------------------------------------------------------------
(* Properties. *)

\* The attributes keep the types the species declare.
TypeOK ==
    /\ phase \in {"world", "updateTarget", "move", "car"}
    /\ turn \in Nat
    /\ hour \in 0 .. HoursPerDay - 1 /\ day \in 0 .. LastDay
    /\ status \in {"running", "paused", "error"}
    /\ target \subseteq Users
    /\ nextObjective \in [Users -> Places]
    /\ askingForCar \subseteq Users /\ inAGroup \subseteq Users
    /\ waitingForCar \subseteq Users /\ inCar \subseteq Users
    /\ myBlockCar \in [Users -> Cars \cup {Nil}]
    /\ copassengers \in [Users -> Seq(Users)]
    /\ currentTransaction \in [Users -> Nat \cup {Nil}]
    /\ driver \in [Users -> Cars \cup {Nil}]
    /\ endPoint \in [Users -> Places]
    /\ waited \in [Users -> 0 .. MaxWait]
    /\ nextTrans \in Nat
    /\ sent \in [Users -> Seq(Messages)]
    /\ isFree \subseteq Cars
    /\ objective \in [Cars -> {"wander", "pickUp", "dropOff"}]
    /\ passengers \in [Cars -> Seq(Users)]
    /\ startPoints \in [Cars -> Seq(Users)]
    /\ endPoints \in [Cars -> Seq(Points)]
    /\ indexPassenger \in [Cars -> Nat]
    /\ indexNext \in [Cars -> Nat]

\* A car that is offered as free carries nothing over from its last ride, and
\* the three lists of a car under way belong together: whatever the order in
\* which groups form and retry, addPassengers only meets empty lists, every
\* index is in range, and the point at an index is that of the passenger.
FreeCarClean(c) ==
    /\ objective[c] = "wander"
    /\ passengers[c] = <<>> /\ startPoints[c] = <<>> /\ endPoints[c] = <<>>
    /\ indexPassenger[c] = 0 /\ indexNext[c] = 0

BusyCarAligned(c) ==
    /\ objective[c] \in {"pickUp", "dropOff"}
    /\ startPoints[c] = passengers[c]
    /\ Len(endPoints[c]) = Len(passengers[c])
    /\ indexPassenger[c] \in 0 .. Len(passengers[c]) - 1
    /\ indexNext[c] \in 0 .. Len(passengers[c])
    /\ \A i \in 1 .. Len(passengers[c]) :
          endPoints[c][i] # Gone => endPoints[c][i].user = passengers[c][i]

CarOK(c) == IF c \in isFree THEN FreeCarClean(c) ELSE BusyCarAligned(c)

CarListsAgree == \A c \in Cars : CarOK(c)

\* What the server receives from the users is a sequence of rides each: an end
\* hour is sent only for the ride just announced, once, with the car that was
\* announced, and every ride has a transaction of its own.  This is the
\* abstract specification RideLog with sent for its log, where the numbers of
\* transactions are those of the Transaction agents created so far.
Log == INSTANCE RideLog WITH log <- sent

ImplementsRideLog == Log!Init /\ [][Log!Step(0 .. nextTrans)]_sent

\* Hence a reader of the messages may rely on their order and their numbers.
RidesWellFormed == Log!RidesWellFormed

\* What the two properties above rest on: a user that asks for a car has found
\* at least itself, so that a car is never sent to an empty group, ...
GroupsNotEmpty ==
    \A u \in askingForCar \cup inAGroup : Len(copassengers[u]) > 0

\* ... and the last message of a user tells how far its transaction has come.
Announced(u) ==
    /\ currentTransaction[u] # Nil
    /\ Len(sent[u]) > 0
    /\ sent[u][Len(sent[u])] = Log!Transaction(currentTransaction[u], driver[u])

NotAnnounced(u) ==
    /\ ~Log!Open(u)
    /\ currentTransaction[u] # Nil => Log!Unused(currentTransaction[u])

TripsLogged ==
    /\ \A u \in Users : IF driver[u] # Nil THEN Announced(u) ELSE NotAnnounced(u)
    /\ \A u \in Users : currentTransaction[u] < nextTrans
    /\ \A u \in Users : \A i \in 1 .. Len(sent[u]) : sent[u][i].trans < nextTrans
    /\ \A u, v \in Users :
          currentTransaction[u] = currentTransaction[v] /\ currentTransaction[u] # Nil => u = v

\* A user is a passenger of at most one car, the one it thinks is coming.
Aboard(u, c) ==
    \E i \in 1 .. Len(passengers[c]) : passengers[c][i] = u /\ endPoints[c][i] # Gone

OneCarPerUser == \A u \in Users, c \in Cars : Aboard(u, c) <=> myBlockCar[u] = c

\* A passenger is taken where the transaction, as the contract records it,
\* says: the destination is not stale when the car is sent.
DestinationRecorded ==
    \A c \in Cars : \A i \in 1 .. Len(endPoints[c]) :
       endPoints[c][i] # Gone => endPoints[c][i].place = endPoint[passengers[c][i]]

\* No car drops off a user that has no transaction.
NoError == status # "error"

\* "the end hour of the drive when the drive is finised": the end hour is sent
\* for a user that was in the car.
EndHourAfterRide ==
    [][\A u \in Users : currentTransaction[u] # Nil /\ currentTransaction'[u] = Nil
                           => u \in inCar]_vars

\* A car sent to fetch passengers becomes free again, unless the simulation
\* stops first.
CarsComeBack ==
    \A c \in Cars : c \notin isFree ~> (c \in isFree \/ status # "running")

\* Every user that sets off is taken there: its ride is announced, driven
\* and ended.
UsersServed ==
    \A u \in Users : u \in target ~> u \notin target /\ currentTransaction[u] = Nil
=============================================================================
