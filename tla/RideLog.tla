------------------------------- MODULE RideLog -------------------------------
(***************************************************************************)
(* What the simulation promises to the Python server, and the contract     *)
(* relies on: the messages a user sends form a sequence of rides.  A ride  *)
(* is announced with a transaction number nobody has used, possibly more   *)
(* than once, then ended once, with the number and the car of the last     *)
(* announcement; the next ride has a new number.                           *)
(*                                                                         *)
(* This is the abstract specification that Dispatch implements and the     *)
(* environment that the server, ConnectionInterface, runs in.              *)
(***************************************************************************)
EXTENDS Naturals, Sequences

CONSTANTS Users, Cars

VARIABLE log     \* log[u]: everything user u has sent, oldest first

Messages == [kind : {"Transaction", "addEndHour"}, trans : Nat, car : Cars]

Transaction(t, c) == [kind |-> "Transaction", trans |-> t, car |-> c]
AddEndHour(t, c)  == [kind |-> "addEndHour", trans |-> t, car |-> c]

Latest(u) == log[u][Len(log[u])]

\* The ride of the last message has not been ended.
Open(u) == Len(log[u]) > 0 /\ Latest(u).kind = "Transaction"

Unused(t) == \A v \in Users : \A i \in 1 .. Len(log[v]) : log[v][i].trans # t

Init == log = [u \in Users |-> <<>>]

Announce(u, t, c) ==
    /\ IF Open(u) THEN t = Latest(u).trans ELSE Unused(t)
    /\ log' = [log EXCEPT ![u] = Append(@, Transaction(t, c))]

End(u) ==
    /\ Open(u)
    /\ log' = [log EXCEPT ![u] = Append(@, AddEndHour(Latest(u).trans, Latest(u).car))]

\* A step that takes the numbers of new transactions from ids.
Step(ids) ==
    \E u \in Users : End(u) \/ \E t \in ids, c \in Cars : Announce(u, t, c)

Spec == Init /\ [][Step(Nat)]_log

-----------------------------------------------------------------------------
(* What a sequence of rides guarantees to its reader. *)

\* An end hour follows the announcement of the same transaction and car.
EndsAnnounced ==
    \A u \in Users : \A i \in 1 .. Len(log[u]) :
       log[u][i].kind = "addEndHour" =>
          i > 1 /\ log[u][i - 1] = Transaction(log[u][i].trans, log[u][i].car)

\* No transaction is ended twice, or announced after its end.
EndedOnce ==
    \A u \in Users : \A i, j \in 1 .. Len(log[u]) :
       i < j /\ log[u][i].kind = "addEndHour" => log[u][i].trans # log[u][j].trans

\* No two users send the same transaction.
OwnTransactions ==
    \A u, v \in Users : \A i \in 1 .. Len(log[u]), j \in 1 .. Len(log[v]) :
       log[u][i].trans = log[v][j].trans => u = v

RidesWellFormed == EndsAnnounced /\ EndedOnce /\ OwnTransactions
=============================================================================
