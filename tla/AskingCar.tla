------------------------------ MODULE AskingCar ------------------------------
(***************************************************************************)
(* The contract smart_contract_askingCar.sol, of which every car deploys   *)
(* one.  Its storage is the list idsTransaction and the mapping            *)
(* transactions, of which the model keeps the passenger, the car and       *)
(* whether endHour has been set; the other fields are copied like these.   *)
(* The functions of the contract return its next storage.                  *)
(***************************************************************************)
EXTENDS Naturals, Sequences

\* The constructor: an empty list and a mapping of zeros.
NewContract == [idsTransaction |-> <<>>, transactions |-> << >>, ended |-> {}]

\* Mutant: the passenger and the car are swapped.
AddTransactionSwapped(k, idTrans, idPass, idCar) ==
    [k EXCEPT !.idsTransaction = Append(@, idTrans),
              !.transactions =
                  [t \in DOMAIN @ \cup {idTrans} |->
                      IF t = idTrans THEN [idPassenger |-> idCar, idCar |-> idPass]
                                     ELSE @[t]]]

\* addTransactionInfo: the fields are written and the number is pushed,
\* whether or not it is in the list already.  endHour is left alone.
AddTransactionInfo(k, idTrans, idPass, idCar) ==
    [k EXCEPT !.idsTransaction = Append(@, idTrans),
              !.transactions =
                  [t \in DOMAIN @ \cup {idTrans} |->
                      IF t = idTrans THEN [idPassenger |-> idPass, idCar |-> idCar]
                                     ELSE @[t]]]

\* Mutant: the loop starts after the first element.
ValidSkipsFirst(k, idTrans) ==
    \E i \in 2 .. Len(k.idsTransaction) : k.idsTransaction[i] = idTrans

ValidTransaction(k, idTrans) ==
    \E i \in DOMAIN k.idsTransaction : k.idsTransaction[i] = idTrans

\* addEndHour: ignored unless the transaction is known.
AddEndHour(k, idTrans) ==
    IF ValidTransaction(k, idTrans) THEN [k EXCEPT !.ended = @ \cup {idTrans}] ELSE k
=============================================================================
