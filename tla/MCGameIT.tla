------------------------------ MODULE MCGameIT ------------------------------
(***************************************************************************)
(* GameIT for TLC: two activities, in a row in which the first one comes   *)
(* again and the last column is empty, and the nearest stop of each place. *)
(***************************************************************************)
EXTENDS GameIT

MCRows         == {<<"R", "O", "R", "">>}
MCBuildingsFor == [a \in {"R", "O"} |-> IF a = "R" THEN {1} ELSE {2}]
MCNearestStop  == <<1, 2>>
=============================================================================
