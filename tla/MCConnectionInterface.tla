----------------------- MODULE MCConnectionInterface -----------------------
(***************************************************************************)
(* ConnectionInterface for TLC: two users, two cars or one.                *)
(***************************************************************************)
EXTENDS ConnectionInterface

MCUsers == 0 .. 1
MCCars  == 0 .. 1
MCOneCar == {0}
=============================================================================
