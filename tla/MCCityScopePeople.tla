------------------------- MODULE MCCityScopePeople -------------------------
(***************************************************************************)
(* CityScopePeople for TLC, with the code's ranges of times.               *)
(***************************************************************************)
EXTENDS CityScopePeople

MCWorkStarts   == 4 .. 10
MCLunchStarts  == 11 .. 13
MCReworkStarts == 14 .. 16
MCDinnerStarts == 18 .. 20
MCWorkEnds     == 21 .. 22
=============================================================================
