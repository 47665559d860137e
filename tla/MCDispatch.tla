----------------------------- MODULE MCDispatch -----------------------------
(***************************************************************************)
(* Dispatch for TLC: the day has four hours, every user goes to work after *)
(* hour 0 and home after hour 2 (or, staggered, after hour 1 or 2).        *)
(***************************************************************************)
EXTENDS Dispatch

MCStartWork == [u \in Users |-> 0]
MCEndWork   == [u \in Users |-> 2]
=============================================================================
