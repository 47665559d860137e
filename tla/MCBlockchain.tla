---------------------------- MODULE MCBlockchain ----------------------------
(* An instance of Blockchain for TLC. *)
EXTENDS Blockchain, TLC

\* Two branches: a1, a2, a3, and the shorter and heavier b1, b2.  The own
\* block m2 is as heavy as a2, and x3 is an invalid block on a2.
MCLine ==
    [g  |-> <<"g">>,
     a1 |-> <<"g", "a1">>,
     a2 |-> <<"g", "a1", "a2">>,
     a3 |-> <<"g", "a1", "a2", "a3">>,
     x3 |-> <<"g", "a1", "a2", "x3">>,
     m2 |-> <<"g", "a1", "m2">>,
     b1 |-> <<"g", "b1">>,
     b2 |-> <<"g", "b1", "b2">>]

MCTd == [g |-> 0, a1 |-> 1, a2 |-> 2, a3 |-> 4, x3 |-> 3, m2 |-> 2, b1 |-> 1, b2 |-> 3]

\* The transaction t1 is in both branches, t2 is in a2 and in m2.
MCBody ==
    [g |-> {}, a1 |-> {"t1"}, a2 |-> {"t2"}, a3 |-> {}, x3 |-> {},
     m2 |-> {"t2"}, b1 |-> {}, b2 |-> {"t1"}]

MCBlocks == DOMAIN MCLine
MCImports == {<<"a1">>, <<"a2", "a3">>, <<"a2", "x3">>, <<"b1", "b2">>}

=============================================================================
