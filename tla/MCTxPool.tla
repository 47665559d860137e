------------------------------ MODULE MCTxPool ------------------------------
(* Instances of TxPool for TLC. *)
EXTENDS TxPool, TLC

CONSTANTS
    ann, bob, cat,
    MinedPrice  \* the price of ann's second transaction; the first one pays 2

T(from, nonce, price) ==
    [from |-> from, nonce |-> nonce, price |-> price, cost |-> price, gas |-> 1]

a0 == T(ann, 0, 2)
a1 == T(ann, 1, MinedPrice)
a2 == T(ann, 2, 3)
b0 == T(bob, 0, 4)
b1 == T(bob, 1, 3)
b1x == T(bob, 1, 5)
b2 == T(bob, 2, 1)
c0 == T(cat, 0, 3)
c1 == T(cat, 1, 4)

MCAccounts == <<ann, bob, cat>>
MCTx == {a0, a1, a2, b0, b1, b1x, b2, c0, c1}
MCSubmitted == {a0, a1}
MCBatches == {<<a0, a2>>, <<b1>>, <<b1x>>, <<b0, b2>>, <<c0, c1>>}

\* The block with number n and total difficulty td on parent, with the state
\* after it: the nonces of ann and bob, and the balance of bob.
B(parent, n, td, txs, na, nb, bal) ==
    [parent |-> parent, number |-> n, td |-> td, txs |-> txs,
     nonce |-> ann :> na @@ bob :> nb @@ cat :> 0,
     balance |-> ann :> 9 @@ bob :> bal @@ cat :> 9, gasLimit |-> 1]

\* The block y is as heavy as x1 and x2 together.
MCBlock ==
    [g  |-> B("g", 0, 0, <<>>, 0, 0, 9),
     x1 |-> B("g", 1, 1, <<a0>>, 1, 0, 9),
     x2 |-> B("x1", 2, 2, <<a1>>, 2, 0, 9),
     y  |-> B("g", 1, 2, <<b0>>, 0, 1, 3)]

=============================================================================
