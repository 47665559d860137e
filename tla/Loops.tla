------------------------------- MODULE Loops -------------------------------
(***************************************************************************)
(* The rule for loops over a sequence, for the proofs about code that is   *)
(* modelled with FoldLeft: if a step of the loop takes what holds before   *)
(* the i-th element to what holds after it, then what holds at the start   *)
(* also holds, for the last element, at the end.                           *)
(*                                                                         *)
(* The step and the invariant are parameters.  A proof about a loop        *)
(* instantiates the module with its own, shows that the FoldLeft of the    *)
(* model is the Fold of the instance, and cites LoopRule.                  *)
(***************************************************************************)
EXTENDS Integers, Sequences, NaturalsInduction, WellFoundedInduction, TLAPS

CONSTANTS
    Step(_, _, _),  \* the state after an element, from what the loop is
                    \* about, the state before it and the element
    Inv(_, _, _)    \* what holds of the state after a number of elements

Highest(S) == CHOOSE x \in S : \A y \in S : x >= y

\* FoldLeft, with the definitions that it rests on in one place.
Fold(c, base, seq) ==
    LET iter[s \in SUBSET (DOMAIN seq)] ==
            IF s = {} THEN base
            ELSE Step(c, iter[s \ {Highest(s)}], seq[Highest(s)])
    IN  iter[DOMAIN seq]

\* Every set of natural numbers has a least element.
LEMMA LeastNat ==
    ASSUME NEW T \in SUBSET Nat, T # {}
    PROVE  \E m \in T : \A n \in T : m <= n
<1>1. PICK m \in T : \A n \in T : ~(<<n, m>> \in OpToRel(<, Nat))
  BY WFMin, NatLessThanWellFounded, Zenon
<1>2. \A n \in T : ~(n < m)
  BY <1>1, Zenon DEF OpToRel
<1> QED BY <1>2

\* Induction up to n, on the set of the numbers that it has been shown for.
LEMMA NatSteps ==
    ASSUME NEW n \in Nat, NEW P, 0 \in P, \A k \in 1..n : k - 1 \in P => k \in P
    PROVE  n \in P
<1> DEFINE B == {k \in 0..n : k \notin P}
<1>1. SUFFICES ASSUME n \notin P PROVE FALSE
  OBVIOUS
<1>2. B \in SUBSET Nat /\ n \in B
  BY <1>1
<1>3. PICK m \in B : \A k \in B : m <= k
  BY <1>2, LeastNat
<1>4. m \in 1..n /\ m - 1 \in 0..n
  BY <1>3
<1>5. m - 1 \in P
  BY <1>3, <1>4
<1> QED BY <1>3, <1>4, <1>5

\* The number that a set has above all its others is its highest.
LEMMA HighestIs ==
    ASSUME NEW S \in SUBSET Int, NEW m \in S, \A n \in S : n <= m
    PROVE  Highest(S) = m
<1>1. \E x \in S : \A y \in S : x >= y
  OBVIOUS
<1>2. Highest(S) \in S /\ \A y \in S : Highest(S) >= y
  BY <1>1 DEF Highest
<1> DEFINE h == Highest(S)
<1>3. h \in S /\ h >= m
  BY <1>2
<1> HIDE DEF h
<1>4. h = m
  BY <1>3
<1> QED BY <1>4 DEF h

LEMMA Below ==
    ASSUME NEW n \in Nat, NEW k \in 1..n
    PROVE  /\ (1..k) \ {k} = 1..(k - 1) /\ 1..k # {} /\ 1..k \in SUBSET (1..n)
           /\ Highest(1..k) = k
<1>1. 1..k \in SUBSET Int /\ k \in 1..k /\ \A j \in 1..k : j <= k
  OBVIOUS
<1>2. Highest(1..k) = k
  BY <1>1, HighestIs
<1> QED BY <1>2

\* The recursive function of Fold, for a loop over n elements.
IsIter(f, c, base, seq, n) ==
    f = [s \in SUBSET (1..n) |->
            IF s = {} THEN base
            ELSE Step(c, f[s \ {Highest(s)}], seq[Highest(s)])]

LEMMA IterExists ==
    ASSUME NEW c, NEW base, NEW seq, NEW k \in Nat
    PROVE  \E f : IsIter(f, c, base, seq, k)
<1> DEFINE Is(f, n) == IsIter(f, c, base, seq, n)
           B == {n \in Nat : ~ \E f : Is(f, n)}
<1>1. SUFFICES ASSUME B # {} PROVE FALSE
  OBVIOUS
<1>2. PICK m \in B : \A n \in B : m <= n
  BY <1>1, LeastNat
<1>3. m # 0
  <2>1. Is([s \in SUBSET (1..0) |-> base], 0)
    BY DEF IsIter
  <2> QED BY <2>1, <1>2
<1>4. m - 1 \in Nat /\ m - 1 \notin B
  <2> HIDE DEF B
  <2>1. m \in Nat
    BY DEF B
  <2> QED BY <1>2, <1>3, <2>1
<1>5. PICK f : Is(f, m - 1)
  BY <1>4
<1> DEFINE g == [s \in SUBSET (1..m) |->
                    IF m \in s THEN Step(c, f[s \ {m}], seq[m]) ELSE f[s]]
<1>6. Is(g, m)
  <2>1. SUFFICES ASSUME NEW s \in SUBSET (1..m)
                 PROVE  g[s] = IF s = {} THEN base
                               ELSE Step(c, g[s \ {Highest(s)}], seq[Highest(s)])
    BY DEF IsIter
  <2>2. CASE m \in s
    <3>1. Highest(s) = m
      BY <2>2, <1>4, HighestIs
    <3>2. s \ {m} \in SUBSET (1..m) /\ m \notin s \ {m}
      BY <1>4
    <3>3. g[s \ {m}] = f[s \ {m}]
      BY <3>2
    <3>4. g[s] = Step(c, f[s \ {m}], seq[m])
      BY <2>2
    <3> QED BY <3>1, <3>3, <3>4, <2>2
  <2>3. CASE m \notin s
    <3>1. s \in SUBSET (1..(m - 1))
      BY <2>3, <1>4
    <3>2. g[s] = f[s]
      BY <2>3
    <3>3. CASE s = {}
      BY <3>1, <3>2, <3>3, <1>5 DEF IsIter
    <3>4. CASE s # {}
      <4>1. s \ {Highest(s)} \in SUBSET (1..m) /\ m \notin s \ {Highest(s)}
        BY <2>3
      <4>2. g[s \ {Highest(s)}] = f[s \ {Highest(s)}]
        BY <4>1
      <4>3. f[s] = Step(c, f[s \ {Highest(s)}], seq[Highest(s)])
        <5> HIDE DEF g
        <5> QED BY <3>1, <3>4, <1>5 DEF IsIter
      <4> QED BY <4>2, <4>3, <3>2, <3>4
    <3> QED BY <3>3, <3>4
  <2> QED BY <2>2, <2>3
<1> QED BY <1>6, <1>2

\* What every element keeps, the loop keeps.
LEMMA LoopRule ==
    ASSUME NEW c, NEW base, NEW S, NEW seq \in Seq(S),
           Inv(c, 0, base),
           \A i \in 1..Len(seq) : \A x :
               Inv(c, i - 1, x) => Inv(c, i, Step(c, x, seq[i]))
    PROVE  Inv(c, Len(seq), Fold(c, base, seq))
<1> DEFINE n == Len(seq)
<1>1. n \in Nat /\ DOMAIN seq = 1..n
  OBVIOUS
<1> HIDE DEF n
<1>2. \E f : IsIter(f, c, base, seq, n)
  <2>1. n \in Nat
    BY <1>1
  <2> QED BY <2>1, IterExists, Zenon
<1>3. PICK f : IsIter(f, c, base, seq, n) /\ Fold(c, base, seq) = f[1..n]
  <2>1. \E f : f = [s \in SUBSET (DOMAIN seq) |->
                       IF s = {} THEN base
                       ELSE Step(c, f[s \ {Highest(s)}], seq[Highest(s)])]
    BY <1>1, <1>2, Zenon DEF IsIter
  <2>2. \E f : /\ f = [s \in SUBSET (DOMAIN seq) |->
                         IF s = {} THEN base
                         ELSE Step(c, f[s \ {Highest(s)}], seq[Highest(s)])]
               /\ Fold(c, base, seq) = f[DOMAIN seq]
    BY <2>1, Zenon DEF Fold
  <2> QED BY <1>1, <2>2, Zenon DEF IsIter
<1>4. f[{}] = base
  <2>1. {} \in SUBSET (1..n)
    OBVIOUS
  <2> QED BY <2>1, <1>3 DEF IsIter
<1>5. ASSUME NEW k \in 1..n
      PROVE  f[1..k] = Step(c, f[1..(k - 1)], seq[k])
  <2>1. n \in Nat
    BY <1>1
  <2>2. /\ (1..k) \ {k} = 1..(k - 1) /\ 1..k # {} /\ 1..k \in SUBSET (1..n)
        /\ Highest(1..k) = k
    BY <2>1, Below, Zenon
  <2>3. f[1..k] = Step(c, f[(1..k) \ {Highest(1..k)}], seq[Highest(1..k)])
    BY <2>2, <1>3, Zenon DEF IsIter
  <2> QED BY <2>2, <2>3, Zenon
<1> DEFINE P == {k \in 0..n : Inv(c, k, f[1..k])}
<1>6. 0 \in P
  <2>1. 0 \in 0..n /\ 1..0 = {}
    BY <1>1
  <2> QED BY <2>1, <1>4, Zenon
<1>7. ASSUME NEW k \in 1..n, k - 1 \in P
      PROVE  k \in P
  <2>1. Inv(c, k - 1, f[1..(k - 1)])
    BY <1>7, Zenon
  <2>2. Inv(c, k, f[1..k])
    BY <2>1, <1>5, Zenon DEF n
  <2>3. k \in 0..n
    BY <1>1
  <2> QED BY <2>2, <2>3, Zenon
<1>8. n \in P
  <2> HIDE DEF P
  <2> QED BY <1>1, <1>6, <1>7, NatSteps
<1>9. Inv(c, n, f[1..n])
  BY <1>8, Zenon
<1> QED BY <1>3, <1>9, Zenon DEF n
=============================================================================
