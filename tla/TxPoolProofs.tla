---------------------------- MODULE TxPoolProofs ----------------------------
(***************************************************************************)
(* Proofs about TxPool, for any accounts, transactions, blocks and limits  *)
(* that satisfy the assumptions of that module.                            *)
(*                                                                         *)
(* The methods of the pool are loops.  Each has an instance of Loops, with *)
(* its step and what holds after i elements, and a lemma ...IsFold or a    *)
(* first step of its lemma that the FoldLeft of the model is its Fold.     *)
(* The lemmas go from the containers to the operations:                    *)
(*                                                                         *)
(*   Sound   the lookup is the two lists, which have nothing in common, no *)
(*           nonce of an account is taken twice, and the priced list has   *)
(*           all transactions and counts its stale entries.  Uniqueness    *)
(*           makes the order of the heap total, so that rebuilding it      *)
(*           loses nothing, and makes removeTx take out what it was asked. *)
(*   Free    the next nonce of an account is not queued.  In the middle of *)
(*           an operation this may fail for the accounts that the code     *)
(*           calls dirty; promoteAccount ends with it for its account.     *)
(*   Roomy   the limit of all transactions while nobody is local: add      *)
(*           makes room first, or takes the place of what it replaces.     *)
(*   Quota   the limit of the pending ones: CutFirst leaves the k largest  *)
(*           accounts equal, as large as the next one, or the pool small   *)
(*           enough (SpamInv).                                             *)
(*   AllValid  all transactions are valid in the state of the pool: add    *)
(*           checks, and reset drops from both lists what no longer is.    *)
(*                                                                         *)
(* Good is their conjunction, and PoolInv adds that the blocks that the    *)
(* pool and its loop refer to have been heads of the chain.  What a step   *)
(* may not do is PoolAct, from relations between the pool before and after *)
(* an operation:                                                           *)
(*                                                                         *)
(*   Journaled  what came in from a local account is in the journal;       *)
(*   Stays      a valid transaction of a local account is still there, or  *)
(*           a dearer one with its nonce is.  No loop over the priced list *)
(*           and no limit takes one out (Spares), only add does;           *)
(*   Executes   an account whose pending transactions can be executed in   *)
(*           order (Exec) stays so.                                        *)
(***************************************************************************)
EXTENDS TxPool, FiniteSetTheorems, NaturalsInduction, TLAPS

-----------------------------------------------------------------------------
(* Numbers, sets and sequences *)

LEMMA LeastNat ==
    ASSUME NEW T \in SUBSET Nat, T # {}
    PROVE  \E m \in T : \A n \in T : m <= n
<1>1. PICK m \in T : \A n \in T : ~(<<n, m>> \in OpToRel(<, Nat))
  BY WFMin, NatLessThanWellFounded, Zenon
<1>2. \A n \in T : ~(n < m)
  BY <1>1, Zenon DEF OpToRel
<1> QED BY <1>2

LEMMA MinFacts ==
    ASSUME NEW T \in SUBSET Nat, T # {}
    PROVE  Min(T) \in T /\ \A n \in T : Min(T) <= n
<1>1. \E x \in T : \A y \in T : x =< y
  BY LeastNat
<1> QED BY <1>1, Zenon DEF Min

\* The smaller of two integers, which is what the code compares.
LEMMA MinOfTwo ==
    ASSUME NEW m \in Int, NEW n \in Int
    PROVE  /\ Min({m, n}) \in {m, n}
           /\ Min({m, n}) <= m /\ Min({m, n}) <= n
<1>1. \E x \in {m, n} : \A y \in {m, n} : x =< y
  OBVIOUS
<1>2. Min({m, n}) \in {m, n} /\ \A y \in {m, n} : Min({m, n}) =< y
  BY <1>1, Zenon DEF Min
<1> QED BY <1>2

LEMMA FunctionIsSeq ==
    ASSUME NEW S, NEW n \in Nat, NEW f \in [1..n -> S]
    PROVE  f \in Seq(S) /\ Len(f) = n
OBVIOUS

LEMMA ToSetFacts ==
    ASSUME NEW S, NEW s \in Seq(S)
    PROVE  /\ ToSet(s) \subseteq S
           /\ IsFiniteSet(ToSet(s))
           /\ Cardinality(ToSet(s)) \in Nat
           /\ Cardinality(ToSet(s)) <= Len(s)
<1>1. Len(s) \in Nat /\ DOMAIN s = 1..Len(s)
  OBVIOUS
<1>2. s \in Surjection(1..Len(s), ToSet(s))
  BY <1>1 DEF Surjection, ToSet
<1>3. IsFiniteSet(1..Len(s)) /\ Cardinality(1..Len(s)) = Len(s)
  BY <1>1, FS_Interval
<1>4. IsFiniteSet(ToSet(s)) /\ Cardinality(ToSet(s)) <= Cardinality(1..Len(s))
  BY <1>2, <1>3, FS_Surjection
<1> QED BY <1>3, <1>4, FS_CardinalityType DEF ToSet

\* A finite set of numbers has a greatest one.
LEMMA MaxFacts ==
    ASSUME NEW T \in SUBSET Nat, T # {}, IsFiniteSet(T)
    PROVE  Max(T) \in T /\ \A n \in T : n <= Max(T)
<1> DEFINE above == [t \in T |-> Cardinality({u \in T : u > t})]
           C == {above[t] : t \in T}
<1>1. ASSUME NEW t \in T
      PROVE  /\ IsFiniteSet({u \in T : u > t})
             /\ Cardinality({u \in T : u > t}) \in Nat
  BY FS_Subset, FS_CardinalityType
<1>2. C \in SUBSET Nat /\ C # {}
  BY <1>1
<1>3. PICK m \in T : \A t \in T : above[m] <= above[t]
  <2> HIDE DEF above
  <2>1. PICK c \in C : \A d \in C : c <= d
    BY <1>2, LeastNat
  <2> QED BY <2>1
<1>4. ASSUME NEW n \in T, n > m
      PROVE  FALSE
  <2> DEFINE A == {u \in T : u > m}
             B == {u \in T : u > n}
  <2>1. B \in SUBSET A /\ n \in A /\ n \notin B
    <3>1. n \in Nat /\ m \in Nat /\ \A u \in T : u \in Nat
      OBVIOUS
    <3>2. \A u \in T : u > n => u > m
      BY <3>1, <1>4
    <3>3. ~(n > n)
      BY <3>1
    <3> QED BY <1>4, <3>2, <3>3
  <2>2. IsFiniteSet(A) /\ Cardinality(A) \in Nat /\ Cardinality(B) \in Nat
        /\ Cardinality(A) <= Cardinality(B)
    BY <1>1, <1>3
  <2> HIDE DEF A, B
  <2>3. Cardinality(B) <= Cardinality(A) /\ (Cardinality(A) = Cardinality(B) => A = B)
    BY <2>1, <2>2, FS_Subset
  <2> QED BY <2>1, <2>2, <2>3
<1>5. \E x \in T : \A y \in T : x >= y
  BY <1>4
<1>6. Max(T) \in T /\ \A y \in T : Max(T) >= y
  BY <1>5, Zenon DEF Max
<1> QED BY <1>6

-----------------------------------------------------------------------------
(* Sets in order *)

\* A strict total order of the members of S.
Orders(R, S) ==
    /\ \A t \in S : <<t, t>> \notin R
    /\ \A t, u, v \in S : <<t, u>> \in R /\ <<u, v>> \in R => <<t, v>> \in R
    /\ \A t, u \in S : t = u \/ <<t, u>> \in R \/ <<u, t>> \in R

Rank(R, S, t) == Cardinality({u \in S : <<u, t>> \in R})

LEMMA RankFacts ==
    ASSUME NEW S, IsFiniteSet(S), NEW R, Orders(R, S)
    PROVE  /\ \A t \in S : Rank(R, S, t) \in Nat /\ Rank(R, S, t) < Cardinality(S)
           /\ \A t, u \in S : <<t, u>> \in R => Rank(R, S, t) < Rank(R, S, u)
<1>1. ASSUME NEW t \in S
      PROVE  Rank(R, S, t) \in Nat /\ Rank(R, S, t) < Cardinality(S)
  <2> DEFINE A == {u \in S : <<u, t>> \in R}
  <2>1. A \in SUBSET S /\ A # S
    BY DEF Orders
  <2> HIDE DEF A
  <2>2. IsFiniteSet(A) /\ Cardinality(A) <= Cardinality(S) /\ Cardinality(A) # Cardinality(S)
    BY <2>1, FS_Subset
  <2>3. Cardinality(A) \in Nat /\ Cardinality(S) \in Nat
    BY <2>2, FS_CardinalityType
  <2>4. Cardinality(A) < Cardinality(S)
    BY <2>2, <2>3
  <2> QED BY <2>3, <2>4 DEF Rank, A
<1>2. ASSUME NEW t \in S, NEW v \in S, <<t, v>> \in R
      PROVE  Rank(R, S, t) < Rank(R, S, v)
  <2> DEFINE A == {u \in S : <<u, t>> \in R}
             B == {u \in S : <<u, v>> \in R}
  <2>1. A \in SUBSET B /\ t \in B /\ t \notin A /\ B \in SUBSET S
    BY <1>2 DEF Orders
  <2> HIDE DEF A, B
  <2>2. IsFiniteSet(B)
    BY <2>1, FS_Subset
  <2>3. IsFiniteSet(A) /\ Cardinality(A) <= Cardinality(B) /\ Cardinality(A) # Cardinality(B)
    BY <2>1, <2>2, FS_Subset
  <2>4. Cardinality(A) \in Nat /\ Cardinality(B) \in Nat
    BY <2>2, <2>3, FS_CardinalityType
  <2>5. Cardinality(A) < Cardinality(B)
    BY <2>3, <2>4
  <2> QED BY <2>5 DEF Rank, A, B
<1> QED BY <1>1, <1>2

\* The sequence f has at each of its places the member of S with that rank, if
\* there is one.
ListsByRank(f, R, S) ==
    /\ f \in [1..Cardinality(S) -> {f[i] : i \in 1..Cardinality(S)}]
    /\ \A i \in 1..Cardinality(S) : \A t \in S :
           Rank(R, S, t) = i - 1 => f[i] \in S /\ Rank(R, S, f[i]) = i - 1

\* Then it has each of them once.
LEMMA RankedSeq ==
    ASSUME NEW S, IsFiniteSet(S), NEW R, Orders(R, S), NEW f, ListsByRank(f, R, S)
    PROVE  /\ f \in Seq(S) /\ Len(f) = Cardinality(S) /\ ToSet(f) = S
           /\ \A i, j \in DOMAIN f : f[i] = f[j] => i = j
           /\ \A i, j \in DOMAIN f : i < j => <<f[i], f[j]>> \in R
<1> DEFINE n == Cardinality(S)
           r == [t \in S |-> Rank(R, S, t)]
<1>1. n \in Nat
  BY FS_CardinalityType
<1>2. r \in [S -> 0..(n - 1)]
  BY RankFacts, <1>1
<1>3. \A t, u \in S : r[t] = r[u] => t = u
  <2> SUFFICES ASSUME NEW t \in S, NEW u \in S, t # u
               PROVE  r[t] # r[u]
    OBVIOUS
  <2>1. <<t, u>> \in R \/ <<u, t>> \in R
    BY DEF Orders
  <2>2. r[t] < r[u] \/ r[u] < r[t]
    BY <2>1, RankFacts
  <2>3. r[t] \in Nat /\ r[u] \in Nat
    BY RankFacts
  <2> QED BY <2>2, <2>3
<1>4. r \in Injection(S, 0..(n - 1))
  BY <1>2, <1>3 DEF Injection, IsInjective
<1>5. IsFiniteSet(0..(n - 1)) /\ Cardinality(0..(n - 1)) = n
  BY <1>1, FS_Interval
<1>6. r \in Surjection(S, 0..(n - 1))
  BY <1>4, <1>5, FS_Injection
<1>7. ASSUME NEW i \in 1..n
      PROVE  f[i] \in S /\ Rank(R, S, f[i]) = i - 1
  <2>1. i - 1 \in 0..(n - 1)
    BY <1>1
  <2>2. \E t \in S : r[t] = i - 1
    BY <2>1, <1>6 DEF Surjection
  <2>3. \E t \in S : Rank(R, S, t) = i - 1
    BY <2>2
  <2> QED BY <2>3 DEF ListsByRank
<1>8. DOMAIN f = 1..n /\ f \in [1..n -> S]
  BY <1>7 DEF ListsByRank
<1>9. f \in Seq(S) /\ Len(f) = n
  BY <1>8, <1>1, FunctionIsSeq
<1>10. ASSUME NEW i \in 1..n, NEW j \in 1..n, f[i] = f[j]
       PROVE  i = j
  BY <1>7, <1>10, <1>1
<1>11. ASSUME NEW t \in S
       PROVE  \E i \in 1..n : f[i] = t
  <2>1. r[t] \in 0..(n - 1)
    BY <1>2
  <2>2. r[t] + 1 \in 1..n /\ r[t] + 1 - 1 = r[t]
    BY <2>1, <1>1
  <2> DEFINE k == r[t] + 1
  <2>3. f[k] \in S /\ Rank(R, S, f[k]) = k - 1
    BY <2>2, <1>7, Zenon
  <2>4. f[k] \in S /\ r[f[k]] = r[t]
    <3>1. r[f[k]] = Rank(R, S, f[k])
      BY <2>3
    <3>2. k - 1 = r[t]
      <4> HIDE DEF r
      <4> QED BY <2>1
    <3> QED BY <2>3, <3>1, <3>2, Zenon
  <2> HIDE DEF r, n, k
  <2>5. f[k] = t
    BY <2>4, <1>3
  <2>6. k \in 1..n
    BY <2>2 DEF k
  <2> QED BY <2>5, <2>6
<1>12. ASSUME NEW i \in 1..n, NEW j \in 1..n, i < j
       PROVE  <<f[i], f[j]>> \in R
  <2>1. f[i] \in S /\ f[j] \in S /\ Rank(R, S, f[i]) < Rank(R, S, f[j])
    BY <1>7, <1>12, <1>1
  <2>2. Rank(R, S, f[i]) \in Nat /\ Rank(R, S, f[j]) \in Nat
    BY <2>1, RankFacts
  <2>3. f[i] # f[j]
    <3> SUFFICES ASSUME f[i] = f[j] PROVE FALSE
      OBVIOUS
    <3> DEFINE k == Rank(R, S, f[i])
    <3>1. k \in Nat /\ k < k
      BY <2>1, <2>2
    <3> HIDE DEF k
    <3> QED BY <3>1
  <2>4. CASE <<f[j], f[i]>> \in R
    <3>1. Rank(R, S, f[j]) < Rank(R, S, f[i])
      BY <2>1, <2>4, RankFacts
    <3> QED BY <2>1, <2>2, <3>1
  <2> QED BY <2>1, <2>3, <2>4 DEF Orders
<1>13. ToSet(f) = S
  BY <1>7, <1>8, <1>11 DEF ToSet
<1> QED BY <1>8, <1>9, <1>10, <1>12, <1>13

LEMMA ByNonceIs ==
    ASSUME NEW list
    PROVE  ByNonce(list) \in [1..Cardinality(list) ->
                                  {ByNonce(list)[i] : i \in 1..Cardinality(list)}]
BY DEF ByNonce, InOrder

LEMMA HeapOfIs ==
    ASSUME NEW txs
    PROVE  HeapOf(txs) \in [1..Cardinality(txs) ->
                                {HeapOf(txs)[i] : i \in 1..Cardinality(txs)}]
BY DEF HeapOf, InOrder

LEMMA ByNonceFacts ==
    ASSUME NEW list, IsFiniteSet(list), \A t \in list : t.nonce \in Nat,
           \A t, u \in list : t.nonce = u.nonce => t = u
    PROVE  /\ ByNonce(list) \in Seq(list) /\ Len(ByNonce(list)) = Cardinality(list)
           /\ ToSet(ByNonce(list)) = list
           /\ \A i, j \in DOMAIN ByNonce(list) :
                  i < j => ByNonce(list)[i].nonce < ByNonce(list)[j].nonce
<1> DEFINE R == {e \in list \X list : e[1].nonce < e[2].nonce}
           f == ByNonce(list)
<1>1. \A t, u \in list : <<t, u>> \in R <=> t.nonce < u.nonce
  OBVIOUS
<1> HIDE DEF R
<1>2. Orders(R, list)
  BY <1>1 DEF Orders
<1>3. f \in [1..Cardinality(list) -> {f[i] : i \in 1..Cardinality(list)}]
  BY ByNonceIs
<1>4. ASSUME NEW i \in 1..Cardinality(list), NEW t \in list, Rank(R, list, t) = i - 1
      PROVE  f[i] \in list /\ Rank(R, list, f[i]) = i - 1
  <2>1. \A v \in list : Rank(R, list, v) = Cardinality({u \in list : u.nonce < v.nonce})
    <3> SUFFICES ASSUME NEW v \in list
                 PROVE  {u \in list : <<u, v>> \in R} = {u \in list : u.nonce < v.nonce}
      BY DEF Rank
    <3> QED BY <1>1
  <2>2. f[i] = CHOOSE v \in list : Cardinality({u \in list : u.nonce < v.nonce}) = i - 1
    BY DEF ByNonce, InOrder
  <2>3. Cardinality({u \in list : u.nonce < t.nonce}) = i - 1
    BY <2>1, <1>4, Zenon
  <2>4. f[i] \in list /\ Cardinality({u \in list : u.nonce < f[i].nonce}) = i - 1
    BY <2>2, <2>3, Zenon
  <2> QED BY <2>1, <2>4, Zenon
<1> HIDE DEF f
<1>5. /\ f \in Seq(list) /\ Len(f) = Cardinality(list) /\ ToSet(f) = list
      /\ \A i, j \in DOMAIN f : i < j => f[i].nonce < f[j].nonce
  <2>1. ListsByRank(f, R, list)
    BY <1>3, <1>4 DEF ListsByRank
  <2>2. /\ f \in Seq(list) /\ Len(f) = Cardinality(list) /\ ToSet(f) = list
        /\ \A i, j \in DOMAIN f : i < j => <<f[i], f[j]>> \in R
    BY <1>2, <2>1, RankedSeq
  <2>3. \A i \in DOMAIN f : f[i] \in list
    BY <2>2
  <2> QED BY <1>1, <2>2, <2>3
<1> QED BY <1>5 DEF f

\* No nonce of an account is taken twice.
Unique(txs) == \A t, u \in txs : t.from = u.from /\ t.nonce = u.nonce => t = u

LEMMA TxFacts ==
    /\ IsFiniteSet(Tx)
    /\ \A t \in Tx : t.from \in Addr /\ t.nonce \in Nat /\ t.price \in Nat
    /\ \A S \in SUBSET Tx : IsFiniteSet(S) /\ Cardinality(S) \in Nat
<1>1. \A S \in SUBSET Tx : IsFiniteSet(S)
  BY TxAssumption, FS_Subset
<1>2. \A S \in SUBSET Tx : Cardinality(S) \in Nat
  BY <1>1, FS_CardinalityType
<1> QED BY <1>1, <1>2, TxAssumption

LEMMA RankOfFacts ==
    ASSUME NEW a \in Addr, NEW b \in Addr
    PROVE  /\ RankOf(a) \in DOMAIN Accounts /\ RankOf(a) \in Nat
           /\ RankOf(a) = RankOf(b) => a = b
<1>1. \A c \in Addr : RankOf(c) \in DOMAIN Accounts /\ Accounts[RankOf(c)] = c
  <2> SUFFICES ASSUME NEW c \in Addr
               PROVE  RankOf(c) \in DOMAIN Accounts /\ Accounts[RankOf(c)] = c
    OBVIOUS
  <2>1. \E i \in DOMAIN Accounts : Accounts[i] = c
    BY DEF Addr, ToSet
  <2> QED BY <2>1, Zenon DEF RankOf
<1>2. DOMAIN Accounts \subseteq Nat
  BY TxAssumption
<1> QED BY <1>1, <1>2

LEMMA HeapOfFacts ==
    ASSUME NEW txs \in SUBSET Tx, Unique(txs)
    PROVE  /\ HeapOf(txs) \in Seq(Tx) /\ Len(HeapOf(txs)) = Cardinality(txs)
           /\ ToSet(HeapOf(txs)) = txs
<1> DEFINE R == {e \in txs \X txs : Less(e[1], e[2])}
           f == HeapOf(txs)
<1>1. \A t, u \in txs : <<t, u>> \in R <=> Less(t, u)
  OBVIOUS
<1>0. \A t \in txs : t.from \in Addr /\ t.nonce \in Nat /\ t.price \in Nat /\ RankOf(t.from) \in Nat
  BY TxFacts, RankOfFacts
<1> HIDE DEF R
<1>2. Orders(R, txs)
  <2>1. \A t \in txs : <<t, t>> \notin R
    BY <1>0, <1>1 DEF Less
  <2>2. \A t, u, v \in txs : <<t, u>> \in R /\ <<u, v>> \in R => <<t, v>> \in R
    BY <1>0, <1>1 DEF Less
  <2>3. ASSUME NEW t \in txs, NEW u \in txs
        PROVE  t = u \/ <<t, u>> \in R \/ <<u, t>> \in R
    <3>1. t.price < u.price \/ u.price < t.price \/ t.price = u.price
      BY <1>0
    <3>2. t.nonce < u.nonce \/ u.nonce < t.nonce \/ t.nonce = u.nonce
      BY <1>0
    <3>3. RankOf(t.from) < RankOf(u.from) \/ RankOf(u.from) < RankOf(t.from) \/ t.from = u.from
      BY <1>0, RankOfFacts
    <3> QED BY <1>1, <3>1, <3>2, <3>3 DEF Less, Unique
  <2> QED BY <2>1, <2>2, <2>3 DEF Orders
<1>3. f \in [1..Cardinality(txs) -> {f[i] : i \in 1..Cardinality(txs)}]
  BY HeapOfIs
<1>4. ASSUME NEW i \in 1..Cardinality(txs), NEW t \in txs, Rank(R, txs, t) = i - 1
      PROVE  f[i] \in txs /\ Rank(R, txs, f[i]) = i - 1
  <2>1. \A v \in txs : Rank(R, txs, v) = Cardinality({u \in txs : Less(u, v)})
    <3> SUFFICES ASSUME NEW v \in txs
                 PROVE  {u \in txs : <<u, v>> \in R} = {u \in txs : Less(u, v)}
      BY DEF Rank
    <3> QED BY <1>1
  <2>2. f[i] = CHOOSE v \in txs : Cardinality({u \in txs : Less(u, v)}) = i - 1
    BY DEF HeapOf, InOrder
  <2>3. Cardinality({u \in txs : Less(u, t)}) = i - 1
    BY <2>1, <1>4, Zenon
  <2>4. f[i] \in txs /\ Cardinality({u \in txs : Less(u, f[i])}) = i - 1
    BY <2>2, <2>3, Zenon
  <2> QED BY <2>1, <2>4, Zenon
<1> HIDE DEF f
<1>5. f \in Seq(txs) /\ Len(f) = Cardinality(txs) /\ ToSet(f) = txs
  <2>1. ListsByRank(f, R, txs)
    BY <1>3, <1>4 DEF ListsByRank
  <2>2. IsFiniteSet(txs)
    BY TxFacts
  <2> QED BY <1>2, <2>1, <2>2, RankedSeq
<1>6. f \in Seq(Tx)
  BY <1>5
<1> QED BY <1>5, <1>6 DEF f

-----------------------------------------------------------------------------
(* Pools, and the priced list *)

Pools ==
    [pending : SUBSET Tx, queue : SUBSET Tx, all : SUBSET Tx,
     items : Seq(Tx), stales : Nat, pendingState : [Addr -> Nat],
     currentState : DOMAIN Block, gasPrice : Nat, locals : SUBSET Addr,
     beats : Seq(Addr), journal : Seq(Tx)]

LEMMA PoolFields ==
    ASSUME NEW p \in Pools
    PROVE  /\ p.pending \in SUBSET Tx /\ p.queue \in SUBSET Tx /\ p.all \in SUBSET Tx
           /\ p.items \in Seq(Tx) /\ p.stales \in Nat /\ p.pendingState \in [Addr -> Nat]
           /\ p.currentState \in DOMAIN Block /\ p.gasPrice \in Nat
           /\ p.locals \in SUBSET Addr /\ p.beats \in Seq(Addr) /\ p.journal \in Seq(Tx)
BY DEF Pools

\* The priced list of p is complete for the transactions txs.
PricedFor(p, txs) ==
    /\ txs \subseteq ToSet(p.items)
    /\ Len(p.items) - Cardinality(txs) =< p.stales

Priced(p) == PricedFor(p, p.all)

\* What an operation on the lists and the heap leaves alone.
SameRest(p, q) ==
    /\ q.pendingState = p.pendingState /\ q.currentState = p.currentState
    /\ q.gasPrice = p.gasPrice /\ q.locals = p.locals
    /\ q.beats = p.beats /\ q.journal = p.journal

SameLists(p, q) == q.pending = p.pending /\ q.queue = p.queue

LEMMA ConcatFacts ==
    ASSUME NEW S, NEW s \in Seq(S), NEW t \in Seq(S)
    PROVE  s \o t \in Seq(S) /\ Len(s \o t) = Len(s) + Len(t)
OBVIOUS

SetHeap(p, n, s) == [p EXCEPT !.stales = n, !.items = s]

LEMMA SetHeapFacts ==
    ASSUME NEW p \in Pools, NEW s \in Seq(Tx), NEW n \in Nat
    PROVE  /\ SetHeap(p, n, s) \in Pools
           /\ SetHeap(p, n, s).items = s /\ SetHeap(p, n, s).stales = n
           /\ SetHeap(p, n, s).all = p.all
           /\ SameLists(p, SetHeap(p, n, s)) /\ SameRest(p, SetHeap(p, n, s))
<1> DEFINE q == SetHeap(p, n, s)
<1> USE DEF SetHeap
<1>1. q \in Pools
  BY DEF Pools
<1>2. q.items = s /\ q.stales = n /\ q.all = p.all
  BY DEF Pools
<1>3. SameLists(p, q) /\ SameRest(p, q)
  BY DEF Pools, SameLists, SameRest
<1> QED BY <1>1, <1>2, <1>3

LEMMA PushFacts ==
    ASSUME NEW items \in Seq(Tx), NEW t \in Tx
    PROVE  /\ Push(items, t) \in Seq(Tx)
           /\ Len(Push(items, t)) = Len(items) + 1
           /\ ToSet(Push(items, t)) = ToSet(items) \union {t}
<1> DEFINE n == Len(items)
           B == {i \in DOMAIN items : Less(items[i], t)}
           k == Cardinality(B) + 1
<1>1. n \in Nat /\ DOMAIN items = 1..n
  OBVIOUS
<1>2. k \in 1..(n + 1)
  <2>1. IsFiniteSet(1..n) /\ Cardinality(1..n) = n
    BY <1>1, FS_Interval
  <2>2. B \in SUBSET (1..n)
    BY <1>1
  <2> HIDE DEF B, n
  <2>3. IsFiniteSet(B) /\ Cardinality(B) <= n
    BY <2>1, <2>2, FS_Subset
  <2>4. Cardinality(B) \in Nat
    BY <2>3, FS_CardinalityType
  <2> QED BY <2>3, <2>4, <1>1
<1>3. Push(items, t) = InsertAt(items, k, t)
  BY DEF Push
<1> HIDE DEF k, n
<1> DEFINE f == InsertAt(items, k, t)
<1>4. SubSeq(items, 1, k - 1) \in Seq(Tx) /\ Len(SubSeq(items, 1, k - 1)) = k - 1
      /\ \A i \in 1..(k - 1) : SubSeq(items, 1, k - 1)[i] = items[i]
  BY <1>1, <1>2 DEF n
<1>5. SubSeq(items, k, n) \in Seq(Tx) /\ Len(SubSeq(items, k, n)) = n - k + 1
      /\ \A i \in 1..(n - k + 1) : SubSeq(items, k, n)[i] = items[k + i - 1]
  BY <1>1, <1>2 DEF n
<1> DEFINE u == SubSeq(items, 1, k - 1)
           v == SubSeq(items, k, n)
<1>6. f = u \o <<t>> \o v
  BY DEF InsertAt, n
<1>7. u \in Seq(Tx) /\ Len(u) = k - 1 /\ \A i \in 1..(k - 1) : u[i] = items[i]
  BY <1>4
<1>8. v \in Seq(Tx) /\ Len(v) = n - k + 1 /\ \A i \in 1..(n - k + 1) : v[i] = items[k + i - 1]
  BY <1>5
<1> HIDE DEF u, v, f
<1>9. f \in Seq(Tx) /\ Len(f) = n + 1
  <2>1. <<t>> \in Seq(Tx) /\ Len(<<t>>) = 1
    OBVIOUS
  <2>2. u \o <<t>> \in Seq(Tx) /\ Len(u \o <<t>>) = Len(u) + 1
    BY <1>7, <2>1, ConcatFacts
  <2>3. f \in Seq(Tx) /\ Len(f) = Len(u) + 1 + Len(v)
    BY <1>6, <1>8, <2>2, ConcatFacts
  <2> QED BY <2>3, <1>1, <1>2, <1>7, <1>8
<1>10. \A i \in 1..(n + 1) : f[i] = IF i < k THEN items[i] ELSE IF i = k THEN t ELSE items[i - 1]
  <2> SUFFICES ASSUME NEW i \in 1..(n + 1)
               PROVE  f[i] = IF i < k THEN items[i] ELSE IF i = k THEN t ELSE items[i - 1]
    OBVIOUS
  <2>1. CASE i < k
    <3>1. i \in 1..(k - 1)
      BY <2>1, <1>1, <1>2
    <3>2. f[i] = u[i]
      BY <3>1, <1>2, <1>6, <1>7, <1>8
    <3> QED BY <2>1, <3>1, <3>2, <1>7
  <2>2. CASE i = k
    BY <2>2, <1>1, <1>2, <1>6, <1>7, <1>8
  <2>3. CASE i > k
    <3>1. i - k \in 1..(n - k + 1) /\ k + (i - k) - 1 = i - 1
      BY <2>3, <1>1, <1>2
    <3>2. f[i] = v[i - k]
      BY <2>3, <1>1, <1>2, <1>6, <1>7, <1>8
    <3>3. v[i - k] = items[i - 1]
      BY <3>1, <1>8
    <3> QED BY <2>3, <3>2, <3>3, <1>1, <1>2
  <2> QED BY <2>1, <2>2, <2>3, <1>1, <1>2
<1>11. ToSet(f) = ToSet(items) \union {t}
  <2>0. DOMAIN f = 1..(n + 1)
    BY <1>9, <1>1
  <2>1. ASSUME NEW i \in 1..(n + 1)
        PROVE  f[i] \in ToSet(items) \union {t}
    <3>1. i < k => i \in 1..n
      BY <1>1, <1>2
    <3>2. i > k => i - 1 \in 1..n
      BY <1>1, <1>2
    <3>3. i < k \/ i = k \/ i > k
      BY <1>1, <1>2
    <3>4. ~(i > k /\ i < k) /\ ~(i > k /\ i = k)
      BY <1>1, <1>2
    <3> QED BY <3>1, <3>2, <3>3, <3>4, <1>10, <1>1 DEF ToSet
  <2>2. ASSUME NEW i \in 1..n
        PROVE  \E j \in 1..(n + 1) : f[j] = items[i]
    <3>1. CASE i < k
      <4>1. i \in 1..(n + 1)
        BY <1>1
      <4> QED BY <3>1, <4>1, <1>10
    <3>2. CASE i >= k
      <4>1. i + 1 \in 1..(n + 1) /\ ~(i + 1 < k) /\ i + 1 # k /\ i + 1 - 1 = i
        BY <3>2, <1>1, <1>2
      <4> QED BY <4>1, <1>10
    <3> QED BY <3>1, <3>2, <1>1, <1>2
  <2>3. \E j \in 1..(n + 1) : f[j] = t
    <3>1. ~(k < k)
      BY <1>2, <1>1
    <3> QED BY <3>1, <1>2, <1>10
  <2> QED BY <2>0, <2>1, <2>2, <2>3, <1>1 DEF ToSet
<1> QED BY <1>3, <1>9, <1>11 DEF f, n

LEMMA RemovedFacts ==
    ASSUME NEW p \in Pools, Unique(p.all), p.all \subseteq ToSet(p.items),
           Len(p.items) - Cardinality(p.all) =< p.stales + 1
    PROVE  /\ Removed(p) \in Pools /\ Priced(Removed(p))
           /\ Removed(p).all = p.all /\ SameLists(p, Removed(p)) /\ SameRest(p, Removed(p))
<1>1. HeapOf(p.all) \in Seq(Tx) /\ Len(HeapOf(p.all)) = Cardinality(p.all)
      /\ ToSet(HeapOf(p.all)) = p.all
  BY HeapOfFacts DEF Pools
<1>2. Cardinality(p.all) \in Nat
  BY TxFacts DEF Pools
<1>3. CASE p.stales + 1 =< Len(p.items) \div 4
  <2>1. Removed(p) = [p EXCEPT !.stales = p.stales + 1]
    BY <1>3 DEF Removed
  <2>2. [p EXCEPT !.stales = p.stales + 1] = [p EXCEPT !.stales = p.stales + 1, !.items = p.items]
    BY DEF Pools
  <2>3. p.items \in Seq(Tx) /\ p.stales + 1 \in Nat
    BY DEF Pools
  <2>4. /\ Removed(p) \in Pools /\ Removed(p).items = p.items
        /\ Removed(p).stales = p.stales + 1 /\ Removed(p).all = p.all
        /\ SameLists(p, Removed(p)) /\ SameRest(p, Removed(p))
    <3>1. Removed(p) = SetHeap(p, p.stales + 1, p.items)
      BY <2>1, <2>2 DEF SetHeap
    <3> QED BY <3>1, <2>3, SetHeapFacts
  <2> QED BY <2>4 DEF Priced, PricedFor
<1>4. CASE ~(p.stales + 1 =< Len(p.items) \div 4)
  <2>1. Removed(p) = SetHeap(p, 0, HeapOf(p.all))
    BY <1>4 DEF Removed, SetHeap
  <2>2. /\ Removed(p) \in Pools /\ Removed(p).items = HeapOf(p.all)
        /\ Removed(p).stales = 0 /\ Removed(p).all = p.all
        /\ SameLists(p, Removed(p)) /\ SameRest(p, Removed(p))
    BY <2>1, <1>1, SetHeapFacts
  <2> QED BY <2>2, <1>1, <1>2 DEF Priced, PricedFor
<1> QED BY <1>3, <1>4

LEMMA ForgetFacts ==
    ASSUME NEW p \in Pools, Unique(p.all), Priced(p), NEW t
    PROVE  /\ Forget(p, t) \in Pools /\ Priced(Forget(p, t))
           /\ Forget(p, t).all = p.all \ {t}
           /\ SameLists(p, Forget(p, t)) /\ SameRest(p, Forget(p, t))
<1> DEFINE q == [p EXCEPT !.all = @ \ {t}]
<1>1. q \in Pools /\ q.all = p.all \ {t} /\ q.items = p.items /\ q.stales = p.stales
      /\ SameLists(p, q) /\ SameRest(p, q)
  BY DEF Pools, SameLists, SameRest
<1>2. Cardinality(q.all) >= Cardinality(p.all) - 1
  <2>1. IsFiniteSet(p.all) /\ Cardinality(p.all) \in Nat
    BY TxFacts DEF Pools
  <2>2. Cardinality(p.all \ {t}) = IF t \in p.all THEN Cardinality(p.all) - 1 ELSE Cardinality(p.all)
    BY <2>1, FS_RemoveElement
  <2> QED BY <2>1, <2>2, <1>1
<1>3. Unique(q.all)
  BY <1>1 DEF Unique
<1>4. Len(q.items) - Cardinality(q.all) =< q.stales + 1 /\ q.all \subseteq ToSet(q.items)
  <2>1. Cardinality(p.all) \in Nat /\ Cardinality(q.all) \in Nat /\ Len(p.items) \in Nat
        /\ p.stales \in Nat
    BY <1>1, TxFacts DEF Pools
  <2>2. Len(p.items) - Cardinality(p.all) =< p.stales
    BY DEF Priced, PricedFor
  <2> HIDE DEF q
  <2>3. Len(p.items) - Cardinality(q.all) =< p.stales + 1
    BY <2>1, <2>2, <1>2
  <2> QED BY <2>3, <1>1 DEF Priced, PricedFor
<1>5. Forget(p, t) = Removed(q)
  BY DEF Forget
<1> HIDE DEF q
<1> DEFINE r == Removed(q)
<1>6. r \in Pools /\ Priced(r) /\ r.all = q.all /\ SameLists(q, r) /\ SameRest(q, r)
  BY <1>1, <1>3, <1>4, RemovedFacts
<1> HIDE DEF r
<1>7. SameLists(p, r) /\ SameRest(p, r)
  BY <1>1, <1>6 DEF SameLists, SameRest
<1> QED BY <1>1, <1>5, <1>6, <1>7 DEF r

ForgetInv(c, i, q) ==
    /\ q \in Pools /\ Priced(q)
    /\ q.all = c.pool.all \ {c.txs[j] : j \in 1..i}
    /\ SameLists(c.pool, q) /\ SameRest(c.pool, q)

Forgetting == INSTANCE Loops WITH Step <- LAMBDA c, q, t : Forget(q, t), Inv <- ForgetInv

LEMMA ForgetAllIsFold ==
    ASSUME NEW c, NEW p, NEW txs
    PROVE  ForgetAll(p, txs) = Forgetting!Fold(c, p, ByNonce(txs))
BY Zenon DEF ForgetAll, FoldLeft, MapThenFoldSet, Max, Forgetting!Fold, Forgetting!Highest

\* The transactions of one account that a pool forgets.
LEMMA ForgetAllFacts ==
    ASSUME NEW p \in Pools, Unique(p.all), Priced(p), NEW a, NEW txs \in SUBSET Of(p.all, a)
    PROVE  /\ ForgetAll(p, txs) \in Pools /\ Priced(ForgetAll(p, txs))
           /\ ForgetAll(p, txs).all = p.all \ txs
           /\ SameLists(p, ForgetAll(p, txs)) /\ SameRest(p, ForgetAll(p, txs))
<1> DEFINE s == ByNonce(txs)
           c == [pool |-> p, txs |-> s]
           r == Forgetting!Fold(c, p, s)
<1>1. s \in Seq(txs) /\ ToSet(s) = txs
  <2>1. txs \in SUBSET Tx /\ \A t, u \in txs : t.nonce = u.nonce => t = u
    BY DEF Of, Unique, Pools
  <2> QED BY <2>1, TxFacts, ByNonceFacts
<1> HIDE DEF s
<1>2. ForgetInv(c, 0, p)
  BY DEF ForgetInv, SameLists, SameRest
<1>3. ASSUME NEW i \in 1..Len(s), NEW q, ForgetInv(c, i - 1, q)
      PROVE  ForgetInv(c, i, Forget(q, s[i]))
  <2>1. q \in Pools /\ Priced(q) /\ q.all = p.all \ {s[j] : j \in 1..(i - 1)}
        /\ SameLists(p, q) /\ SameRest(p, q)
    BY <1>3 DEF ForgetInv
  <2>2. Unique(q.all)
    BY <2>1 DEF Unique
  <2>3. /\ Forget(q, s[i]) \in Pools /\ Priced(Forget(q, s[i]))
        /\ Forget(q, s[i]).all = q.all \ {s[i]}
        /\ SameLists(q, Forget(q, s[i])) /\ SameRest(q, Forget(q, s[i]))
    BY <2>1, <2>2, ForgetFacts
  <2>4. {s[j] : j \in 1..i} = {s[j] : j \in 1..(i - 1)} \union {s[i]}
    BY <1>1
  <2> QED BY <2>1, <2>3, <2>4 DEF ForgetInv, SameLists, SameRest
<1>4. ForgetInv(c, Len(s), r)
  <2>1. \A i \in 1..Len(s) : \A x : ForgetInv(c, i - 1, x) => ForgetInv(c, i, Forget(x, s[i]))
    BY <1>3
  <2> HIDE DEF c
  <2> QED BY <1>1, <1>2, <2>1, Forgetting!LoopRule
<1>5. ForgetAll(p, txs) = r
  BY ForgetAllIsFold DEF s
<1>6. {s[j] : j \in 1..Len(s)} = txs
  BY <1>1 DEF ToSet
<1> QED BY <1>4, <1>5, <1>6 DEF ForgetInv

Untouched(c, i, q) == i = 0 => q = c

ForgettingNone ==
    INSTANCE Loops WITH Step <- LAMBDA c, q, t : Forget(q, t), Inv <- Untouched

\* To forget nothing changes nothing.
LEMMA ForgetNone ==
    ASSUME NEW p
    PROVE  ForgetAll(p, {}) = p
<1> DEFINE s == ByNonce({})
<1>1. s \in Seq({}) /\ Len(s) = 0
  BY ByNonceFacts, FS_EmptySet
<1>2. ForgetAll(p, {}) = ForgettingNone!Fold(p, p, s)
  BY Zenon DEF ForgetAll, FoldLeft, MapThenFoldSet, Max, ForgettingNone!Fold, ForgettingNone!Highest
<1> HIDE DEF s
<1>3. Untouched(p, 0, p)
  BY DEF Untouched
<1>4. \A i \in 1..Len(s) : \A x : Untouched(p, i - 1, x) => Untouched(p, i, Forget(x, s[i]))
  BY <1>1
<1>5. Untouched(p, Len(s), ForgettingNone!Fold(p, p, s))
  BY <1>1, <1>3, <1>4, ForgettingNone!LoopRule
<1> QED BY <1>1, <1>2, <1>5 DEF Untouched

-----------------------------------------------------------------------------
(* The two lists *)

SameHeap(p, q) == q.items = p.items /\ q.stales = p.stales

SetLists(p, x, y) == [p EXCEPT !.pending = x, !.queue = y]

LEMMA SetListsFacts ==
    ASSUME NEW p \in Pools, NEW x \in SUBSET Tx, NEW y \in SUBSET Tx
    PROVE  /\ SetLists(p, x, y) \in Pools
           /\ SetLists(p, x, y).pending = x /\ SetLists(p, x, y).queue = y
           /\ SetLists(p, x, y).all = p.all
           /\ SameHeap(p, SetLists(p, x, y)) /\ SameRest(p, SetLists(p, x, y))
<1> DEFINE q == SetLists(p, x, y)
<1> USE DEF SetLists
<1>1. q \in Pools
  BY DEF Pools
<1>2. q.pending = x /\ q.queue = y /\ q.all = p.all
  BY DEF Pools
<1>3. SameHeap(p, q) /\ SameRest(p, q)
  BY DEF Pools, SameHeap, SameRest
<1> QED BY <1>1, <1>2, <1>3

\* To change one of the lists is to set both.
LEMMA SetOneList ==
    ASSUME NEW p \in Pools, NEW x
    PROVE  /\ [p EXCEPT !.queue = x] = SetLists(p, p.pending, x)
           /\ [p EXCEPT !.pending = x] = SetLists(p, x, p.queue)
BY DEF Pools, SetLists

SetAll(p, x) == [p EXCEPT !.all = x]

LEMMA SetAllFacts ==
    ASSUME NEW p \in Pools, NEW x \in SUBSET Tx
    PROVE  /\ SetAll(p, x) \in Pools /\ SetAll(p, x).all = x
           /\ SameHeap(p, SetAll(p, x)) /\ SameLists(p, SetAll(p, x))
           /\ SameRest(p, SetAll(p, x))
<1> DEFINE q == SetAll(p, x)
<1> USE DEF SetAll
<1>1. q \in Pools
  BY DEF Pools
<1>2. q.all = x
  BY DEF Pools
<1>3. SameHeap(p, q) /\ SameLists(p, q) /\ SameRest(p, q)
  BY DEF Pools, SameHeap, SameLists, SameRest
<1> QED BY <1>1, <1>2, <1>3

SetBeats(p, x) == [p EXCEPT !.beats = x]

\* What is left alone by an operation that may change the heartbeats, and by
\* one that may change the next nonces, too.
Steady(p, q) ==
    /\ q.currentState = p.currentState /\ q.gasPrice = p.gasPrice
    /\ q.locals = p.locals /\ q.journal = p.journal

LEMMA SetBeatsFacts ==
    ASSUME NEW p \in Pools, NEW x \in Seq(Addr)
    PROVE  /\ SetBeats(p, x) \in Pools /\ SetBeats(p, x).all = p.all
           /\ SameHeap(p, SetBeats(p, x)) /\ SameLists(p, SetBeats(p, x))
           /\ Steady(p, SetBeats(p, x)) /\ SetBeats(p, x).pendingState = p.pendingState
<1> DEFINE q == SetBeats(p, x)
<1> USE DEF SetBeats
<1>1. q \in Pools
  BY DEF Pools
<1>2. q.all = p.all /\ q.pendingState = p.pendingState
  BY DEF Pools
<1>3. SameHeap(p, q) /\ SameLists(p, q) /\ Steady(p, q)
  BY DEF Pools, SameHeap, SameLists, Steady
<1> QED BY <1>1, <1>2, <1>3

SetNonce(p, a, n) == [p EXCEPT !.pendingState[a] = n]

LEMMA SetNonceFacts ==
    ASSUME NEW p \in Pools, NEW a \in Addr, NEW n \in Nat
    PROVE  /\ SetNonce(p, a, n) \in Pools /\ SetNonce(p, a, n).all = p.all
           /\ SetNonce(p, a, n).pendingState[a] = n
           /\ \A b \in Addr \ {a} : SetNonce(p, a, n).pendingState[b] = p.pendingState[b]
           /\ SameHeap(p, SetNonce(p, a, n)) /\ SameLists(p, SetNonce(p, a, n))
           /\ Steady(p, SetNonce(p, a, n)) /\ SetNonce(p, a, n).beats = p.beats
<1> DEFINE q == SetNonce(p, a, n)
<1> USE DEF SetNonce
<1>1. q \in Pools
  BY DEF Pools
<1>2. q.all = p.all /\ q.beats = p.beats /\ q.pendingState[a] = n
      /\ \A b \in Addr \ {a} : q.pendingState[b] = p.pendingState[b]
  BY DEF Pools
<1>3. SameHeap(p, q) /\ SameLists(p, q) /\ Steady(p, q)
  BY DEF Pools, SameHeap, SameLists, Steady
<1> QED BY <1>1, <1>2, <1>3

LEMMA RemoveFirstFacts ==
    ASSUME NEW s \in Seq(Addr), NEW a
    PROVE  RemoveFirst(s, a) \in Seq(Addr)
<1> DEFINE I == {i \in 1..Len(s) : s[i] = a}
<1>1. CASE I = {}
  <2>1. RemoveFirst(s, a) = s
    BY <1>1 DEF RemoveFirst
  <2> QED BY <2>1
<1>2. CASE I # {}
  <2>1. RemoveFirst(s, a) = RemoveAt(s, Min(I))
    BY <1>2 DEF RemoveFirst, SelectInSeq
  <2>2. I \in SUBSET Nat
    OBVIOUS
  <2>3. Min(I) \in 1..Len(s)
    BY <1>2, <2>2, MinFacts
  <2> HIDE DEF I
  <2>4. SubSeq(s, 1, Min(I) - 1) \in Seq(Addr) /\ SubSeq(s, Min(I) + 1, Len(s)) \in Seq(Addr)
    BY <2>3
  <2> QED BY <2>1, <2>4, ConcatFacts DEF RemoveAt
<1> QED BY <1>1, <1>2

LEMMA DropBeatFacts ==
    ASSUME NEW p \in Pools, NEW a
    PROVE  /\ DropBeat(p, a) \in Pools /\ DropBeat(p, a).all = p.all
           /\ SameHeap(p, DropBeat(p, a)) /\ SameLists(p, DropBeat(p, a))
           /\ Steady(p, DropBeat(p, a)) /\ DropBeat(p, a).pendingState = p.pendingState
<1>1. CASE Of(p.pending, a) = {}
  <2>1. DropBeat(p, a) = SetBeats(p, RemoveFirst(p.beats, a))
    BY <1>1 DEF DropBeat, SetBeats
  <2>2. RemoveFirst(p.beats, a) \in Seq(Addr)
    BY RemoveFirstFacts DEF Pools
  <2> QED BY <2>1, <2>2, SetBeatsFacts
<1>2. CASE Of(p.pending, a) # {}
  BY <1>2 DEF DropBeat, SameHeap, SameLists, Steady
<1> QED BY <1>1, <1>2

\* A transaction that the pool knows goes to the queue.
LEMMA EnqueueKnown ==
    ASSUME NEW p \in Pools, Unique(p.all), p.queue \subseteq p.all, NEW t \in p.all
    PROVE  enqueueTx(p, t) = SetLists(p, p.pending, p.queue \union {t})
<1>1. CASE t \in p.queue
  <2>1. t \in Overlapping(p.queue, t) /\ ~(t.price < t.price)
    BY <1>1, TxFacts DEF Overlapping, Pools
  <2>2. enqueueTx(p, t) = p
    BY <2>1 DEF enqueueTx, Accepts
  <2>3. p.queue \union {t} = p.queue
    BY <1>1
  <2>4. SetLists(p, p.pending, p.queue) = p
    BY DEF SetLists, Pools
  <2> QED BY <2>2, <2>3, <2>4
<1>2. CASE t \notin p.queue
  <2>1. Overlapping(p.queue, t) = {}
    BY <1>2 DEF Overlapping, Unique
  <2> DEFINE q == SetLists(p, p.pending, p.queue \union {t})
  <2>2. q \in Pools /\ q.all = p.all /\ SameHeap(p, q)
    <3>1. p.pending \in SUBSET Tx /\ p.queue \union {t} \in SUBSET Tx
      BY PoolFields
    <3> QED BY <3>1, SetListsFacts
  <2>3. [p EXCEPT !.queue = (@ \ Overlapping(@, t)) \union {t}] = q
    <3>1. (p.queue \ Overlapping(p.queue, t)) \union {t} = p.queue \union {t}
      BY <2>1
    <3> QED BY <3>1, SetOneList
  <2>4. enqueueTx(p, t) = Enlist(ForgetAll(q, {}), t)
    BY <2>1, <2>3 DEF enqueueTx, Accepts
  <2> HIDE DEF q
  <2>5. ForgetAll(q, {}) = q
    BY ForgetNone
  <2>6. Enlist(q, t) = q
    BY <2>2 DEF Enlist
  <2> QED BY <2>4, <2>5, <2>6 DEF q
<1> QED BY <1>1, <1>2

EnqueueInv(c, i, q) ==
    q = SetLists(c.pool, c.pool.pending, c.pool.queue \union {c.txs[j] : j \in 1..i})

Enqueuing == INSTANCE Loops WITH Step <- LAMBDA c, q, t : enqueueTx(q, t), Inv <- EnqueueInv

LEMMA EnqueueTxsFacts ==
    ASSUME NEW p \in Pools, Unique(p.all), p.queue \subseteq p.all, NEW a,
           NEW txs \in SUBSET Of(p.all, a)
    PROVE  EnqueueTxs(p, txs) = SetLists(p, p.pending, p.queue \union txs)
<1> DEFINE s == ByNonce(txs)
           c == [pool |-> p, txs |-> s]
           r == Enqueuing!Fold(c, p, s)
<1>0. p.pending \in SUBSET Tx /\ p.queue \in SUBSET Tx /\ p.all \in SUBSET Tx
  BY PoolFields
<1>1. s \in Seq(txs) /\ ToSet(s) = txs
  <2>1. txs \in SUBSET Tx /\ \A t, u \in txs : t.nonce = u.nonce => t = u
    BY <1>0 DEF Of, Unique
  <2> QED BY <2>1, TxFacts, ByNonceFacts
<1>2. EnqueueTxs(p, txs) = r
  BY Zenon DEF EnqueueTxs, FoldLeft, MapThenFoldSet, Max, Enqueuing!Fold, Enqueuing!Highest
<1> HIDE DEF s
<1>3. EnqueueInv(c, 0, p)
  <2>1. p.queue \union {s[j] : j \in 1..0} = p.queue
    OBVIOUS
  <2> QED BY <2>1 DEF EnqueueInv, SetLists, Pools
<1>4. ASSUME NEW i \in 1..Len(s), NEW q, EnqueueInv(c, i - 1, q)
      PROVE  EnqueueInv(c, i, enqueueTx(q, s[i]))
  <2> DEFINE y == p.queue \union {s[j] : j \in 1..(i - 1)}
  <2>1. q = SetLists(p, p.pending, y)
    BY <1>4 DEF EnqueueInv
  <2>2. \A j \in 1..Len(s) : s[j] \in txs
    BY <1>1
  <2>3. s[i] \in p.all
    BY <2>2 DEF Of
  <2>4. y \in SUBSET p.all
    <3>1. \A j \in 1..(i - 1) : j \in 1..Len(s)
      BY <1>1
    <3> QED BY <2>2, <3>1 DEF Of
  <2>5. y \union {s[i]} = p.queue \union {s[j] : j \in 1..i}
    BY <1>1
  <2> HIDE DEF y
  <2>6. q \in Pools /\ q.pending = p.pending /\ q.queue = y /\ q.all = p.all
    <3>1. y \in SUBSET Tx
      BY <2>4, <1>0
    <3> QED BY <1>0, <2>1, <3>1, SetListsFacts
  <2>7. enqueueTx(q, s[i]) = SetLists(q, p.pending, y \union {s[i]})
    BY <2>3, <2>4, <2>6, EnqueueKnown
  <2>8. SetLists(q, p.pending, y \union {s[i]}) = SetLists(p, p.pending, y \union {s[i]})
    BY <2>1 DEF SetLists, Pools
  <2> QED BY <2>5, <2>7, <2>8 DEF EnqueueInv
<1>5. EnqueueInv(c, Len(s), r)
  <2>1. \A i \in 1..Len(s) : \A x : EnqueueInv(c, i - 1, x) => EnqueueInv(c, i, enqueueTx(x, s[i]))
    BY <1>4
  <2> HIDE DEF c
  <2> QED BY <1>1, <1>3, <2>1, Enqueuing!LoopRule
<1>6. {s[j] : j \in 1..Len(s)} = txs
  BY <1>1 DEF ToSet
<1> QED BY <1>2, <1>5, <1>6 DEF EnqueueInv

\* The lists have all transactions of the lookup, each in one of them.
Agree(p) ==
    /\ p \in Pools
    /\ Unique(p.all)
    /\ p.all = p.pending \union p.queue
    /\ p.pending \intersect p.queue = {}

Sound(p) == Agree(p) /\ Priced(p)

\* No transaction of a in the queue has the next nonce of a.
Free(p, a) == \A t \in p.queue : t.from = a => t.nonce # p.pendingState[a]

\* Could t be mined after the block whose state the pool works with?
ValidIn(p, t) == t.nonce >= StateNonce(p, t.from) /\ Payable(p, t)

\* The pending transactions of a can be executed one after the other: they
\* have the nonces from the state's up to the next one that the pool gives out.
Exec(p, a) ==
    /\ \A n \in Nat : (\E t \in p.pending : t.from = a /\ t.nonce = n)
                       <=> StateNonce(p, a) <= n /\ n < p.pendingState[a]
    /\ \A t \in p.pending : t.from = a => Payable(p, t)

Executes(p, q) == \A a \in Addr : Exec(p, a) => Exec(q, a)

LEMMA SameValid ==
    ASSUME NEW p, NEW q, q.currentState = p.currentState
    PROVE  /\ \A a : StateNonce(q, a) = StateNonce(p, a)
           /\ \A t : (Payable(q, t) <=> Payable(p, t)) /\ (ValidIn(q, t) <=> ValidIn(p, t))
BY DEF StateNonce, Payable, ValidIn

LEMMA StateNonceType ==
    ASSUME NEW p \in Pools, NEW a \in Addr
    PROVE  StateNonce(p, a) \in Nat
<1>1. p.currentState \in DOMAIN Block
  BY DEF Pools
<1> QED BY <1>1, BlockAssumption DEF StateNonce

LEMMA SameExec ==
    ASSUME NEW p, NEW q, q.pending = p.pending, q.pendingState = p.pendingState,
           q.currentState = p.currentState
    PROVE  Executes(p, q)
<1>1. /\ \A a : StateNonce(q, a) = StateNonce(p, a)
      /\ \A t : (Payable(q, t) <=> Payable(p, t))
  BY SameValid
<1> QED BY <1>1 DEF Exec, Executes

LEMMA ExecFacts ==
    /\ \A p : Executes(p, p)
    /\ \A p, q, r : Executes(p, q) /\ Executes(q, r) => Executes(p, r)
BY DEF Executes

\* What holds between a pool and the one that is left of it when some
\* transactions are removed.
Left(p, q) ==
    /\ q.pending \subseteq p.pending /\ q.all \subseteq p.all
    /\ Steady(p, q)
    /\ \A a \in Addr : Free(p, a) => Free(q, a)
    /\ Executes(p, q)

LEMMA LeftFacts ==
    /\ \A p : Left(p, p)
    /\ \A p, q, r : Left(p, q) /\ Left(q, r) => Left(p, r)
BY ExecFacts DEF Left, Steady

\* The lists lose a transaction that the lookup has already lost.
LEMMA RemoveFromListsFacts ==
    ASSUME NEW p \in Pools, NEW t \in Tx, t \notin p.all, Unique(p.all \union {t}),
           p.pending \union p.queue = p.all \union {t}, p.pending \intersect p.queue = {}
    PROVE  LET r == RemoveFromLists(p, t)
           IN  /\ Agree(r) /\ r.all = p.all /\ SameHeap(p, r)
               /\ r.pending \subseteq p.pending /\ Steady(p, r)
               /\ \A a \in Addr : Free(p, a) => Free(r, a)
               /\ Executes(p, r)
<1> DEFINE r == RemoveFromLists(p, t)
           from == t.from
<1>0. /\ p.pending \in SUBSET Tx /\ p.queue \in SUBSET Tx /\ p.all \in SUBSET Tx
      /\ p.pendingState \in [Addr -> Nat] /\ t.from \in Addr /\ t.nonce \in Nat
      /\ \A u \in Tx : u.nonce \in Nat
  BY PoolFields, TxFacts
<1>1. CASE Overlapping(p.pending, t) = {}
  <2>1. t \in p.queue
    BY <1>1 DEF Overlapping
  <2>2. Overlapping(p.queue, t) = {t}
    BY <2>1 DEF Overlapping, Unique
  <2>3. r = SetLists(p, p.pending, p.queue \ {t})
    BY <1>1, <2>2, SetOneList DEF RemoveFromLists
  <2> HIDE DEF r
  <2>4. p.queue \ {t} \in SUBSET Tx
    BY <1>0
  <2>5. /\ r \in Pools /\ r.pending = p.pending /\ r.queue = p.queue \ {t} /\ r.all = p.all
        /\ SameHeap(p, r) /\ SameRest(p, r)
    BY <1>0, <2>3, <2>4, SetListsFacts
  <2>6. Agree(r)
    BY <2>1, <2>5 DEF Agree, Unique
  <2>7. \A a \in Addr : Free(p, a) => Free(r, a)
    BY <2>5 DEF Free, SameRest
  <2>8. Executes(p, r)
    BY <2>5, SameExec DEF SameRest
  <2> QED BY <2>5, <2>6, <2>7, <2>8 DEF SameRest, Steady, r
<1>2. CASE Overlapping(p.pending, t) # {}
  <2>1. t \in p.pending /\ t \notin p.queue /\ Overlapping(p.pending, t) = {t}
    BY <1>2 DEF Overlapping, Unique
  <2> DEFINE inv == Invalids(Of(p.pending, from), {t})
             x == p.pending \ ({t} \union inv)
             p1 == SetLists(p, x, p.queue)
             p2 == DropBeat(p1, from)
             p3 == SetLists(p2, x, p.queue \union inv)
             n == IF p.pendingState[from] > t.nonce THEN t.nonce ELSE p.pendingState[from]
  <2>2. inv \in SUBSET Of(p.all, from) /\ inv \subseteq p.pending /\ t \notin inv
        /\ (\A u \in inv : u.from = from /\ u.nonce > t.nonce)
        /\ \A v \in p.pending : v.from = from /\ v.nonce > t.nonce => v \in inv
    BY <1>0, <2>1 DEF Invalids, Of
  <2>3. p1 \in Pools /\ p1.pending = x /\ p1.queue = p.queue /\ p1.all = p.all
        /\ SameHeap(p, p1) /\ SameRest(p, p1)
    <3>1. x \in SUBSET Tx
      BY <1>0
    <3> HIDE DEF x
    <3> QED BY <1>0, <3>1, SetListsFacts
  <2>4. p2 \in Pools /\ p2.pending = x /\ p2.queue = p.queue /\ p2.all = p.all
        /\ SameHeap(p, p2) /\ Steady(p, p2) /\ p2.pendingState = p.pendingState
    <3> HIDE DEF p1
    <3> QED BY <2>3, DropBeatFacts DEF SameHeap, SameLists, Steady, SameRest
  <2>5. EnqueueTxs(p2, inv) = p3
    <3>1. Unique(p.all) /\ p.queue \subseteq p.all
      BY <2>1 DEF Unique
    <3> HIDE DEF p2, inv, x
    <3> QED BY <2>2, <2>4, <3>1, EnqueueTxsFacts
  <2>6. p3 \in Pools /\ p3.pending = x /\ p3.queue = p.queue \union inv /\ p3.all = p.all
        /\ SameHeap(p, p3) /\ Steady(p, p3) /\ p3.pendingState = p.pendingState
    <3>1. x \in SUBSET Tx /\ p.queue \union inv \in SUBSET Tx
      BY <1>0, <2>2
    <3> HIDE DEF p2, inv, x
    <3> QED BY <2>4, <3>1, SetListsFacts DEF SameHeap, Steady, SameRest
  <2>7. r = SetNonce(p3, from, n)
    <3>1. r = RemovePending(p, t)
      BY <1>2 DEF RemoveFromLists
    <3>2. [p EXCEPT !.pending = @ \ ({t} \union inv)] = p1
      BY SetOneList
    <3>3. r = [EnqueueTxs(DropBeat(p1, from), inv)
                 EXCEPT !.pendingState[from] = IF @ > t.nonce THEN t.nonce ELSE @]
      BY <3>1, <3>2, <2>1 DEF RemovePending
    <3>4. r = [p3 EXCEPT !.pendingState[from] = IF @ > t.nonce THEN t.nonce ELSE @]
      BY <3>3, <2>5
    <3> HIDE DEF p3
    <3> QED BY <3>4, <2>6 DEF SetNonce
  <2>8. n \in Nat /\ n <= t.nonce
    BY <1>0
  <2>9. /\ r \in Pools /\ r.all = p.all /\ r.pendingState[from] = n
        /\ \A b \in Addr \ {from} : r.pendingState[b] = p.pendingState[b]
        /\ r.pending = x /\ r.queue = p.queue \union inv /\ SameHeap(p, r) /\ Steady(p, r)
    <3> HIDE DEF p3, n, r, x, inv
    <3>1. /\ r \in Pools /\ r.all = p3.all /\ r.pendingState[from] = n
          /\ \A b \in Addr \ {from} : r.pendingState[b] = p3.pendingState[b]
          /\ SameHeap(p3, r) /\ SameLists(p3, r) /\ Steady(p3, r)
      <4>1. p3 \in Pools /\ from \in Addr /\ n \in Nat
        BY <1>0, <2>6, <2>8
      <4> QED BY <4>1, <2>7, SetNonceFacts
    <3> QED BY <2>6, <3>1 DEF SameHeap, SameLists, Steady
  <2> HIDE DEF r
  <2>10. Agree(r)
    <3>1. r.all = r.pending \union r.queue /\ r.pending \intersect r.queue = {}
      BY <2>1, <2>2, <2>9
    <3>2. Unique(r.all)
      BY <2>9 DEF Unique
    <3> QED BY <2>9, <3>1, <3>2 DEF Agree
  <2>11. \A a \in Addr : Free(p, a) => Free(r, a)
    <3> SUFFICES ASSUME NEW a \in Addr, Free(p, a), NEW u \in r.queue, u.from = a
                 PROVE  u.nonce # r.pendingState[a]
      BY DEF Free
    <3>1. CASE a # from
      <4>1. u \in p.queue
        BY <2>9, <2>2, <3>1
      <4>2. r.pendingState[a] = p.pendingState[a]
        BY <2>9, <3>1, <1>0
      <4> QED BY <4>1, <4>2 DEF Free
    <3>2. CASE a = from
      <4>1. r.pendingState[a] = n
        BY <2>9, <3>2, <1>0
      <4>2. CASE u \in inv
        <5>1. u.nonce > t.nonce /\ u.nonce \in Nat
          BY <4>2, <2>2, <1>0
        <5> QED BY <4>1, <5>1, <2>8, <1>0
      <4>3. CASE u \in p.queue
        <5>1. u.nonce # p.pendingState[a]
          BY <4>3 DEF Free
        <5>2. u.nonce # t.nonce
          BY <4>3, <3>2, <2>1 DEF Unique
        <5> QED BY <4>1, <5>1, <5>2, <3>2
      <4> QED BY <4>2, <4>3, <2>9
    <3> QED BY <3>1, <3>2
  <2>12. ASSUME NEW a \in Addr, Exec(p, a)
         PROVE  Exec(r, a)
    <3>1. /\ StateNonce(r, a) = StateNonce(p, a)
          /\ \A u : (Payable(r, u) <=> Payable(p, u))
      BY <2>9, SameValid DEF Steady
    <3>2. \A u \in r.pending : u \in p.pending
      BY <2>9
    <3>3. CASE a # from
      <4>1. \A u : u.from = a => (u \in r.pending <=> u \in p.pending)
        BY <2>2, <2>9, <3>3
      <4>2. r.pendingState[a] = p.pendingState[a]
        BY <2>9, <3>3
      <4> QED BY <2>12, <3>1, <4>1, <4>2 DEF Exec
    <3>4. CASE a = from
      <4>1. t.nonce < p.pendingState[a]
        BY <2>1, <2>12, <1>0, <3>4 DEF Exec
      <4>2. r.pendingState[a] = t.nonce
        BY <2>9, <3>4, <4>1
      <4>3. \A u \in p.pending : u.from = a => (u \in r.pending <=> u.nonce < t.nonce)
        <5> SUFFICES ASSUME NEW u \in p.pending, u.from = a
                     PROVE  u \in r.pending <=> u.nonce < t.nonce
          OBVIOUS
        <5>1. u.nonce \in Nat /\ t.nonce \in Nat
          BY <1>0
        <5>2. u.nonce = t.nonce => u = t
          BY <2>1, <3>4 DEF Unique
        <5>3. u \in inv <=> u.nonce > t.nonce
          BY <2>2, <3>4
        <5> QED BY <2>9, <5>1, <5>2, <5>3
      <4>4. p.pendingState[a] \in Nat
        BY <1>0
      <4> QED BY <1>0, <2>12, <3>1, <3>2, <4>1, <4>2, <4>3, <4>4 DEF Exec
    <3> QED BY <3>3, <3>4
  <2> QED BY <2>9, <2>10, <2>11, <2>12 DEF Executes, r
<1> QED BY <1>1, <1>2

-----------------------------------------------------------------------------
(* Removing *)

\* removeTx, when the heap is told.
LEMMA RemoveTxFacts ==
    ASSUME NEW p, Sound(p), NEW t
    PROVE  LET r == removeTx(p, t, TRUE)
           IN  Sound(r) /\ r.all = p.all \ {t} /\ Left(p, r)
<1> DEFINE r == removeTx(p, t, TRUE)
<1>1. CASE t \notin p.all
  <2>1. r = p /\ p.all \ {t} = p.all
    BY <1>1 DEF removeTx
  <2> QED BY <2>1, LeftFacts
<1>2. CASE t \in p.all
  <2> DEFINE q == Forget(p, t)
  <2>1. r = RemoveFromLists(q, t)
    BY <1>2 DEF removeTx
  <2>2. p \in Pools /\ Unique(p.all) /\ Priced(p) /\ p.pending \union p.queue = p.all
        /\ p.pending \intersect p.queue = {} /\ t \in Tx
    BY <1>2, PoolFields DEF Sound, Agree
  <2>3. q \in Pools /\ Priced(q) /\ q.all = p.all \ {t} /\ SameLists(p, q) /\ SameRest(p, q)
    BY <2>2, ForgetFacts
  <2> HIDE DEF q, r
  <2>4. /\ t \notin q.all /\ Unique(q.all \union {t})
        /\ q.pending \union q.queue = q.all \union {t} /\ q.pending \intersect q.queue = {}
    BY <1>2, <2>2, <2>3 DEF SameLists, Unique
  <2>5. /\ Agree(r) /\ r.all = q.all /\ SameHeap(q, r)
        /\ r.pending \subseteq q.pending /\ Steady(q, r)
        /\ \A a \in Addr : Free(q, a) => Free(r, a)
        /\ Executes(q, r)
    BY <2>1, <2>2, <2>3, <2>4, RemoveFromListsFacts
  <2>6. Priced(r)
    BY <2>3, <2>5 DEF Priced, PricedFor, SameHeap
  <2>7. \A a \in Addr : Free(p, a) => Free(q, a)
    BY <2>3 DEF Free, SameLists, SameRest
  <2>8. Left(p, r)
    <3>1. r.all \subseteq p.all /\ r.pending \subseteq p.pending
      BY <2>3, <2>5 DEF SameLists
    <3>2. Steady(p, r)
      BY <2>3, <2>5 DEF SameRest, Steady
    <3>3. Executes(p, q)
      BY <2>3, SameExec DEF SameRest, SameLists
    <3>4. Executes(p, r)
      BY <2>5, <3>3, ExecFacts
    <3> QED BY <3>1, <3>2, <3>4, <2>5, <2>7 DEF Left
  <2> QED BY <2>3, <2>5, <2>6, <2>8 DEF Sound, r
<1> QED BY <1>1, <1>2

\* removeTx, when the heap has already lost its entry.
LEMMA DropTxFacts ==
    ASSUME NEW p, Agree(p), NEW t
    PROVE  LET r == removeTx(p, t, FALSE)
           IN  Agree(r) /\ r.all = p.all \ {t} /\ Left(p, r) /\ SameHeap(p, r)
<1> DEFINE r == removeTx(p, t, FALSE)
<1>1. CASE t \notin p.all
  <2>1. r = p /\ p.all \ {t} = p.all
    BY <1>1 DEF removeTx
  <2> QED BY <2>1, LeftFacts DEF SameHeap
<1>2. CASE t \in p.all
  <2> DEFINE q == SetAll(p, p.all \ {t})
  <2>1. r = RemoveFromLists(q, t)
    BY <1>2 DEF removeTx, SetAll
  <2>2. p \in Pools /\ Unique(p.all) /\ p.pending \union p.queue = p.all
        /\ p.pending \intersect p.queue = {} /\ t \in Tx /\ p.all \ {t} \in SUBSET Tx
    BY <1>2, PoolFields DEF Agree
  <2>3. q \in Pools /\ q.all = p.all \ {t} /\ SameHeap(p, q) /\ SameLists(p, q) /\ SameRest(p, q)
    BY <2>2, SetAllFacts
  <2> HIDE DEF q, r
  <2>4. /\ t \notin q.all /\ Unique(q.all \union {t})
        /\ q.pending \union q.queue = q.all \union {t} /\ q.pending \intersect q.queue = {}
    BY <1>2, <2>2, <2>3 DEF SameLists, Unique
  <2>5. /\ Agree(r) /\ r.all = q.all /\ SameHeap(q, r)
        /\ r.pending \subseteq q.pending /\ Steady(q, r)
        /\ \A a \in Addr : Free(q, a) => Free(r, a)
        /\ Executes(q, r)
    BY <2>1, <2>2, <2>3, <2>4, RemoveFromListsFacts
  <2>7. \A a \in Addr : Free(p, a) => Free(q, a)
    BY <2>3 DEF Free, SameLists, SameRest
  <2>8. Left(p, r)
    <3>1. r.all \subseteq p.all /\ r.pending \subseteq p.pending
      BY <2>3, <2>5 DEF SameLists
    <3>2. Steady(p, r)
      BY <2>3, <2>5 DEF SameRest, Steady
    <3>3. Executes(p, q)
      BY <2>3, SameExec DEF SameRest, SameLists
    <3>4. Executes(p, r)
      BY <2>5, <3>3, ExecFacts
    <3> QED BY <3>1, <3>2, <3>4, <2>5, <2>7 DEF Left
  <2> QED BY <2>3, <2>5, <2>8 DEF SameHeap, r
<1> QED BY <1>1, <1>2

RemoveInv(c, i, q) ==
    Sound(q) /\ q.all = c.pool.all \ {c.txs[j] : j \in 1..i} /\ Left(c.pool, q)

Removing == INSTANCE Loops WITH Step <- LAMBDA c, q, t : removeTx(q, t, TRUE), Inv <- RemoveInv

LEMMA RemoveTxsFacts ==
    ASSUME NEW p, Sound(p), NEW S, NEW txs \in Seq(S)
    PROVE  LET r == RemoveTxs(p, txs, TRUE)
           IN  Sound(r) /\ r.all = p.all \ ToSet(txs) /\ Left(p, r)
<1> DEFINE c == [pool |-> p, txs |-> txs]
           r == Removing!Fold(c, p, txs)
<1>1. RemoveTxs(p, txs, TRUE) = r
  BY Zenon DEF RemoveTxs, FoldLeft, MapThenFoldSet, Max, Removing!Fold, Removing!Highest
<1>2. RemoveInv(c, 0, p)
  BY LeftFacts DEF RemoveInv
<1>3. ASSUME NEW i \in 1..Len(txs), NEW q, RemoveInv(c, i - 1, q)
      PROVE  RemoveInv(c, i, removeTx(q, txs[i], TRUE))
  <2>1. Sound(q) /\ q.all = p.all \ {txs[j] : j \in 1..(i - 1)} /\ Left(p, q)
    BY <1>3 DEF RemoveInv
  <2> DEFINE x == removeTx(q, txs[i], TRUE)
  <2>2. Sound(x) /\ x.all = q.all \ {txs[i]} /\ Left(q, x)
    BY <2>1, RemoveTxFacts
  <2> HIDE DEF x
  <2>3. {txs[j] : j \in 1..i} = {txs[j] : j \in 1..(i - 1)} \union {txs[i]}
    OBVIOUS
  <2>4. x.all = p.all \ {txs[j] : j \in 1..i}
    BY <2>1, <2>2, <2>3
  <2>5. Left(p, x)
    BY <2>1, <2>2, LeftFacts
  <2> QED BY <2>2, <2>4, <2>5 DEF RemoveInv, x
<1>4. RemoveInv(c, Len(txs), r)
  <2>1. \A i \in 1..Len(txs) : \A x : RemoveInv(c, i - 1, x) => RemoveInv(c, i, removeTx(x, txs[i], TRUE))
    BY <1>3
  <2> HIDE DEF c
  <2> QED BY <1>2, <2>1, Removing!LoopRule
<1>5. {txs[j] : j \in 1..Len(txs)} = ToSet(txs)
  BY DEF ToSet
<1> QED BY <1>1, <1>4, <1>5 DEF RemoveInv

DropInv(c, i, q) ==
    /\ Agree(q) /\ q.all = c.pool.all \ {c.txs[j] : j \in 1..i}
    /\ Left(c.pool, q) /\ SameHeap(c.pool, q)

Dropping == INSTANCE Loops WITH Step <- LAMBDA c, q, t : removeTx(q, t, FALSE), Inv <- DropInv

LEMMA DropTxsFacts ==
    ASSUME NEW p, Agree(p), NEW S, NEW txs \in Seq(S)
    PROVE  LET r == RemoveTxs(p, txs, FALSE)
           IN  Agree(r) /\ r.all = p.all \ ToSet(txs) /\ Left(p, r) /\ SameHeap(p, r)
<1> DEFINE c == [pool |-> p, txs |-> txs]
           r == Dropping!Fold(c, p, txs)
<1>1. RemoveTxs(p, txs, FALSE) = r
  BY Zenon DEF RemoveTxs, FoldLeft, MapThenFoldSet, Max, Dropping!Fold, Dropping!Highest
<1>2. DropInv(c, 0, p)
  BY LeftFacts DEF DropInv, SameHeap
<1>3. ASSUME NEW i \in 1..Len(txs), NEW q, DropInv(c, i - 1, q)
      PROVE  DropInv(c, i, removeTx(q, txs[i], FALSE))
  <2>1. /\ Agree(q) /\ q.all = p.all \ {txs[j] : j \in 1..(i - 1)}
        /\ Left(p, q) /\ SameHeap(p, q)
    BY <1>3 DEF DropInv
  <2> DEFINE x == removeTx(q, txs[i], FALSE)
  <2>2. Agree(x) /\ x.all = q.all \ {txs[i]} /\ Left(q, x) /\ SameHeap(q, x)
    BY <2>1, DropTxFacts
  <2> HIDE DEF x
  <2>3. {txs[j] : j \in 1..i} = {txs[j] : j \in 1..(i - 1)} \union {txs[i]}
    OBVIOUS
  <2>4. x.all = p.all \ {txs[j] : j \in 1..i}
    BY <2>1, <2>2, <2>3
  <2>5. Left(p, x) /\ SameHeap(p, x)
    BY <2>1, <2>2, LeftFacts DEF SameHeap
  <2> QED BY <2>2, <2>4, <2>5 DEF DropInv, x
<1>4. DropInv(c, Len(txs), r)
  <2>1. \A i \in 1..Len(txs) : \A x : DropInv(c, i - 1, x) => DropInv(c, i, removeTx(x, txs[i], FALSE))
    BY <1>3
  <2> HIDE DEF c
  <2> QED BY <1>2, <2>1, Dropping!LoopRule
<1>5. {txs[j] : j \in 1..Len(txs)} = ToSet(txs)
  BY DEF ToSet
<1> QED BY <1>1, <1>4, <1>5 DEF DropInv

-----------------------------------------------------------------------------
(* Loops over the priced list *)

Accs == [items : Seq(Tx), stales : Nat, drop : Seq(Tx), left : Int]

\* The entries of the priced list of p that a loop has not yet looked at.
Rest(p, i) == {p.items[j] : j \in (i + 1)..Len(p.items)}

Remote(p) == {t \in p.all : t.from \notin p.locals}

\* A loop over the priced list of p, after i entries: it takes out remote
\* transactions of the pool, no other one loses its entry, and the counter
\* is right for the entries that it keeps and those that it has yet to see.
SieveOK(p, i, acc) ==
    /\ acc \in Accs
    /\ ToSet(acc.drop) \subseteq Remote(p)
    /\ p.all \ ToSet(acc.drop) \subseteq ToSet(acc.items) \union Rest(p, i)
    /\ Len(acc.items) + (Len(p.items) - i) - Cardinality(p.all \ ToSet(acc.drop)) =< acc.stales

SetLeft(acc, n) == [acc EXCEPT !.left = n]

LEMMA AppendFacts ==
    ASSUME NEW S, NEW s \in Seq(S), NEW t \in S
    PROVE  /\ Append(s, t) \in Seq(S) /\ Len(Append(s, t)) = Len(s) + 1
           /\ ToSet(Append(s, t)) = ToSet(s) \union {t}
<1>1. Append(s, t) \in Seq(S) /\ Len(Append(s, t)) = Len(s) + 1
  OBVIOUS
<1>2. \A i \in 1..(Len(s) + 1) : Append(s, t)[i] = IF i = Len(s) + 1 THEN t ELSE s[i]
  OBVIOUS
<1>3. DOMAIN Append(s, t) = 1..(Len(s) + 1) /\ DOMAIN s = 1..Len(s) /\ Len(s) \in Nat
  BY <1>1
<1>4. \A i \in 1..Len(s) : i \in 1..(Len(s) + 1) /\ i # Len(s) + 1
  BY <1>3
<1>5. Len(s) + 1 \in 1..(Len(s) + 1)
  BY <1>3
<1>6. \A i \in 1..(Len(s) + 1) : i = Len(s) + 1 \/ i \in 1..Len(s)
  BY <1>3
<1> QED BY <1>1, <1>2, <1>3, <1>4, <1>5, <1>6 DEF ToSet

\* Sizes, for the entries that are kept, seen, live and stale.
LEMMA AtMostBoth ==
    ASSUME NEW i \in Int, NEW n \in Int, NEW m \in Int, NEW b \in Int,
           NEW x \in Int, NEW y \in Int, b <= x + y, x <= m, y <= n - i
    PROVE  b <= m + (n - i)
OBVIOUS

LEMMA SomeStale ==
    ASSUME NEW i \in Int, NEW n \in Int, NEW m \in Int, NEW a \in Int, NEW b \in Int,
           NEW z \in Int, b <= m + (n - i), a <= b, m + (n - (i - 1)) - a <= z
    PROVE  z >= 1 /\ m + (n - i) - a <= z - 1
OBVIOUS

LEMMA SetLeftFacts ==
    ASSUME NEW p, NEW i, NEW acc, SieveOK(p, i, acc), NEW n \in Int
    PROVE  /\ SieveOK(p, i, SetLeft(acc, n)) /\ SetLeft(acc, n).left = n
           /\ SetLeft(acc, n).drop = acc.drop
<1> DEFINE x == SetLeft(acc, n)
<1>1. acc \in Accs
  BY DEF SieveOK
<1>2. x \in Accs /\ x.left = n /\ x.drop = acc.drop /\ x.items = acc.items /\ x.stales = acc.stales
  BY <1>1 DEF Accs, SetLeft
<1> HIDE DEF x
<1>3. SieveOK(p, i, x)
  BY <1>2 DEF SieveOK
<1> QED BY <1>2, <1>3 DEF x

\* The entry at i is the first of the rest.
LEMMA RestFacts ==
    ASSUME NEW p \in Pools, NEW i \in 1..Len(p.items)
    PROVE  /\ Rest(p, i - 1) = Rest(p, i) \union {p.items[i]}
           /\ p.items[i] \in Tx
           /\ IsFiniteSet(Rest(p, i)) /\ Cardinality(Rest(p, i)) \in Nat
           /\ Cardinality(Rest(p, i)) <= Len(p.items) - i
<1>1. p.items \in Seq(Tx) /\ Len(p.items) \in Nat
  BY PoolFields
<1>2. (i - 1 + 1)..Len(p.items) = ((i + 1)..Len(p.items)) \union {i}
  BY <1>1
<1>3. Rest(p, i - 1) = Rest(p, i) \union {p.items[i]}
  BY <1>2 DEF Rest
<1> DEFINE D == (i + 1)..Len(p.items)
           f == [j \in D |-> p.items[j]]
<1>4. IsFiniteSet(D) /\ Cardinality(D) = Len(p.items) - i
  <2>1. i + 1 \in Int /\ Len(p.items) \in Int /\ i <= Len(p.items) /\ i \in Int
    BY <1>1
  <2>2. IsFiniteSet(D)
        /\ Cardinality(D) = IF i + 1 > Len(p.items) THEN 0 ELSE Len(p.items) - (i + 1) + 1
    BY <2>1, FS_Interval
  <2> HIDE DEF D
  <2> QED BY <2>1, <2>2
<1>5. f \in Surjection(D, Rest(p, i))
  BY DEF Surjection, Rest
<1> HIDE DEF D, f
<1>6. IsFiniteSet(Rest(p, i)) /\ Cardinality(Rest(p, i)) <= Cardinality(D)
  BY <1>4, <1>5, FS_Surjection
<1>7. Cardinality(Rest(p, i)) \in Nat
  BY <1>6, FS_CardinalityType
<1> QED BY <1>1, <1>3, <1>4, <1>6, <1>7

\* The count of the entries that are kept or still to be seen, when one more
\* has been kept, and when one more has been taken out.
LEMMA CountKept ==
    ASSUME NEW k \in Nat, NEW l \in Nat, NEW i \in Nat, NEW m \in Nat, NEW n \in Nat, NEW z \in Nat,
           k + (l - (i - 1)) - m =< z, n >= m - 1
    PROVE  (k + 1) + (l - i) - m =< z /\ k + (l - i) - n =< z
OBVIOUS

LEMMA KeepFacts ==
    ASSUME NEW p \in Pools, NEW i \in 1..Len(p.items), NEW acc, SieveOK(p, i - 1, acc)
    PROVE  /\ SieveOK(p, i, Keep(acc, p.items[i])) /\ Keep(acc, p.items[i]).left = acc.left
           /\ Keep(acc, p.items[i]).drop = acc.drop
<1> DEFINE x == Keep(acc, p.items[i])
           t == p.items[i]
<1>1. acc \in Accs /\ t \in Tx /\ Rest(p, i - 1) = Rest(p, i) \union {t}
  BY RestFacts DEF SieveOK
<1> HIDE DEF t
<1>2. acc.items \in Seq(Tx)
  BY <1>1 DEF Accs
<1>3. /\ Append(acc.items, t) \in Seq(Tx) /\ Len(Append(acc.items, t)) = Len(acc.items) + 1
      /\ ToSet(Append(acc.items, t)) = ToSet(acc.items) \union {t}
  BY <1>1, <1>2, AppendFacts
<1>4. /\ x.items = Append(acc.items, t) /\ x.stales = acc.stales
      /\ x.drop = acc.drop /\ x.left = acc.left /\ x \in Accs
  BY <1>1, <1>3 DEF Accs, Keep, t
<1> HIDE DEF x
<1>5. ToSet(x.items) = ToSet(acc.items) \union {t} /\ Len(x.items) = Len(acc.items) + 1
  BY <1>3, <1>4
<1> DEFINE A == p.all \ ToSet(acc.drop)
<1>6. A \subseteq ToSet(x.items) \union Rest(p, i)
  BY <1>1, <1>5 DEF SieveOK
<1>7. Len(x.items) + (Len(p.items) - i) - Cardinality(A) =< acc.stales
  <2>1. Len(acc.items) \in Nat /\ Len(p.items) \in Nat /\ Cardinality(A) \in Nat /\ acc.stales \in Nat
    BY <1>1, PoolFields, TxFacts DEF Accs
  <2>2. Len(acc.items) + (Len(p.items) - (i - 1)) - Cardinality(A) =< acc.stales
    BY DEF SieveOK
  <2> DEFINE k == Len(acc.items)
             l == Len(p.items)
             m == Cardinality(A)
             z == acc.stales
  <2>3. k \in Nat /\ l \in Nat /\ i \in Nat /\ m \in Nat /\ z \in Nat
    BY <2>1
  <2>4. k + (l - (i - 1)) - m =< z
    BY <2>2
  <2> HIDE DEF k, l, m, z
  <2>5. (k + 1) + (l - i) - m =< z
    <3>1. m >= m - 1
      BY <2>3
    <3> QED BY <2>3, <2>4, <3>1, CountKept
  <2> QED BY <1>5, <2>5 DEF k, l, m, z
<1>8. ToSet(acc.drop) \subseteq Remote(p)
  BY DEF SieveOK
<1>9. SieveOK(p, i, x)
  BY <1>4, <1>6, <1>7, <1>8 DEF SieveOK
<1> QED BY <1>4, <1>9 DEF x, t

\* The counter of stale entries is not zero when one is found.
LEMMA PopStaleFacts ==
    ASSUME NEW p \in Pools, NEW i \in 1..Len(p.items), NEW acc, SieveOK(p, i - 1, acc),
           p.items[i] \notin p.all
    PROVE  /\ SieveOK(p, i, PopStale(acc)) /\ PopStale(acc).left = acc.left
           /\ PopStale(acc).drop = acc.drop
<1> DEFINE x == PopStale(acc)
           t == p.items[i]
           A == p.all \ ToSet(acc.drop)
           B == ToSet(acc.items) \union Rest(p, i)
<1>1. acc \in Accs /\ t \in Tx /\ Rest(p, i - 1) = Rest(p, i) \union {t}
  BY RestFacts DEF SieveOK
<1>2. A \subseteq B
  BY <1>1 DEF SieveOK
<1>3. acc.items \in Seq(Tx) /\ acc.stales \in Nat /\ Len(acc.items) \in Nat /\ Len(p.items) \in Nat
      /\ Cardinality(A) \in Nat
  BY <1>1, PoolFields, TxFacts DEF Accs
<1>4. IsFiniteSet(B) /\ Cardinality(B) \in Nat /\ Cardinality(B) <= Len(acc.items) + (Len(p.items) - i)
  <2>1. IsFiniteSet(ToSet(acc.items)) /\ Cardinality(ToSet(acc.items)) <= Len(acc.items)
        /\ Cardinality(ToSet(acc.items)) \in Nat
    BY <1>3, ToSetFacts
  <2>2. IsFiniteSet(Rest(p, i)) /\ Cardinality(Rest(p, i)) \in Nat
        /\ Cardinality(Rest(p, i)) <= Len(p.items) - i
    BY RestFacts
  <2>3. IsFiniteSet(B) /\ Cardinality(B) <= Cardinality(ToSet(acc.items)) + Cardinality(Rest(p, i))
    <3>1. IsFiniteSet(ToSet(acc.items) \intersect Rest(p, i))
      BY <2>1, FS_Intersection
    <3>2. Cardinality(ToSet(acc.items) \intersect Rest(p, i)) \in Nat
      BY <3>1, FS_CardinalityType
    <3>3. IsFiniteSet(B) /\ Cardinality(B) = Cardinality(ToSet(acc.items)) + Cardinality(Rest(p, i))
               - Cardinality(ToSet(acc.items) \intersect Rest(p, i))
      BY <2>1, <2>2, FS_Union
    <3> HIDE DEF B
    <3> QED BY <2>1, <2>2, <3>2, <3>3
  <2>4. Cardinality(B) \in Nat
    BY <2>3, FS_CardinalityType
  <2> HIDE DEF B
  <2>5. /\ i \in Int /\ Len(p.items) \in Int /\ Len(acc.items) \in Int /\ Cardinality(B) \in Int
        /\ Cardinality(ToSet(acc.items)) \in Int /\ Cardinality(Rest(p, i)) \in Int
    BY <1>3, <2>1, <2>2, <2>4
  <2>6. Cardinality(B) <= Len(acc.items) + (Len(p.items) - i)
    BY <2>1, <2>2, <2>3, <2>5, AtMostBoth, Zenon
  <2> QED BY <2>3, <2>4, <2>6
<1>5. Cardinality(A) <= Cardinality(B)
  <2> HIDE DEF A, B
  <2> QED BY <1>2, <1>4, FS_Subset
<1>6. Len(acc.items) + (Len(p.items) - (i - 1)) - Cardinality(A) =< acc.stales
  BY DEF SieveOK
<1>7. acc.stales >= 1 /\ Len(acc.items) + (Len(p.items) - i) - Cardinality(A) =< acc.stales - 1
  <2> HIDE DEF A, B, x, t
  <2>1. /\ i \in Int /\ Len(p.items) \in Int /\ Len(acc.items) \in Int /\ Cardinality(A) \in Int
        /\ Cardinality(B) \in Int /\ acc.stales \in Int
    BY <1>3, <1>4
  <2> QED BY <2>1, <1>4, <1>5, <1>6, SomeStale, Zenon
<1>8. x \in Accs /\ x.stales = acc.stales - 1 /\ x.items = acc.items /\ x.drop = acc.drop /\ x.left = acc.left
  <2>1. acc.stales - 1 \in Nat
    BY <1>3, <1>7
  <2> QED BY <1>1, <2>1 DEF Accs, PopStale
<1> HIDE DEF x
<1>9. SieveOK(p, i, x)
  <2>1. ToSet(acc.drop) \subseteq Remote(p)
    BY DEF SieveOK
  <2> QED BY <2>1, <1>2, <1>7, <1>8 DEF SieveOK
<1> QED BY <1>8, <1>9 DEF x

LEMMA PopLiveFacts ==
    ASSUME NEW p \in Pools, NEW i \in 1..Len(p.items), NEW acc, SieveOK(p, i - 1, acc),
           p.items[i] \in Remote(p)
    PROVE  /\ SieveOK(p, i, PopLive(acc, p.items[i])) /\ PopLive(acc, p.items[i]).left = acc.left
           /\ ToSet(PopLive(acc, p.items[i]).drop) = ToSet(acc.drop) \union {p.items[i]}
<1> DEFINE x == PopLive(acc, p.items[i])
           t == p.items[i]
           A == p.all \ ToSet(acc.drop)
           B == p.all \ (ToSet(acc.drop) \union {t})
<1>1. acc \in Accs /\ t \in Tx /\ Rest(p, i - 1) = Rest(p, i) \union {t}
  BY RestFacts DEF SieveOK
<1> HIDE DEF t
<1>2. acc.drop \in Seq(Tx) /\ acc.stales \in Nat /\ Len(acc.items) \in Nat /\ Len(p.items) \in Nat
      /\ Cardinality(A) \in Nat /\ Cardinality(B) \in Nat /\ IsFiniteSet(A)
  <2>1. A \in SUBSET Tx /\ B \in SUBSET Tx /\ p.items \in Seq(Tx)
    BY PoolFields
  <2>2. acc.drop \in Seq(Tx) /\ acc.stales \in Nat /\ acc.items \in Seq(Tx)
    BY <1>1 DEF Accs
  <2> HIDE DEF A, B
  <2>3. Cardinality(A) \in Nat /\ Cardinality(B) \in Nat /\ IsFiniteSet(A)
    BY <2>1, TxFacts
  <2> QED BY <2>1, <2>2, <2>3
<1>3. Append(acc.drop, t) \in Seq(Tx) /\ ToSet(Append(acc.drop, t)) = ToSet(acc.drop) \union {t}
  BY <1>1, <1>2, AppendFacts
<1>4. /\ x.items = acc.items /\ x.stales = acc.stales
      /\ x.drop = Append(acc.drop, t) /\ x.left = acc.left /\ x \in Accs
  BY <1>1, <1>3 DEF Accs, PopLive, t
<1> HIDE DEF x
<1>5. Cardinality(B) >= Cardinality(A) - 1
  <2>1. B = A \ {t}
    OBVIOUS
  <2> HIDE DEF A, B
  <2>2. Cardinality(A \ {t}) = IF t \in A THEN Cardinality(A) - 1 ELSE Cardinality(A)
    BY <1>2, FS_RemoveElement
  <2> QED BY <1>2, <2>1, <2>2
<1>6. Len(acc.items) + (Len(p.items) - (i - 1)) - Cardinality(A) =< acc.stales
  BY DEF SieveOK
<1>7. Len(acc.items) + (Len(p.items) - i) - Cardinality(B) =< acc.stales
  <2> DEFINE k == Len(acc.items)
             l == Len(p.items)
             m == Cardinality(A)
             n == Cardinality(B)
             z == acc.stales
  <2>1. k \in Nat /\ l \in Nat /\ i \in Nat /\ m \in Nat /\ n \in Nat /\ z \in Nat
    BY <1>2
  <2>2. k + (l - (i - 1)) - m =< z /\ n >= m - 1
    BY <1>5, <1>6
  <2> HIDE DEF k, l, m, n, z
  <2>3. k + (l - i) - n =< z
    BY <2>1, <2>2, CountKept
  <2> QED BY <2>3 DEF k, l, n, z
<1>8. B \subseteq ToSet(acc.items) \union Rest(p, i)
  BY <1>1 DEF SieveOK
<1>9. ToSet(x.drop) = ToSet(acc.drop) \union {t}
  BY <1>3, <1>4
<1>10. ToSet(x.drop) \subseteq Remote(p)
  BY <1>9 DEF SieveOK, t
<1>11. SieveOK(p, i, x)
  BY <1>4, <1>7, <1>8, <1>9, <1>10 DEF SieveOK
<1> QED BY <1>4, <1>9, <1>11 DEF x, t

LEMMA SieveFacts ==
    ASSUME NEW p \in Pools, Priced(p), NEW n \in Int
    PROVE  SieveOK(p, 0, Sieve(p, n)) /\ Sieve(p, n).left = n /\ Sieve(p, n).drop = <<>>
<1> DEFINE x == Sieve(p, n)
<1>1. p.items \in Seq(Tx) /\ p.stales \in Nat
  BY PoolFields
<1>2. x \in Accs /\ x.items = <<>> /\ x.stales = p.stales /\ x.drop = <<>> /\ x.left = n
  BY <1>1 DEF Sieve, Accs
<1> HIDE DEF x
<1>3. ToSet(<<>>) = {} /\ Len(<<>>) = 0
  BY DEF ToSet
<1>4. Rest(p, 0) = ToSet(p.items)
  <2>1. (0 + 1)..Len(p.items) = DOMAIN p.items
    BY <1>1
  <2> QED BY <2>1 DEF Rest, ToSet
<1>5. p.all \ ToSet(x.drop) = p.all
  BY <1>2, <1>3
<1>6. Len(x.items) + (Len(p.items) - 0) - Cardinality(p.all) =< x.stales
  <2>1. Len(p.items) \in Nat /\ Cardinality(p.all) \in Nat
    BY <1>1, PoolFields, TxFacts
  <2> QED BY <1>1, <1>2, <1>3, <2>1 DEF Priced, PricedFor
<1>7. SieveOK(p, 0, x)
  BY <1>2, <1>3, <1>4, <1>5, <1>6 DEF SieveOK, Priced, PricedFor
<1> QED BY <1>2, <1>7 DEF x

\* What a loop over the priced list of p has found, when it has ended.
Found(p, acc) ==
    /\ acc \in Accs
    /\ ToSet(acc.drop) \subseteq Remote(p)
    /\ p.all \ ToSet(acc.drop) \subseteq ToSet(acc.items)
    /\ Len(acc.items) - Cardinality(p.all \ ToSet(acc.drop)) =< acc.stales

LEMMA SieveEnds ==
    ASSUME NEW p \in Pools, NEW acc, SieveOK(p, Len(p.items), acc)
    PROVE  Found(p, acc)
<1>1. acc \in Accs /\ Len(p.items) \in Nat /\ Len(acc.items) \in Nat
      /\ Cardinality(p.all \ ToSet(acc.drop)) \in Nat
  BY PoolFields, TxFacts DEF SieveOK, Accs
<1>2. Rest(p, Len(p.items)) = {}
  BY <1>1 DEF Rest
<1>3. Len(acc.items) + (Len(p.items) - Len(p.items)) = Len(acc.items)
  BY <1>1
<1> QED BY <1>1, <1>2, <1>3 DEF SieveOK, Found

LEMMA SievedFacts ==
    ASSUME NEW p \in Pools, NEW acc \in Accs
    PROVE  /\ Sieved(p, acc) \in Pools /\ Sieved(p, acc).items = acc.items
           /\ Sieved(p, acc).stales = acc.stales /\ Sieved(p, acc).all = p.all
           /\ SameLists(p, Sieved(p, acc)) /\ SameRest(p, Sieved(p, acc))
<1>1. Sieved(p, acc) = SetHeap(p, acc.stales, acc.items)
  BY DEF Sieved, SetHeap, Pools
<1>2. acc.items \in Seq(Tx) /\ acc.stales \in Nat
  BY DEF Accs
<1> QED BY <1>1, <1>2, SetHeapFacts

\* What was found leaves the pool.
LEMMA DropFoundFacts ==
    ASSUME NEW p, Sound(p), NEW acc, Found(p, acc)
    PROVE  LET r == DropFound(p, acc)
           IN  Sound(r) /\ r.all = p.all \ ToSet(acc.drop) /\ Left(p, r)
<1> DEFINE r == DropFound(p, acc)
           q == Sieved(p, acc)
<1>1. p \in Pools /\ acc \in Accs /\ acc.drop \in Seq(Tx)
  BY DEF Sound, Agree, Found, Accs
<1>2. q \in Pools /\ q.items = acc.items /\ q.stales = acc.stales /\ q.all = p.all
      /\ SameLists(p, q) /\ SameRest(p, q)
  BY <1>1, SievedFacts
<1>3. r = RemoveTxs(q, acc.drop, FALSE)
  BY DEF DropFound
<1> HIDE DEF q, r
<1>4. Agree(q) /\ Left(p, q)
  <2>1. Agree(q)
    BY <1>2 DEF Sound, Agree, SameLists
  <2>2. Executes(p, q)
    BY <1>2, SameExec DEF SameRest, SameLists
  <2>3. Left(p, q)
    BY <1>2, <2>2 DEF Left, Steady, SameRest, SameLists, Free
  <2> QED BY <2>1, <2>3
<1>5. Agree(r) /\ r.all = q.all \ ToSet(acc.drop) /\ Left(q, r) /\ SameHeap(q, r)
  BY <1>1, <1>3, <1>4, DropTxsFacts
<1>6. r.all = p.all \ ToSet(acc.drop) /\ r.items = acc.items /\ r.stales = acc.stales
  BY <1>2, <1>5 DEF SameHeap
<1>7. Priced(r)
  BY <1>6 DEF Priced, PricedFor, Found
<1>8. Left(p, r)
  BY <1>4, <1>5, LeftFacts
<1> QED BY <1>5, <1>6, <1>7, <1>8 DEF Sound, r

Capping == INSTANCE Loops WITH Step <- CapStep, Inv <- SieveOK

LEMMA CapPriceFacts ==
    ASSUME NEW p \in Pools, Priced(p)
    PROVE  Found(p, CapPrice(p))
<1> DEFINE b == Sieve(p, 1)
           r == Capping!Fold(p, b, p.items)
<1>1. CapPrice(p) = r
  BY Zenon DEF CapPrice, FoldLeft, MapThenFoldSet, Max, Capping!Fold, Capping!Highest
<1>2. SieveOK(p, 0, b)
  BY SieveFacts
<1>3. ASSUME NEW i \in 1..Len(p.items), NEW acc, SieveOK(p, i - 1, acc)
      PROVE  SieveOK(p, i, CapStep(p, acc, p.items[i]))
  <2> DEFINE t == p.items[i]
             k == Keep(acc, t)
  <2>1. SieveOK(p, i, k)
    BY <1>3, KeepFacts
  <2>2. SieveOK(p, i, SetLeft(k, 0))
    <3> HIDE DEF k
    <3> QED BY <2>1, SetLeftFacts
  <2>3. CASE acc.left = 0
    BY <2>1, <2>3 DEF CapStep
  <2>4. CASE acc.left # 0 /\ t \notin p.all
    <3>1. SieveOK(p, i, PopStale(acc))
      BY <1>3, <2>4, PopStaleFacts
    <3> QED BY <3>1, <2>4 DEF CapStep
  <2>5. CASE acc.left # 0 /\ t \in p.all /\ t.price >= p.gasPrice
    BY <2>2, <2>5 DEF CapStep, SetLeft
  <2>6. CASE acc.left # 0 /\ t \in p.all /\ ~(t.price >= p.gasPrice) /\ containsTx(p, t)
    BY <2>1, <2>6 DEF CapStep
  <2>7. CASE acc.left # 0 /\ t \in p.all /\ ~(t.price >= p.gasPrice) /\ ~containsTx(p, t)
    <3>1. t \in Remote(p)
      BY <2>7 DEF containsTx, Remote
    <3>2. SieveOK(p, i, PopLive(acc, t))
      BY <1>3, <3>1, PopLiveFacts
    <3> QED BY <3>2, <2>7 DEF CapStep
  <2> QED BY <2>3, <2>4, <2>5, <2>6, <2>7
<1>4. SieveOK(p, Len(p.items), r)
  <2>1. \A i \in 1..Len(p.items) : \A x : SieveOK(p, i - 1, x) => SieveOK(p, i, CapStep(p, x, p.items[i]))
    BY <1>3
  <2>2. p.items \in Seq(Tx)
    BY PoolFields
  <2> HIDE DEF b
  <2> QED BY <1>2, <2>1, <2>2, Capping!LoopRule
<1> QED BY <1>1, <1>4, SieveEnds

SkipInv(p, i, acc) == SieveOK(p, i, acc) /\ acc.drop = <<>>

Skipping == INSTANCE Loops WITH Step <- SkipStep, Inv <- SkipInv

LEMMA SkipStaleFacts ==
    ASSUME NEW p, Sound(p)
    PROVE  /\ Sound(SkipStale(p)) /\ SkipStale(p).all = p.all /\ Left(p, SkipStale(p))
           /\ SameLists(p, SkipStale(p)) /\ SameRest(p, SkipStale(p))
<1> DEFINE b == Sieve(p, 1)
           r == Skipping!Fold(p, b, p.items)
<1>0. p \in Pools /\ Priced(p)
  BY DEF Sound, Agree
<1>1. SkipStale(p) = Sieved(p, r)
  BY Zenon DEF SkipStale, FoldLeft, MapThenFoldSet, Max, Skipping!Fold, Skipping!Highest
<1>2. SkipInv(p, 0, b)
  BY <1>0, SieveFacts DEF SkipInv
<1>3. ASSUME NEW i \in 1..Len(p.items), NEW acc, SkipInv(p, i - 1, acc)
      PROVE  SkipInv(p, i, SkipStep(p, acc, p.items[i]))
  <2> DEFINE t == p.items[i]
             k == Keep(acc, t)
  <2>0. SieveOK(p, i - 1, acc) /\ acc.drop = <<>>
    BY <1>3 DEF SkipInv
  <2>1. SieveOK(p, i, k) /\ k.drop = <<>>
    BY <1>0, <2>0, KeepFacts
  <2>2. SieveOK(p, i, SetLeft(k, 0)) /\ SetLeft(k, 0).drop = <<>>
    <3> HIDE DEF k
    <3>1. 0 \in Int
      OBVIOUS
    <3>2. SieveOK(p, i, SetLeft(k, 0)) /\ SetLeft(k, 0).drop = k.drop
      BY <2>1, <3>1, SetLeftFacts, Zenon
    <3> QED BY <2>1, <3>2
  <2>3. CASE acc.left = 0
    BY <2>1, <2>3 DEF SkipStep, SkipInv
  <2>4. CASE acc.left # 0 /\ t \notin p.all
    <3>1. SieveOK(p, i, PopStale(acc)) /\ PopStale(acc).drop = <<>>
      BY <1>0, <2>0, <2>4, PopStaleFacts
    <3> QED BY <3>1, <2>4 DEF SkipStep, SkipInv
  <2>5. CASE acc.left # 0 /\ t \in p.all
    BY <2>2, <2>5 DEF SkipStep, SetLeft, SkipInv
  <2> QED BY <2>3, <2>4, <2>5
<1>4. SkipInv(p, Len(p.items), r)
  <2>1. \A i \in 1..Len(p.items) : \A x : SkipInv(p, i - 1, x) => SkipInv(p, i, SkipStep(p, x, p.items[i]))
    BY <1>3
  <2>2. p.items \in Seq(Tx)
    BY <1>0, PoolFields
  <2> HIDE DEF b
  <2> QED BY <1>2, <2>1, <2>2, Skipping!LoopRule
<1> HIDE DEF r
<1>5. Found(p, r) /\ r.drop = <<>> /\ r \in Accs
  BY <1>0, <1>4, SieveEnds DEF SkipInv, Found
<1> DEFINE q == SkipStale(p)
<1>6. q \in Pools /\ q.items = r.items /\ q.stales = r.stales /\ q.all = p.all
      /\ SameLists(p, q) /\ SameRest(p, q)
  BY <1>0, <1>1, <1>5, SievedFacts
<1> HIDE DEF q
<1>7. p.all \ ToSet(r.drop) = p.all
  BY <1>5 DEF ToSet
<1>8. Priced(q)
  BY <1>5, <1>6, <1>7 DEF Priced, PricedFor, Found
<1>9. Sound(q)
  BY <1>6, <1>8 DEF Sound, Agree, SameLists
<1>10. Left(p, q)
  <2>1. Executes(p, q)
    BY <1>6, SameExec DEF SameRest, SameLists
  <2> QED BY <1>6, <2>1 DEF Left, Steady, SameRest, SameLists, Free
<1> QED BY <1>6, <1>9, <1>10 DEF q

\* As long as Discard has found nothing in a pool without local accounts,
\* it has seen no live entry, and looks on.
DiscardInv(p, i, acc) ==
    /\ SieveOK(p, i, acc)
    /\ p.locals = {} =>
          \/ ToSet(acc.drop) # {}
          \/ acc.left > 0 /\ \A j \in 1..i : p.items[j] \notin p.all

Discarding == INSTANCE Loops WITH Step <- DiscardStep, Inv <- DiscardInv

LEMMA DiscardFacts ==
    ASSUME NEW p \in Pools, Priced(p), NEW n \in Nat, n > 0
    PROVE  /\ Found(p, Discard(p, n))
           /\ p.locals = {} /\ p.all # {} => ToSet(Discard(p, n).drop) # {}
<1> DEFINE b == Sieve(p, n)
           r == Discarding!Fold(p, b, p.items)
<1>1. Discard(p, n) = r
  BY Zenon DEF Discard, FoldLeft, MapThenFoldSet, Max, Discarding!Fold, Discarding!Highest
<1>2. DiscardInv(p, 0, b)
  <2>1. SieveOK(p, 0, b) /\ b.left = n
    BY SieveFacts
  <2> HIDE DEF b
  <2> QED BY <2>1 DEF DiscardInv
<1>3. ASSUME NEW i \in 1..Len(p.items), NEW acc, DiscardInv(p, i - 1, acc)
      PROVE  DiscardInv(p, i, DiscardStep(p, acc, p.items[i]))
  <2> DEFINE t == p.items[i]
             k == Keep(acc, t)
  <2>0. SieveOK(p, i - 1, acc) /\ acc.left \in Int
    BY <1>3 DEF DiscardInv, SieveOK, Accs
  <2>1. SieveOK(p, i, k) /\ k.drop = acc.drop /\ k.left = acc.left
    BY <2>0, KeepFacts
  <2>2. \A j \in 1..i : j \in 1..(i - 1) \/ j = i
    OBVIOUS
  <2>3. CASE acc.left =< 0
    <3>1. p.locals = {} => ToSet(acc.drop) # {}
      BY <2>0, <2>3, <1>3 DEF DiscardInv
    <3> QED BY <2>1, <2>3, <3>1 DEF DiscardStep, DiscardInv
  <2>4. CASE ~(acc.left =< 0) /\ t \notin p.all
    <3> DEFINE x == PopStale(acc)
    <3>1. SieveOK(p, i, x) /\ x.drop = acc.drop /\ x.left = acc.left
      BY <2>0, <2>4, PopStaleFacts
    <3>2. DiscardStep(p, acc, t) = x
      BY <2>4 DEF DiscardStep
    <3> HIDE DEF x
    <3>3. p.locals = {} => \/ ToSet(x.drop) # {}
                           \/ x.left > 0 /\ \A j \in 1..i : p.items[j] \notin p.all
      BY <3>1, <1>3, <2>2, <2>4 DEF DiscardInv
    <3> QED BY <3>1, <3>2, <3>3 DEF DiscardInv
  <2>5. CASE ~(acc.left =< 0) /\ t \in p.all /\ containsTx(p, t)
    <3>1. p.locals # {}
      BY <2>5 DEF containsTx
    <3>2. DiscardStep(p, acc, t) = k
      BY <2>5 DEF DiscardStep
    <3> HIDE DEF k
    <3> QED BY <2>1, <3>1, <3>2 DEF DiscardInv
  <2>6. CASE ~(acc.left =< 0) /\ t \in p.all /\ ~containsTx(p, t)
    <3> DEFINE x == PopLive(acc, t)
    <3>1. t \in Remote(p)
      BY <2>6 DEF containsTx, Remote
    <3>2. SieveOK(p, i, x) /\ ToSet(x.drop) = ToSet(acc.drop) \union {t} /\ x.left = acc.left
      BY <2>0, <3>1, PopLiveFacts
    <3>3. DiscardStep(p, acc, t) = SetLeft(x, x.left - 1)
      BY <2>6 DEF DiscardStep, SetLeft
    <3> HIDE DEF x
    <3>4. x.left - 1 \in Int
      BY <2>0, <3>2
    <3> DEFINE y == SetLeft(x, x.left - 1)
    <3>5. SieveOK(p, i, y) /\ y.drop = x.drop
      BY <3>2, <3>4, SetLeftFacts
    <3> HIDE DEF y
    <3>6. ToSet(y.drop) # {}
      BY <3>2, <3>5
    <3>7. DiscardInv(p, i, y)
      BY <3>5, <3>6 DEF DiscardInv
    <3> QED BY <3>3, <3>7 DEF y
  <2> QED BY <2>3, <2>4, <2>5, <2>6
<1>4. p.items \in Seq(Tx)
  BY PoolFields
<1>5. DiscardInv(p, Len(p.items), r)
  <2>1. \A i \in 1..Len(p.items) : \A x : DiscardInv(p, i - 1, x) => DiscardInv(p, i, DiscardStep(p, x, p.items[i]))
    BY <1>3
  <2> HIDE DEF b
  <2> QED BY <1>2, <1>4, <2>1, Discarding!LoopRule
<1> HIDE DEF r
<1>6. Found(p, r)
  BY <1>5, SieveEnds DEF DiscardInv
<1>7. p.locals = {} /\ p.all # {} => ToSet(r.drop) # {}
  <2>1. p.all # {} => \E j \in 1..Len(p.items) : p.items[j] \in p.all
    BY <1>4 DEF Priced, PricedFor, ToSet
  <2> QED BY <1>5, <2>1 DEF DiscardInv
<1> QED BY <1>1, <1>6, <1>7

-----------------------------------------------------------------------------
(* Adding *)

LEMMA EnlistFacts ==
    ASSUME NEW p \in Pools, Priced(p), NEW t \in Tx
    PROVE  /\ Enlist(p, t) \in Pools /\ Priced(Enlist(p, t))
           /\ Enlist(p, t).all = p.all \union {t}
           /\ SameLists(p, Enlist(p, t)) /\ SameRest(p, Enlist(p, t))
<1>1. CASE t \in p.all
  <2>1. Enlist(p, t) = p /\ p.all \union {t} = p.all
    BY <1>1 DEF Enlist
  <2> QED BY <2>1 DEF SameLists, SameRest
<1>2. CASE t \notin p.all
  <2> DEFINE q == SetAll(p, p.all \union {t})
             s == Push(p.items, t)
             r == SetHeap(q, p.stales, s)
  <2>0. p.items \in Seq(Tx) /\ p.stales \in Nat /\ p.all \in SUBSET Tx /\ p.all \union {t} \in SUBSET Tx
        /\ IsFiniteSet(p.all) /\ Cardinality(p.all) \in Nat /\ Len(p.items) \in Nat
    BY PoolFields, TxFacts
  <2>1. q \in Pools /\ q.all = p.all \union {t} /\ SameHeap(p, q) /\ SameLists(p, q) /\ SameRest(p, q)
    BY <2>0, SetAllFacts
  <2>2. s \in Seq(Tx) /\ Len(s) = Len(p.items) + 1 /\ ToSet(s) = ToSet(p.items) \union {t}
    BY <2>0, PushFacts
  <2>3. Enlist(p, t) = r
    <3>1. Enlist(p, t) = Put(q, t)
      BY <1>2 DEF Enlist, SetAll
    <3> HIDE DEF q
    <3>2. Put(q, t) = SetHeap(q, q.stales, Push(q.items, t))
      BY <2>1 DEF Put, SetHeap, Pools
    <3> QED BY <3>1, <3>2, <2>1 DEF SameHeap
  <2> HIDE DEF q, s
  <2>4. r \in Pools /\ r.items = s /\ r.stales = p.stales /\ r.all = q.all
        /\ SameLists(q, r) /\ SameRest(q, r)
    <3>1. q \in Pools /\ s \in Seq(Tx) /\ p.stales \in Nat
      BY <2>0, <2>1, <2>2
    <3> QED BY <3>1, SetHeapFacts
  <2> HIDE DEF r
  <2>5. Cardinality(p.all \union {t}) = Cardinality(p.all) + 1
    BY <1>2, <2>0, FS_AddElement
  <2>6. Priced(r)
    <3>1. Len(p.items) - Cardinality(p.all) =< p.stales /\ p.all \subseteq ToSet(p.items)
      BY DEF Priced, PricedFor
    <3>2. Len(p.items) + 1 - (Cardinality(p.all) + 1) =< p.stales
      BY <3>1, <2>0
    <3>3. Len(r.items) = Len(p.items) + 1 /\ Cardinality(r.all) = Cardinality(p.all) + 1
          /\ r.stales = p.stales
      BY <2>1, <2>2, <2>4, <2>5, Zenon
    <3>5. Len(r.items) - Cardinality(r.all) =< r.stales
      BY <2>0, <3>2, <3>3
    <3>4. r.all \subseteq ToSet(r.items)
      BY <3>1, <2>1, <2>2, <2>4
    <3> QED BY <3>4, <3>5 DEF Priced, PricedFor
  <2> QED BY <2>1, <2>3, <2>4, <2>6 DEF SameLists, SameRest
<1> QED BY <1>1, <1>2

\* The lists x and y are those of p with t in the place of old.
Swaps(p, t, x, y, old) ==
    /\ x \in SUBSET Tx /\ y \in SUBSET Tx /\ x \intersect y = {}
    /\ old = Overlapping(p.all, t)
    /\ x \union y = (p.all \ old) \union {t}

\* A new transaction takes the place, in the lists and in the lookup, of the
\* one that has its nonce.
LEMMA SwapFacts ==
    ASSUME NEW p, Sound(p), NEW t \in Tx, NEW x, NEW y, NEW old, Swaps(p, t, x, y, old),
           NEW r, r = Enlist(ForgetAll(SetLists(p, x, y), old), t)
    PROVE  /\ Sound(r) /\ r.pending = x /\ r.queue = y
           /\ r.all = (p.all \ old) \union {t}
           /\ SameRest(p, r)
<1> DEFINE p1 == SetLists(p, x, y)
           p2 == ForgetAll(p1, old)
<1>0. p \in Pools /\ Unique(p.all) /\ Priced(p)
  BY DEF Sound, Agree
<1>1. p1 \in Pools /\ p1.pending = x /\ p1.queue = y /\ p1.all = p.all
      /\ SameHeap(p, p1) /\ SameRest(p, p1)
  <2>1. x \in SUBSET Tx /\ y \in SUBSET Tx
    BY DEF Swaps
  <2> QED BY <1>0, <2>1, SetListsFacts
<1>2. old \in SUBSET Of(p.all, t.from)
  BY DEF Overlapping, Of, Swaps
<1>3. Unique((p.all \ old) \union {t})
  BY <1>0 DEF Unique, Overlapping, Swaps
<1> HIDE DEF p1
<1>4. Priced(p1)
  BY <1>0, <1>1 DEF Priced, PricedFor, SameHeap
<1>5. p2 \in Pools /\ Priced(p2) /\ p2.all = p.all \ old /\ SameLists(p1, p2) /\ SameRest(p1, p2)
  BY <1>0, <1>1, <1>2, <1>4, ForgetAllFacts
<1>6. r \in Pools /\ Priced(r) /\ r.all = p2.all \union {t} /\ SameLists(p2, r) /\ SameRest(p2, r)
  <2>1. r = Enlist(p2, t)
    BY DEF p1, p2
  <2> HIDE DEF p2
  <2> QED BY <2>1, <1>5, EnlistFacts
<1> HIDE DEF p2
<1>7. r.pending = x /\ r.queue = y /\ r.all = (p.all \ old) \union {t}
  BY <1>1, <1>5, <1>6 DEF SameLists
<1>8. SameRest(p, r)
  BY <1>1, <1>5, <1>6 DEF SameRest
<1>9. Sound(r)
  BY <1>3, <1>6, <1>7 DEF Sound, Agree, Swaps
<1> QED BY <1>7, <1>8, <1>9

\* The nonce of a transaction is taken in one list only.
LEMMA OverlappingFacts ==
    ASSUME NEW p, Sound(p), NEW t \in Tx
    PROVE  /\ Overlapping(p.all, t) = Overlapping(p.pending, t) \union Overlapping(p.queue, t)
           /\ \A u, v \in Overlapping(p.all, t) : u = v
           /\ Overlapping(p.pending, t) # {} => Overlapping(p.queue, t) = {}
<1>1. p.all = p.pending \union p.queue /\ p.pending \intersect p.queue = {} /\ Unique(p.all)
  BY DEF Sound, Agree
<1>2. \A u, v \in Overlapping(p.all, t) : u = v
  BY <1>1 DEF Overlapping, Unique
<1>3. Overlapping(p.all, t) = Overlapping(p.pending, t) \union Overlapping(p.queue, t)
  BY <1>1 DEF Overlapping
<1>4. \A u : ~(u \in Overlapping(p.pending, t) /\ u \in Overlapping(p.queue, t))
  BY <1>1 DEF Overlapping
<1> QED BY <1>2, <1>3, <1>4

LEMMA EnqueueNew ==
    ASSUME NEW p, Sound(p), NEW t \in Tx, t \notin p.all,
           Overlapping(p.pending, t) = {}, Accepts(p.queue, t)
    PROVE  LET r == enqueueTx(p, t)
               old == Overlapping(p.queue, t)
           IN  /\ Sound(r) /\ r.pending = p.pending /\ r.queue = (p.queue \ old) \union {t}
               /\ r.all = (p.all \ old) \union {t}
               /\ SameRest(p, r)
<1> DEFINE r == enqueueTx(p, t)
           old == Overlapping(p.queue, t)
           x == p.pending
           y == (p.queue \ old) \union {t}
<1>0. p \in Pools /\ p.all = p.pending \union p.queue /\ p.pending \intersect p.queue = {}
  BY DEF Sound, Agree
<1>1. old = Overlapping(p.all, t) /\ old \intersect p.pending = {}
  BY OverlappingFacts, <1>0 DEF Overlapping
<1>2. r = Enlist(ForgetAll(SetLists(p, x, y), old), t)
  BY <1>0, SetOneList DEF enqueueTx
<1>3. x \in SUBSET Tx /\ y \in SUBSET Tx
  BY <1>0, PoolFields
<1>4. x \union y = (p.all \ old) \union {t} /\ x \intersect y = {}
  BY <1>0, <1>1
<1> HIDE DEF x, y, old, r
<1>6. Swaps(p, t, x, y, old)
  BY <1>1, <1>3, <1>4 DEF Swaps
<1>5. /\ Sound(r) /\ r.pending = x /\ r.queue = y /\ r.all = (p.all \ old) \union {t}
      /\ SameRest(p, r)
  BY <1>2, <1>6, SwapFacts
<1> QED BY <1>5 DEF x, y, old, r

\* The accounts that are local, and the journal.
SetBook(p, l, j) == [p EXCEPT !.locals = l, !.journal = j]

LEMMA SetBookFacts ==
    ASSUME NEW p \in Pools, NEW l \in SUBSET Addr, NEW j \in Seq(Tx)
    PROVE  LET r == SetBook(p, l, j)
           IN  /\ r \in Pools /\ r.all = p.all /\ r.locals = l /\ r.journal = j
               /\ SameHeap(p, r) /\ SameLists(p, r) /\ r.pendingState = p.pendingState
               /\ r.currentState = p.currentState /\ r.gasPrice = p.gasPrice
               /\ r.beats = p.beats
<1> DEFINE r == SetBook(p, l, j)
<1> USE DEF SetBook
<1>1. r \in Pools
  BY DEF Pools
<1>2. r.all = p.all /\ r.locals = l /\ r.journal = j
  BY DEF Pools
<1>3. SameHeap(p, r) /\ SameLists(p, r)
  BY DEF Pools, SameHeap, SameLists
<1>4. r.pendingState = p.pendingState /\ r.currentState = p.currentState
      /\ r.gasPrice = p.gasPrice /\ r.beats = p.beats
  BY DEF Pools
<1> QED BY <1>1, <1>2, <1>3, <1>4

LEMMA ContainsFacts ==
    ASSUME NEW S, NEW s \in Seq(S), NEW t
    PROVE  Contains(s, t) <=> t \in ToSet(s)
<1>1. DOMAIN s = 1..Len(s)
  OBVIOUS
<1> QED BY <1>1 DEF Contains, ToSet

LEMMA JournalFacts ==
    ASSUME NEW p, Sound(p), NEW t \in Tx, NEW l \in SUBSET Addr
    PROVE  LET r == journalTx([p EXCEPT !.locals = l], t)
           IN  /\ Sound(r) /\ r.all = p.all /\ SameLists(p, r)
               /\ r.pendingState = p.pendingState /\ r.currentState = p.currentState
               /\ r.gasPrice = p.gasPrice /\ r.locals = l
               /\ ToSet(p.journal) \subseteq ToSet(r.journal)
               /\ t.from \in l => t \in ToSet(r.journal)
<1> DEFINE q == [p EXCEPT !.locals = l]
           j == IF t.from \in l /\ ~Contains(p.journal, t) THEN Append(p.journal, t) ELSE p.journal
           r == SetBook(p, l, j)
<1>0. p \in Pools /\ p.journal \in Seq(Tx)
  BY PoolFields DEF Sound, Agree
<1>1. q.locals = l /\ q.journal = p.journal
  BY <1>0 DEF Pools
<1>2. journalTx(q, t) = r
  <2>1. CASE t.from \in l /\ ~Contains(p.journal, t)
    BY <1>0, <1>1, <2>1 DEF journalTx, SetBook, Pools
  <2>2. CASE ~(t.from \in l /\ ~Contains(p.journal, t))
    BY <1>0, <1>1, <2>2 DEF journalTx, SetBook, Pools
  <2> QED BY <2>1, <2>2
<1>3. /\ j \in Seq(Tx) /\ ToSet(p.journal) \subseteq ToSet(j)
      /\ t.from \in l => t \in ToSet(j)
  <2>1. Append(p.journal, t) \in Seq(Tx) /\ ToSet(Append(p.journal, t)) = ToSet(p.journal) \union {t}
    BY <1>0, AppendFacts
  <2>2. Contains(p.journal, t) <=> t \in ToSet(p.journal)
    BY <1>0, ContainsFacts
  <2> QED BY <1>0, <2>1, <2>2
<1> HIDE DEF q, j
<1>4. /\ r \in Pools /\ r.all = p.all /\ r.locals = l /\ r.journal = j
      /\ SameHeap(p, r) /\ SameLists(p, r) /\ r.pendingState = p.pendingState
      /\ r.currentState = p.currentState /\ r.gasPrice = p.gasPrice
  BY <1>0, <1>3, SetBookFacts
<1> HIDE DEF r
<1>5. Sound(r)
  BY <1>4 DEF Sound, Agree, Priced, PricedFor, SameHeap, SameLists
<1> QED BY <1>2, <1>3, <1>4, <1>5 DEF q

Booked(p, l, t) == journalTx([p EXCEPT !.locals = l], t)

LEMMA BookedFacts ==
    ASSUME NEW p, Sound(p), NEW t \in Tx, NEW l \in SUBSET Addr, NEW r, r = Booked(p, l, t)
    PROVE  /\ Sound(r) /\ r.all = p.all /\ SameLists(p, r)
           /\ r.pendingState = p.pendingState /\ r.currentState = p.currentState
           /\ r.gasPrice = p.gasPrice /\ r.locals = l
           /\ ToSet(p.journal) \subseteq ToSet(r.journal)
           /\ t.from \in l => t \in ToSet(r.journal)
BY JournalFacts DEF Booked

\* No account has more pending transactions in q than in p.
Slim(p, q) ==
    /\ Cardinality(q.pending) <= Cardinality(p.pending)
    /\ \A a \in Addr : PendingOf(q, a) <= PendingOf(p, a)

LEMMA SlimFacts ==
    ASSUME NEW p \in Pools, NEW q \in Pools
    PROVE  /\ q.pending \subseteq p.pending => Slim(p, q)
           /\ \A r \in Pools : Slim(p, q) /\ Slim(q, r) => Slim(p, r)
<1>1. ASSUME q.pending \subseteq p.pending
      PROVE  Slim(p, q)
  <2>1. p.pending \in SUBSET Tx /\ \A a : Of(p.pending, a) \in SUBSET Tx
    BY PoolFields DEF Of
  <2>2. IsFiniteSet(p.pending) /\ \A a : IsFiniteSet(Of(p.pending, a))
    BY <2>1, TxFacts
  <2>3. \A a : Of(q.pending, a) \in SUBSET Of(p.pending, a)
    BY <1>1 DEF Of
  <2>4. Cardinality(q.pending) <= Cardinality(p.pending)
    BY <1>1, <2>2, FS_Subset
  <2>5. ASSUME NEW a \in Addr
        PROVE  PendingOf(q, a) <= PendingOf(p, a)
    BY <2>2, <2>3, FS_Subset DEF PendingOf
  <2> QED BY <2>4, <2>5 DEF Slim
<1>2. ASSUME NEW r \in Pools, Slim(p, q), Slim(q, r)
      PROVE  Slim(p, r)
  <2>1. \A x \in Pools : Cardinality(x.pending) \in Nat
    BY PoolFields, TxFacts
  <2>2. \A x \in Pools : \A a : PendingOf(x, a) \in Nat
    <3> SUFFICES ASSUME NEW x \in Pools, NEW a
                 PROVE  Cardinality(Of(x.pending, a)) \in Nat
      BY DEF PendingOf
    <3>1. Of(x.pending, a) \in SUBSET Tx
      BY PoolFields DEF Of
    <3> QED BY <3>1, TxFacts
  <2>3. Cardinality(r.pending) <= Cardinality(p.pending)
    BY <1>2, <2>1 DEF Slim
  <2>4. ASSUME NEW a \in Addr
        PROVE  PendingOf(r, a) <= PendingOf(p, a)
    <3>1. PendingOf(r, a) <= PendingOf(q, a) /\ PendingOf(q, a) <= PendingOf(p, a)
      BY <1>2 DEF Slim
    <3>2. PendingOf(r, a) \in Nat /\ PendingOf(q, a) \in Nat /\ PendingOf(p, a) \in Nat
      BY <2>2
    <3> QED BY <3>1, <3>2
  <2> QED BY <2>3, <2>4 DEF Slim
<1> QED BY <1>1, <1>2

\* One transaction takes the place of another one of its account.
LEMMA SlimSwap ==
    ASSUME NEW p \in Pools, NEW q \in Pools, NEW t \in Tx, t \notin p.pending,
           NEW u \in p.pending, u.from = t.from, q.pending = (p.pending \ {u}) \union {t}
    PROVE  Slim(p, q)
<1>1. ASSUME NEW S \in SUBSET Tx, t \notin S, u \in S
      PROVE  Cardinality((S \ {u}) \union {t}) = Cardinality(S)
  <2>1. IsFiniteSet(S) /\ Cardinality(S) \in Nat /\ IsFiniteSet(S \ {u}) /\ t \notin S \ {u}
    BY <1>1, TxFacts
  <2>2. Cardinality(S \ {u}) = Cardinality(S) - 1
    BY <1>1, <2>1, FS_RemoveElement
  <2>3. Cardinality((S \ {u}) \union {t}) = Cardinality(S \ {u}) + 1
    BY <2>1, FS_AddElement
  <2> QED BY <2>1, <2>2, <2>3
<1>2. p.pending \in SUBSET Tx
  BY PoolFields
<1>3. Cardinality(q.pending) <= Cardinality(p.pending)
  <2>1. Cardinality(q.pending) = Cardinality(p.pending) /\ Cardinality(p.pending) \in Nat
    BY <1>1, <1>2, TxFacts
  <2> QED BY <2>1
<1>4. ASSUME NEW a \in Addr
      PROVE  PendingOf(q, a) <= PendingOf(p, a)
  <2>0. Of(p.pending, a) \in SUBSET Tx /\ Cardinality(Of(p.pending, a)) \in Nat
    <3>1. Of(p.pending, a) \in SUBSET Tx
      BY <1>2 DEF Of
    <3> QED BY <3>1, TxFacts
  <2>1. CASE a = t.from
    <3>1. Of(q.pending, a) = (Of(p.pending, a) \ {u}) \union {t} /\ u \in Of(p.pending, a)
          /\ t \notin Of(p.pending, a)
      BY <2>1 DEF Of
    <3>2. Cardinality(Of(q.pending, a)) = Cardinality(Of(p.pending, a))
      BY <2>0, <3>1, <1>1
    <3> QED BY <2>0, <3>2 DEF PendingOf
  <2>2. CASE a # t.from
    <3>1. Of(q.pending, a) = Of(p.pending, a)
      BY <2>2 DEF Of
    <3> QED BY <2>0, <3>1 DEF PendingOf
  <2> QED BY <2>1, <2>2
<1> QED BY <1>3, <1>4 DEF Slim

\* The pool q still has the transactions of local accounts that p has, unless
\* they are no longer valid.
Spares(p, q) == \A t \in p.all : t.from \in p.locals /\ ValidIn(p, t) => t \in q.all

LEMMA SparesFacts ==
    /\ \A p, q : p.all \subseteq q.all => Spares(p, q)
    /\ \A p, q, r : Spares(p, q) /\ Steady(p, q) /\ Spares(q, r) => Spares(p, r)
<1>1. ASSUME NEW p, NEW q, NEW r, Spares(p, q), Steady(p, q), Spares(q, r)
      PROVE  Spares(p, r)
  <2>1. q.locals = p.locals /\ \A t : ValidIn(q, t) <=> ValidIn(p, t)
    BY <1>1, SameValid DEF Steady
  <2> QED BY <1>1, <2>1 DEF Spares
<1> QED BY <1>1 DEF Spares

\* Removing what is not of a local account, or not valid, spares the others.
LEMMA SparesAllBut ==
    ASSUME NEW p, NEW q, NEW S, q.all = p.all \ S,
           \A t \in S : t.from \notin p.locals \/ ~ValidIn(p, t)
    PROVE  Spares(p, q)
BY DEF Spares

\* The same, but a dearer transaction may have taken the nonce.
Succeeds(u, t) ==
    u = t \/ (u.from = t.from /\ u.nonce = t.nonce /\ u.price > t.price)

Stays(p, q) ==
    \A t \in p.all : t.from \in p.locals /\ ValidIn(q, t) =>
        \E u \in q.all : Succeeds(u, t) /\ ValidIn(q, u)

LEMMA StaysIfSpared ==
    ASSUME NEW p, NEW q, Spares(p, q), q.currentState = p.currentState
    PROVE  Stays(p, q)
<1>1. \A t : ValidIn(q, t) <=> ValidIn(p, t)
  BY SameValid
<1> QED BY <1>1 DEF Spares, Stays, Succeeds

LEMMA StaysFacts ==
    ASSUME NEW p, NEW q, NEW r, p.all \in SUBSET Tx, q.all \in SUBSET Tx, r.all \in SUBSET Tx,
           Stays(p, q), Stays(q, r), r.currentState = q.currentState, p.locals \subseteq q.locals
    PROVE  Stays(p, r)
<1> SUFFICES ASSUME NEW t \in p.all, t.from \in p.locals, ValidIn(r, t)
             PROVE  \E u \in r.all : Succeeds(u, t) /\ ValidIn(r, u)
  BY DEF Stays
<1>1. \A u : ValidIn(r, u) <=> ValidIn(q, u)
  BY SameValid
<1>2. PICK u \in q.all : Succeeds(u, t) /\ ValidIn(q, u)
  BY <1>1 DEF Stays
<1>3. u.from = t.from /\ u.nonce = t.nonce /\ (u = t \/ u.price > t.price)
  BY <1>2 DEF Succeeds
<1>4. PICK v \in r.all : Succeeds(v, u) /\ ValidIn(r, v)
  BY <1>1, <1>2, <1>3 DEF Stays
<1>5. v.from = t.from /\ v.nonce = t.nonce /\ (v = u \/ v.price > u.price)
  BY <1>3, <1>4 DEF Succeeds
<1>6. t.price \in Nat /\ u.price \in Nat /\ v.price \in Nat
  BY TxFacts
<1>7. Succeeds(v, t)
  BY <1>3, <1>5, <1>6 DEF Succeeds
<1> QED BY <1>4, <1>7

\* Does t pay enough to replace u?
Outbids(t, u) == u.price < t.price /\ (u.price * (100 + PriceBump)) \div 100 =< t.price

LEMMA AcceptsIs ==
    ASSUME NEW list, NEW t
    PROVE  Accepts(list, t) <=> \A u \in Overlapping(list, t) : Outbids(t, u)
BY DEF Accepts, Outbids

\* What becomes of t, and of the transactions of local accounts, when t is
\* added.
Takes(p, q, t, isLocal) ==
    /\ t \in q.all => t \in p.all \/ ValidIn(p, t)
    /\ isLocal /\ t \in q.all => t.from \in q.locals \/ Overlapping(p.all, t) # {}
    /\ (isLocal \/ t.from \in p.locals) /\ ValidIn(p, t) =>
          \E u \in Overlapping(q.all, t) : u = t \/ (u \in p.all /\ ~Outbids(t, u))
    /\ Stays(p, q)
    /\ Executes(p, q)

\* What add does for the transaction t: the pool q comes from p, and an
\* account whose next nonce may have become ready is reported as dirty.
Added(p, q, t, isLocal, dirty) ==
    /\ Sound(q)
    /\ q.currentState = p.currentState /\ q.gasPrice = p.gasPrice
    /\ q.all \subseteq p.all \union {t}
    /\ p.locals \subseteq q.locals /\ (~isLocal => q.locals = p.locals)
    /\ ToSet(p.journal) \subseteq ToSet(q.journal)
    /\ t.from \in q.locals /\ t \in q.all /\ t \notin p.all => t \in ToSet(q.journal)
    /\ \A a \in Addr : Free(p, a) /\ ~(dirty /\ a = t.from) => Free(q, a)
    /\ Slim(p, q)
    /\ Takes(p, q, t, isLocal)

LEMMA AddedAfter ==
    ASSUME NEW p, Sound(p), NEW m, Sound(m), Left(p, m), Spares(p, m), NEW t, t \notin p.all,
           NEW q, NEW l, NEW d, Added(m, q, t, l, d)
    PROVE  Added(p, q, t, l, d)
<1>1. Steady(p, m) /\ m.all \subseteq p.all /\ m.pending \subseteq p.pending
  BY DEF Left
<1>2. Slim(p, q)
  <2>1. p \in Pools /\ m \in Pools /\ q \in Pools
    BY DEF Added, Sound, Agree
  <2>2. Slim(p, m)
    BY <1>1, <2>1, SlimFacts
  <2>3. Slim(m, q)
    BY DEF Added
  <2> QED BY <2>1, <2>2, <2>3, SlimFacts
<1>3. Sound(q)
  BY DEF Added
<1>4. q.currentState = p.currentState /\ q.gasPrice = p.gasPrice
  BY <1>1 DEF Added, Steady
<1>5. q.all \subseteq p.all \union {t}
  BY <1>1 DEF Added
<1>6. p.locals \subseteq q.locals /\ (~l => q.locals = p.locals)
  BY <1>1 DEF Added, Steady
<1>7. ToSet(p.journal) \subseteq ToSet(q.journal)
  BY <1>1 DEF Added, Steady
<1>8. t.from \in q.locals /\ t \in q.all /\ t \notin p.all => t \in ToSet(q.journal)
  BY <1>1 DEF Added
<1>9. \A a \in Addr : Free(p, a) /\ ~(d /\ a = t.from) => Free(q, a)
  BY DEF Added, Left
<1>10. Takes(p, q, t, l)
  <2>0. Takes(m, q, t, l) /\ m.locals = p.locals /\ m.currentState = p.currentState
        /\ Executes(p, m)
    BY <1>1 DEF Added, Steady, Left
  <2>1. ValidIn(m, t) <=> ValidIn(p, t)
    BY <2>0, SameValid
  <2>2. Overlapping(m.all, t) \subseteq Overlapping(p.all, t)
    BY <1>1 DEF Overlapping
  <2>3. Stays(p, m)
    BY <2>0, StaysIfSpared
  <2>4. p.all \in SUBSET Tx /\ m.all \in SUBSET Tx /\ q.all \in SUBSET Tx
    BY <1>3, PoolFields DEF Sound, Agree
  <2>5. q.currentState = m.currentState
    BY DEF Added
  <2>6. Stays(m, q) /\ Executes(m, q)
    BY <2>0 DEF Takes
  <2>7. Stays(p, q)
    BY <2>0, <2>3, <2>4, <2>5, <2>6, StaysFacts
  <2>8. Executes(p, q)
    BY <2>0, <2>6, ExecFacts
  <2>9. t \in q.all => t \in p.all \/ ValidIn(p, t)
    BY <1>1, <2>0, <2>1 DEF Takes
  <2>10. l /\ t \in q.all => t.from \in q.locals \/ Overlapping(p.all, t) # {}
    BY <2>0, <2>2 DEF Takes
  <2>11. (l \/ t.from \in p.locals) /\ ValidIn(p, t) =>
            \E u \in Overlapping(q.all, t) : u = t \/ (u \in p.all /\ ~Outbids(t, u))
    BY <1>1, <2>0, <2>1 DEF Takes
  <2> QED BY <2>7, <2>8, <2>9, <2>10, <2>11 DEF Takes
<1> QED BY <1>2, <1>3, <1>4, <1>5, <1>6, <1>7, <1>8, <1>9, <1>10 DEF Added

LEMMA AddedNone ==
    ASSUME NEW p, Sound(p), NEW t, NEW l,
           (l \/ t.from \in p.locals) /\ ValidIn(p, t) =>
               \E u \in Overlapping(p.all, t) : u = t \/ ~Outbids(t, u)
    PROVE  Added(p, p, t, l, FALSE)
<1>1. Slim(p, p)
  BY SlimFacts DEF Sound, Agree
<1>2. Takes(p, p, t, l)
  <2>1. Stays(p, p)
    BY DEF Stays, Succeeds
  <2>2. t \in p.all => t \in Overlapping(p.all, t)
    BY DEF Overlapping
  <2>3. \A u \in Overlapping(p.all, t) : u \in p.all
    BY DEF Overlapping
  <2> QED BY <2>1, <2>2, <2>3, ExecFacts DEF Takes
<1> QED BY <1>1, <1>2 DEF Added

LEMMA ReplacePendingFacts ==
    ASSUME NEW p, Sound(p), NEW t \in Tx, t \notin p.all, ValidIn(p, t),
           Overlapping(p.pending, t) # {}, NEW l
    PROVE  Added(p, ReplacePending(p, t), t, l, FALSE)
<1> DEFINE r == ReplacePending(p, t)
<1>1. CASE ~Accepts(p.pending, t)
  <2>1. r = p
    BY <1>1 DEF ReplacePending
  <2>2. \E u \in Overlapping(p.pending, t) : ~Outbids(t, u)
    BY <1>1, AcceptsIs
  <2>3. Overlapping(p.pending, t) \subseteq Overlapping(p.all, t)
    BY DEF Overlapping, Sound, Agree
  <2> HIDE DEF r
  <2>4. Added(p, r, t, l, FALSE)
    BY <2>1, <2>2, <2>3, AddedNone
  <2> QED BY <2>4 DEF r
<1>2. CASE Accepts(p.pending, t)
  <2> DEFINE old == Overlapping(p.pending, t)
             x == (p.pending \ old) \union {t}
             y == p.queue
             q == Enlist(ForgetAll(SetLists(p, x, y), old), t)
  <2>0. /\ p \in Pools /\ p.all = p.pending \union p.queue /\ p.pending \intersect p.queue = {}
        /\ p.pending \in SUBSET Tx /\ p.queue \in SUBSET Tx /\ p.locals \in SUBSET Addr
    BY PoolFields DEF Sound, Agree
  <2>1. PICK u \in p.pending : old = {u} /\ u.from = t.from /\ u.nonce = t.nonce
    <3>1. \A v, w \in old : v = w
      BY OverlappingFacts
    <3> QED BY <3>1 DEF Overlapping
  <2>2. old = Overlapping(p.all, t) /\ old \intersect p.queue = {}
    BY OverlappingFacts, <2>0 DEF Overlapping
  <2>3. Swaps(p, t, x, y, old)
    <3>1. x \in SUBSET Tx /\ y \in SUBSET Tx /\ x \intersect y = {}
      BY <2>0
    <3>2. x \union y = (p.all \ old) \union {t}
      BY <2>0, <2>2
    <3> QED BY <2>2, <3>1, <3>2 DEF Swaps
  <2>4. r = journalTx(q, t)
    BY <1>2, <2>0, SetOneList DEF ReplacePending
  <2> HIDE DEF old, r
  <2>5. /\ Sound(q) /\ q.pending = x /\ q.queue = y /\ q.all = (p.all \ old) \union {t}
        /\ SameRest(p, q)
    <3> HIDE DEF x, y
    <3>1. q = Enlist(ForgetAll(SetLists(p, x, y), old), t)
      OBVIOUS
    <3> HIDE DEF q
    <3> QED BY <2>3, <3>1, SwapFacts
  <2> HIDE DEF q
  <2>6. q = [q EXCEPT !.locals = q.locals] /\ q.locals = p.locals
    BY <2>5 DEF Sound, Agree, Pools, SameRest
  <2>7. /\ Sound(r) /\ r.all = q.all /\ SameLists(q, r)
        /\ r.pendingState = q.pendingState /\ r.currentState = q.currentState
        /\ r.gasPrice = q.gasPrice /\ r.locals = p.locals
        /\ ToSet(q.journal) \subseteq ToSet(r.journal)
        /\ t.from \in p.locals => t \in ToSet(r.journal)
    <3>1. r = Booked(q, p.locals, t)
      BY <2>4, <2>6 DEF Booked
    <3>2. Sound(q) /\ p.locals \in SUBSET Addr
      BY <2>0, <2>5
    <3> QED BY <3>1, <3>2, BookedFacts
  <2>8. Slim(p, r)
    <3>1. p \in Pools /\ r \in Pools /\ t \notin p.pending
      BY <2>0, <2>7 DEF Sound, Agree
    <3>2. r.pending = (p.pending \ {u}) \union {t}
      BY <2>1, <2>5, <2>7 DEF SameLists
    <3> QED BY <2>1, <3>1, <3>2, SlimSwap
  <2>9. \A a \in Addr : Free(p, a) => Free(r, a)
    BY <2>5, <2>7 DEF Free, SameLists, SameRest
  <2>10. r.all \subseteq p.all \union {t}
    BY <2>5, <2>7
  <2>11. r.currentState = p.currentState /\ r.gasPrice = p.gasPrice
         /\ ToSet(p.journal) \subseteq ToSet(r.journal)
    BY <2>5, <2>7 DEF SameRest
  <2>12. Takes(p, r, t, l)
    <3>1. /\ r.pending = (p.pending \ {u}) \union {t} /\ r.all = (p.all \ {u}) \union {t}
          /\ r.pendingState = p.pendingState /\ u \in p.all
      BY <2>0, <2>1, <2>5, <2>7 DEF SameLists, SameRest
    <3>2. /\ \A a : StateNonce(r, a) = StateNonce(p, a)
          /\ \A v : (Payable(r, v) <=> Payable(p, v)) /\ (ValidIn(r, v) <=> ValidIn(p, v))
      BY <2>11, SameValid
    <3>3. Outbids(t, u)
      BY <1>2, <2>1, AcceptsIs DEF old
    <3>4. t.price > u.price
      BY <3>3, <2>0, <2>1, TxFacts DEF Outbids
    <3>5. Stays(p, r)
      <4>1. Succeeds(t, u)
        BY <2>1, <3>4 DEF Succeeds
      <4>2. \A v : Succeeds(v, v)
        BY DEF Succeeds
      <4> QED BY <3>1, <3>2, <4>1, <4>2 DEF Stays
    <3>6. Executes(p, r)
      <4> SUFFICES ASSUME NEW a \in Addr, Exec(p, a)
                   PROVE  Exec(r, a)
        BY DEF Executes
      <4>1. \A v \in r.pending : v.from = a => Payable(r, v)
        BY <3>1, <3>2 DEF Exec, ValidIn
      <4>2. \A n : (\E v \in r.pending : v.from = a /\ v.nonce = n)
                   <=> (\E v \in p.pending : v.from = a /\ v.nonce = n)
        BY <3>1, <2>1
      <4> QED BY <3>1, <3>2, <4>1, <4>2 DEF Exec
    <3>7. t \in Overlapping(r.all, t) /\ u \in Overlapping(p.all, t)
      BY <2>1, <3>1 DEF Overlapping
    <3> QED BY <3>5, <3>6, <3>7 DEF Takes
  <2> QED BY <2>7, <2>8, <2>9, <2>10, <2>11, <2>12 DEF Added, r
<1> QED BY <1>1, <1>2

LEMMA EnqueueAdds ==
    ASSUME NEW p, Sound(p), NEW t \in Tx, t \notin p.all, ValidIn(p, t),
           Overlapping(p.pending, t) = {}, Accepts(p.queue, t), NEW l \in BOOLEAN
    PROVE  Added(p, journalTx(MarkLocal(enqueueTx(p, t), t, l), t), t, l,
                 Overlapping(p.queue, t) = {})
<1> DEFINE q == enqueueTx(p, t)
           old == Overlapping(p.queue, t)
           m == IF l THEN q.locals \union {t.from} ELSE q.locals
           r == journalTx(MarkLocal(q, t, l), t)
<1>1. /\ Sound(q) /\ q.pending = p.pending /\ q.queue = (p.queue \ old) \union {t}
      /\ q.all = (p.all \ old) \union {t}
      /\ SameRest(p, q)
  BY EnqueueNew
<1> HIDE DEF q, old
<1>2. q \in Pools /\ p \in Pools /\ q.locals \in SUBSET Addr /\ q.locals = p.locals /\ t.from \in Addr
  BY <1>1, PoolFields, TxFacts DEF Sound, Agree, SameRest
<1>3. MarkLocal(q, t, l) = [q EXCEPT !.locals = m]
  BY <1>2 DEF MarkLocal, Pools
<1>4. m \in SUBSET Addr /\ p.locals \subseteq m /\ (~l => m = p.locals) /\ (l => t.from \in m)
  BY <1>2
<1> HIDE DEF m
<1>5. /\ Sound(r) /\ r.all = q.all /\ SameLists(q, r)
      /\ r.pendingState = q.pendingState /\ r.currentState = q.currentState
      /\ r.gasPrice = q.gasPrice /\ r.locals = m
      /\ ToSet(q.journal) \subseteq ToSet(r.journal)
      /\ t.from \in m => t \in ToSet(r.journal)
  <2>1. r = Booked(q, m, t)
    BY <1>3 DEF Booked
  <2> HIDE DEF r
  <2>2. Sound(q) /\ m \in SUBSET Addr
    BY <1>1, <1>4
  <2> QED BY <2>1, <2>2, BookedFacts
<1> HIDE DEF r
<1>6. Slim(p, r)
  <2>1. r \in Pools /\ r.pending \subseteq p.pending
    BY <1>1, <1>5 DEF Sound, Agree, SameLists
  <2> QED BY <1>2, <2>1, SlimFacts
<1>7. ASSUME NEW a \in Addr, Free(p, a), ~((old = {}) /\ a = t.from)
      PROVE  Free(r, a)
  <2> SUFFICES ASSUME NEW u \in r.queue, u.from = a
               PROVE  u.nonce # r.pendingState[a]
    BY DEF Free
  <2>1. r.pendingState = p.pendingState /\ (u \in p.queue \/ u = t)
    BY <1>1, <1>5 DEF SameRest, SameLists
  <2>2. CASE u \in p.queue
    BY <2>1, <2>2, <1>7 DEF Free
  <2>3. CASE u = t
    <3>1. PICK v \in p.queue : v.from = t.from /\ v.nonce = t.nonce
      BY <2>3, <1>7 DEF old, Overlapping
    <3> QED BY <2>1, <2>3, <3>1, <1>7 DEF Free
  <2> QED BY <2>1, <2>2, <2>3
<1>8. r.all \subseteq p.all \union {t}
  BY <1>1, <1>5
<1>9. r.currentState = p.currentState /\ r.gasPrice = p.gasPrice
      /\ ToSet(p.journal) \subseteq ToSet(r.journal)
  BY <1>1, <1>5 DEF SameRest
<1>10. Takes(p, r, t, l)
  <2>1. \A v : ValidIn(r, v) <=> ValidIn(p, v)
    BY <1>9, SameValid
  <2>2. \A u \in old : Outbids(t, u) /\ u.from = t.from /\ u.nonce = t.nonce
    BY AcceptsIs DEF old, Overlapping
  <2>3. p.all \in SUBSET Tx
    BY <1>2, PoolFields
  <2>4. \A u \in old : u \in p.all => Succeeds(t, u)
    BY <2>2, <2>3, TxFacts DEF Succeeds, Outbids
  <2>5. Stays(p, r)
    <3>1. \A v : Succeeds(v, v)
      BY DEF Succeeds
    <3> QED BY <1>1, <1>5, <2>1, <2>4, <3>1 DEF Stays
  <2>6. Executes(p, r)
    BY <1>1, <1>5, <1>9, SameExec DEF SameRest, SameLists
  <2>7. t \in Overlapping(r.all, t)
    BY <1>1, <1>5 DEF Overlapping
  <2> QED BY <1>4, <1>5, <2>5, <2>6, <2>7 DEF Takes
<1>11. Added(p, r, t, l, old = {})
  BY <1>4, <1>5, <1>6, <1>7, <1>8, <1>9, <1>10 DEF Added
<1> QED BY <1>11 DEF r, q, old

\* The pool has at most as many transactions as it may, while nobody is local.
Roomy(p) == p.locals = {} => Cardinality(p.all) =< GlobalSlots + GlobalQueue

\* The pool q is p with room for one more transaction.
MadeRoom(p, q) ==
    /\ Sound(q) /\ Left(p, q) /\ Spares(p, q)
    /\ p.locals = {} /\ Roomy(p) => Cardinality(q.all) < GlobalSlots + GlobalQueue

LEMMA DisplaceFacts ==
    ASSUME NEW p, Sound(p), ~(Cardinality(p.all) < GlobalSlots + GlobalQueue)
    PROVE  Displace(p).ok /\ MadeRoom(p, Displace(p).pool)
<1> DEFINE n == Overflow(p)
           acc == Discard(p, n)
           r == DropFound(p, acc)
           total == GlobalSlots + GlobalQueue
<1>0. p \in Pools /\ Priced(p) /\ p.all \in SUBSET Tx /\ IsFiniteSet(p.all) /\ Cardinality(p.all) \in Nat
      /\ total \in Nat /\ total > 0
  BY PoolFields, TxFacts, ConfigAssumption DEF Sound, Agree
<1>1. n \in Nat /\ n > 0
  <2>1. GlobalSlots \in Nat /\ GlobalQueue \in Nat
    BY ConfigAssumption
  <2> QED BY <1>0, <2>1 DEF Overflow
<1>2. p.all # {}
  <2>1. Cardinality({}) = 0
    BY FS_EmptySet
  <2> QED BY <1>0, <2>1
<1>3. Displace(p).ok /\ Displace(p).pool = r
  BY DEF Displace
<1> HIDE DEF n
<1>4. Found(p, acc) /\ (p.locals = {} /\ p.all # {} => ToSet(acc.drop) # {})
  BY <1>0, <1>1, DiscardFacts
<1> HIDE DEF acc, r
<1>5. Sound(r) /\ r.all = p.all \ ToSet(acc.drop) /\ Left(p, r)
  BY <1>4, DropFoundFacts DEF r
<1>6. ASSUME p.locals = {}, Roomy(p)
      PROVE  Cardinality(r.all) < total
  <2>1. PICK t : t \in ToSet(acc.drop)
    BY <1>2, <1>4, <1>6
  <2>2. t \in p.all
    BY <1>4, <2>1 DEF Found, Remote
  <2>3. r.all \in SUBSET p.all /\ r.all # p.all
    BY <1>5, <2>1, <2>2
  <2>4. Cardinality(r.all) <= Cardinality(p.all) /\ Cardinality(r.all) # Cardinality(p.all)
        /\ IsFiniteSet(r.all)
    BY <1>0, <2>3, FS_Subset
  <2>5. Cardinality(r.all) \in Nat
    BY <2>4, FS_CardinalityType
  <2>6. Cardinality(p.all) =< total
    BY <1>6 DEF Roomy
  <2> HIDE DEF total
  <2> QED BY <1>0, <2>4, <2>5, <2>6
<1>7. Spares(p, r)
  BY <1>4, <1>5, SparesAllBut DEF Found, Remote
<1> QED BY <1>3, <1>5, <1>6, <1>7 DEF MadeRoom

LEMMA MakeRoomFacts ==
    ASSUME NEW p, Sound(p), NEW t, NEW l
    PROVE  LET m == MakeRoom(p, t, l)
           IN  /\ m.ok \in BOOLEAN /\ Sound(m.pool) /\ Left(p, m.pool) /\ Spares(p, m.pool)
               /\ m.ok => MadeRoom(p, m.pool)
               /\ l \/ t.from \in p.locals => m.ok
<1> DEFINE m == MakeRoom(p, t, l)
<1>1. CASE Cardinality(p.all) < GlobalSlots + GlobalQueue
  <2>1. m.ok = TRUE /\ m.pool = p
    BY <1>1 DEF MakeRoom
  <2> HIDE DEF m
  <2>2. m.ok \in BOOLEAN /\ Sound(m.pool) /\ Left(p, m.pool) /\ MadeRoom(p, m.pool)
    BY <1>1, <2>1, LeftFacts, SparesFacts DEF MadeRoom
  <2> QED BY <2>1, <2>2 DEF m, MadeRoom
<1>2. CASE ~(Cardinality(p.all) < GlobalSlots + GlobalQueue) /\ (l \/ containsTx(p, t))
  <2>1. m = Displace(p) /\ m.ok = TRUE
    BY <1>2 DEF MakeRoom, Displace
  <2> HIDE DEF m
  <2>2. m.ok \in BOOLEAN /\ MadeRoom(p, m.pool)
    BY <1>2, <2>1, DisplaceFacts
  <2> QED BY <2>1, <2>2 DEF MadeRoom, m
<1>3. CASE ~(Cardinality(p.all) < GlobalSlots + GlobalQueue) /\ ~(l \/ containsTx(p, t))
  <2> DEFINE q == SkipStale(p)
  <2>1. Sound(q) /\ q.all = p.all /\ Left(p, q) /\ SameRest(p, q)
    BY SkipStaleFacts
  <2>2. m = IF Underpriced(q, t) THEN [ok |-> FALSE, pool |-> q] ELSE Displace(q)
    BY <1>3 DEF MakeRoom, OutbidBy
  <2> HIDE DEF q, m
  <2>5. Spares(p, q) /\ Steady(p, q)
    BY <2>1, SparesFacts DEF Left
  <2>3. CASE Underpriced(q, t)
    <3>1. m.ok = FALSE /\ m.pool = q
      BY <2>2, <2>3
    <3> QED BY <1>3, <2>1, <2>5, <3>1 DEF m, containsTx
  <2>4. CASE ~Underpriced(q, t)
    <3>1. m = Displace(q) /\ m.ok = TRUE
      BY <2>2, <2>4 DEF Displace
    <3>2. MadeRoom(q, m.pool)
      BY <1>3, <2>1, <3>1, DisplaceFacts
    <3>3. Left(p, m.pool) /\ Sound(m.pool) /\ Spares(p, m.pool)
      BY <2>1, <2>5, <3>2, LeftFacts, SparesFacts DEF MadeRoom
    <3>4. p.locals = q.locals /\ (Roomy(p) <=> Roomy(q))
      BY <2>1 DEF SameRest, Roomy
    <3>5. MadeRoom(p, m.pool)
      BY <3>2, <3>3, <3>4 DEF MadeRoom
    <3> QED BY <3>1, <3>3, <3>5 DEF m
  <2> QED BY <2>3, <2>4
<1> QED BY <1>1, <1>2, <1>3

LEMMA InsertFacts ==
    ASSUME NEW p, Sound(p), NEW t \in Tx, t \notin p.all, ValidIn(p, t), NEW l \in BOOLEAN,
           NEW m, m.pool = p, m.ok \in BOOLEAN, l \/ t.from \in p.locals => m.ok
    PROVE  LET r == InsertInto(m, t, l)
           IN  /\ Added(p, r.pool, t, l, r.dirty) /\ r.dirty \in BOOLEAN
               /\ ~m.ok => r.pool = p
<1> DEFINE r == InsertInto(m, t, l)
           room == m.ok
<1>1. CASE ~room
  <2>1. r.pool = p /\ r.dirty = FALSE
    BY <1>1 DEF Insert, InsertInto
  <2> HIDE DEF r
  <2>2. Added(p, p, t, l, FALSE)
    BY <1>1, AddedNone
  <2> QED BY <2>1, <2>2 DEF r
<1>2. CASE room /\ Overlapping(p.pending, t) # {}
  <2>1. r.pool = ReplacePending(p, t) /\ r.dirty = FALSE
    BY <1>2 DEF Insert, InsertInto
  <2> HIDE DEF r
  <2>2. Added(p, r.pool, t, l, r.dirty) /\ r.dirty \in BOOLEAN
    <3>1. Added(p, ReplacePending(p, t), t, l, FALSE)
      BY <1>2, ReplacePendingFacts
    <3> QED BY <2>1, <3>1
  <2> QED BY <1>2, <2>2 DEF r
<1>3. CASE room /\ Overlapping(p.pending, t) = {} /\ ~Accepts(p.queue, t)
  <2>1. r.pool = p /\ r.dirty = FALSE
    BY <1>3 DEF Insert, InsertInto
  <2> HIDE DEF r
  <2>2. \E u \in Overlapping(p.queue, t) : ~Outbids(t, u)
    BY <1>3, AcceptsIs
  <2>3. Overlapping(p.queue, t) \subseteq Overlapping(p.all, t)
    BY DEF Overlapping, Sound, Agree
  <2>4. Added(p, p, t, l, FALSE)
    BY <2>2, <2>3, AddedNone
  <2> QED BY <1>3, <2>1, <2>4 DEF r
<1>4. CASE room /\ Overlapping(p.pending, t) = {} /\ Accepts(p.queue, t)
  <2> DEFINE d == Overlapping(p.queue, t) = {}
  <2>1. r.pool = journalTx(MarkLocal(enqueueTx(p, t), t, l), t) /\ r.dirty = d
    BY <1>4 DEF Insert, InsertInto
  <2>2. Added(p, journalTx(MarkLocal(enqueueTx(p, t), t, l), t), t, l, d)
    BY <1>4, EnqueueAdds
  <2>3. d \in BOOLEAN
    OBVIOUS
  <2> HIDE DEF r, d
  <2>4. Added(p, r.pool, t, l, r.dirty) /\ r.dirty \in BOOLEAN
    BY <2>1, <2>2, <2>3
  <2> QED BY <1>4, <2>4 DEF r
<1> QED BY <1>1, <1>2, <1>3, <1>4

\* add keeps the pool sound, and within its size while nobody is local.
LEMMA AddFacts ==
    ASSUME NEW p, Sound(p), NEW t \in Tx, NEW l \in BOOLEAN
    PROVE  LET r == add(p, t, l)
           IN  /\ Added(p, r.pool, t, l, r.dirty) /\ r.dirty \in BOOLEAN
               /\ Roomy(p) => Roomy(r.pool)
<1> DEFINE r == add(p, t, l)
<1>1. CASE t \in p.all \/ ~validateTx(p, t, l)
  <2>1. r.pool = p /\ r.dirty = FALSE
    BY <1>1 DEF add
  <2> HIDE DEF r
  <2>2. t \in p.all => t \in Overlapping(p.all, t)
    BY DEF Overlapping
  <2>3. t \notin p.all => ~((l \/ t.from \in p.locals) /\ ValidIn(p, t))
    BY <1>1 DEF validateTx, ValidIn
  <2>4. Added(p, p, t, l, FALSE)
    BY <2>2, <2>3, AddedNone
  <2> QED BY <2>1, <2>4 DEF r
<1>2. CASE ~(t \in p.all \/ ~validateTx(p, t, l))
  <2> DEFINE m == MakeRoom(p, t, l)
             q == m.pool
             ok == m.ok
  <2>1. ok \in BOOLEAN /\ Sound(q) /\ Left(p, q) /\ Spares(p, q) /\ (ok => MadeRoom(p, q))
        /\ (l \/ t.from \in p.locals => ok)
    BY MakeRoomFacts
  <2>2. r = InsertInto(m, t, l)
    BY <1>2 DEF add
  <2>3. t \notin p.all /\ t \notin q.all
    BY <1>2, <2>1 DEF Left
  <2> HIDE DEF m, r, q, ok
  <2>4. Added(q, r.pool, t, l, r.dirty) /\ r.dirty \in BOOLEAN /\ (~ok => r.pool = q)
    <3>0. q.locals = p.locals /\ ValidIn(q, t)
      <4>1. q.locals = p.locals /\ q.currentState = p.currentState
        BY <2>1 DEF Left, Steady
      <4>2. ValidIn(p, t)
        BY <1>2 DEF validateTx, ValidIn
      <4> QED BY <4>1, <4>2, SameValid
    <3>1. Sound(q) /\ t \notin q.all /\ m.ok \in BOOLEAN /\ m.pool = q
          /\ (l \/ t.from \in q.locals => m.ok)
      BY <2>1, <2>3, <3>0 DEF q, ok
    <3>2. Added(q, r.pool, t, l, r.dirty) /\ r.dirty \in BOOLEAN /\ (~m.ok => r.pool = q)
      BY <3>0, <3>1, <2>2, InsertFacts
    <3> QED BY <3>2 DEF ok
  <2>5. Added(p, r.pool, t, l, r.dirty)
    <3> DEFINE x == r.pool
               d == r.dirty
    <3>1. Added(q, x, t, l, d)
      BY <2>4
    <3> HIDE DEF x, d
    <3>2. Added(p, x, t, l, d)
      BY <2>1, <2>3, <3>1, AddedAfter
    <3> QED BY <3>2 DEF x, d
  <2>6. ASSUME Roomy(p), r.pool.locals = {}
        PROVE  Cardinality(r.pool.all) =< GlobalSlots + GlobalQueue
    <3>0. p.locals = {} /\ q.locals = {} /\ p \in Pools /\ q \in Pools /\ r.pool \in Pools
      BY <2>1, <2>4, <2>6 DEF Left, Steady, Added, Sound, Agree
    <3>1. /\ IsFiniteSet(p.all) /\ Cardinality(p.all) \in Nat /\ IsFiniteSet(q.all)
          /\ Cardinality(q.all) \in Nat /\ Cardinality(r.pool.all) \in Nat
          /\ GlobalSlots + GlobalQueue \in Nat
      BY <3>0, PoolFields, TxFacts, ConfigAssumption
    <3>2. CASE ok
      <4>1. Cardinality(q.all) < GlobalSlots + GlobalQueue
        BY <2>1, <3>0, <3>2, <2>6 DEF MadeRoom
      <4>2. Cardinality(q.all \union {t}) = Cardinality(q.all) + 1 /\ IsFiniteSet(q.all \union {t})
        BY <2>3, <3>1, FS_AddElement
      <4>3. r.pool.all \in SUBSET (q.all \union {t})
        BY <2>4 DEF Added
      <4>4. Cardinality(r.pool.all) <= Cardinality(q.all \union {t})
        BY <4>2, <4>3, FS_Subset
      <4> QED BY <3>1, <4>1, <4>2, <4>4
    <3>3. CASE ~ok
      <4>1. r.pool.all \in SUBSET p.all
        BY <2>1, <2>4, <3>3 DEF Left
      <4>2. Cardinality(r.pool.all) <= Cardinality(p.all)
        BY <3>1, <4>1, FS_Subset
      <4>3. Cardinality(p.all) =< GlobalSlots + GlobalQueue
        BY <2>6, <3>0 DEF Roomy
      <4> QED BY <3>1, <4>2, <4>3
    <3> QED BY <2>1, <3>2, <3>3
  <2> QED BY <2>4, <2>5, <2>6 DEF Roomy, r
<1> QED BY <1>1, <1>2

-----------------------------------------------------------------------------
(* Promoting *)

PendingValid(p, a) == \A t \in p.pending : t.from = a => ValidIn(p, t)

QueueValid(p, a) == \A t \in p.queue : t.from = a => ValidIn(p, t)

AllValid(p, a) == \A t \in p.all : t.from = a => ValidIn(p, t)

LEMMA AllValidFacts ==
    /\ \A p, a : Sound(p) => (AllValid(p, a) <=> PendingValid(p, a) /\ QueueValid(p, a))
    /\ \A p, q, a : q.all \subseteq p.all /\ Steady(p, q) /\ AllValid(p, a) => AllValid(q, a)
<1>1. ASSUME NEW p, NEW q, NEW a, q.all \subseteq p.all, Steady(p, q), AllValid(p, a)
      PROVE  AllValid(q, a)
  <2>1. \A t : ValidIn(q, t) <=> ValidIn(p, t)
    BY <1>1, SameValid DEF Steady
  <2> QED BY <1>1, <2>1 DEF AllValid
<1>2. ASSUME NEW p, NEW a, Sound(p)
      PROVE  AllValid(p, a) <=> PendingValid(p, a) /\ QueueValid(p, a)
  <2>1. p.all = p.pending \union p.queue
    BY <1>2 DEF Sound, Agree
  <2> QED BY <2>1 DEF AllValid, PendingValid, QueueValid
<1> QED BY <1>1, <1>2

\* What promoting and cutting keep of a pool: of the next nonces that are
\* free, of what can be executed and of the local transactions.
Kept(p, q) ==
    /\ q.all \subseteq p.all
    /\ Steady(p, q)
    /\ \A a \in Addr : Free(p, a) => Free(q, a)
    /\ Executes(p, q)
    /\ Spares(p, q)
    /\ \A a \in Addr : PendingValid(p, a) => PendingValid(q, a)

LEMMA KeptFacts ==
    /\ \A p : Kept(p, p)
    /\ \A p, q, r : Kept(p, q) /\ Kept(q, r) => Kept(p, r)
    /\ \A p, q : Left(p, q) /\ Spares(p, q) => Kept(p, q)
<1>1. \A p : Kept(p, p)
  BY ExecFacts, SparesFacts DEF Kept, Steady
<1>2. ASSUME NEW p, NEW q, NEW r, Kept(p, q), Kept(q, r)
      PROVE  Kept(p, r)
  <2>1. Executes(p, r)
    BY <1>2, ExecFacts DEF Kept
  <2>2. Spares(p, r)
    BY <1>2, SparesFacts DEF Kept
  <2> QED BY <1>2, <2>1, <2>2 DEF Kept, Steady
<1>3. ASSUME NEW p, NEW q, Left(p, q), Spares(p, q)
      PROVE  Kept(p, q)
  <2>1. \A t : ValidIn(q, t) <=> ValidIn(p, t)
    BY <1>3, SameValid DEF Left, Steady
  <2>2. \A a \in Addr : PendingValid(p, a) => PendingValid(q, a)
    BY <1>3, <2>1 DEF Left, PendingValid
  <2> QED BY <1>3, <2>2 DEF Kept, Left
<1> QED BY <1>1, <1>2, <1>3

\* What is left of p, when local transactions that are valid are not removed.
Shed(p, q) == Left(p, q) /\ Spares(p, q)

LEMMA ShedFacts ==
    /\ \A p : Shed(p, p)
    /\ \A p, q, r : Shed(p, q) /\ Shed(q, r) => Shed(p, r)
    /\ \A p, q : Shed(p, q) => Kept(p, q) /\ Left(p, q) /\ q.locals = p.locals
<1>1. \A p : Shed(p, p)
  BY LeftFacts, SparesFacts DEF Shed
<1>2. ASSUME NEW p, NEW q, NEW r, Shed(p, q), Shed(q, r)
      PROVE  Shed(p, r)
  <2>1. Spares(p, q) /\ Steady(p, q) /\ Spares(q, r)
    BY <1>2 DEF Shed, Left
  <2>2. Spares(p, r)
    BY <2>1, SparesFacts
  <2>3. Left(p, r)
    BY <1>2, LeftFacts DEF Shed
  <2> QED BY <2>2, <2>3 DEF Shed
<1>3. ASSUME NEW p, NEW q, Shed(p, q)
      PROVE  Kept(p, q) /\ Left(p, q) /\ q.locals = p.locals
  BY <1>3, KeptFacts DEF Shed, Left, Steady
<1> QED BY <1>1, <1>2, <1>3

\* The transactions S of a have left the lists, and now the lookup.
LEMMA ForgetListed ==
    ASSUME NEW p \in Pools, Unique(p.all), Priced(p), NEW a, NEW S \in SUBSET Of(p.all, a),
           p.pending \union p.queue = p.all \ S, p.pending \intersect p.queue = {}
    PROVE  LET r == ForgetAll(p, S)
           IN  Sound(r) /\ SameLists(p, r) /\ r.all = p.all \ S /\ SameRest(p, r)
<1> DEFINE r == ForgetAll(p, S)
<1>1. r \in Pools /\ Priced(r) /\ r.all = p.all \ S /\ SameLists(p, r) /\ SameRest(p, r)
  BY ForgetAllFacts
<1> HIDE DEF r
<1>2. Unique(r.all)
  BY <1>1 DEF Unique
<1>3. Agree(r)
  BY <1>1, <1>2 DEF Agree, SameLists
<1> QED BY <1>1, <1>3 DEF Sound, r

\* The transactions S of a list are of one account.
OfOne(S, list, a) == S \in SUBSET Of(list, a)

QueueLoses(p, S) == ForgetAll([p EXCEPT !.queue = @ \ S], S)

QueueLost(p, S, r) ==
    /\ Sound(r) /\ Left(p, r) /\ SameRest(p, r)
    /\ r.all = p.all \ S /\ r.pending = p.pending /\ r.queue = p.queue \ S

LEMMA ForgetQueued ==
    ASSUME NEW p, Sound(p), NEW a, NEW S, OfOne(S, p.queue, a)
    PROVE  QueueLost(p, S, QueueLoses(p, S))
<1> DEFINE q == SetLists(p, p.pending, p.queue \ S)
           r == ForgetAll(q, S)
<1>0. /\ p \in Pools /\ Unique(p.all) /\ Priced(p) /\ p.all = p.pending \union p.queue
      /\ p.pending \intersect p.queue = {} /\ p.pending \in SUBSET Tx /\ p.queue \in SUBSET Tx
  BY PoolFields DEF Sound, Agree
<1>1. [p EXCEPT !.queue = @ \ S] = q
  BY <1>0, SetOneList
<1>2. q \in Pools /\ q.pending = p.pending /\ q.queue = p.queue \ S /\ q.all = p.all
      /\ SameHeap(p, q) /\ SameRest(p, q)
  <2>1. p.queue \ S \in SUBSET Tx
    BY <1>0
  <2> QED BY <1>0, <2>1, SetListsFacts
<1> HIDE DEF q
<1>3. Unique(q.all) /\ Priced(q)
  BY <1>0, <1>2 DEF Priced, PricedFor, SameHeap
<1>4. S \in SUBSET Of(q.all, a) /\ q.pending \union q.queue = q.all \ S /\ q.pending \intersect q.queue = {}
  BY <1>0, <1>2 DEF Of, OfOne
<1>5. Sound(r) /\ SameLists(q, r) /\ r.all = q.all \ S /\ SameRest(q, r)
  BY <1>2, <1>3, <1>4, ForgetListed
<1> HIDE DEF r
<1>6. r.pending = p.pending /\ r.queue = p.queue \ S /\ r.all = p.all \ S /\ SameRest(p, r)
  BY <1>2, <1>5 DEF SameLists, SameRest
<1>7. Left(p, r)
  <2>1. Executes(p, r)
    BY <1>6, SameExec DEF SameRest
  <2> QED BY <1>6, <2>1 DEF Left, Steady, SameRest, Free
<1>8. QueueLost(p, S, r)
  BY <1>5, <1>6, <1>7 DEF QueueLost
<1> QED BY <1>1, <1>8 DEF QueueLoses, r

LEMMA DropOldFacts ==
    ASSUME NEW p, Sound(p), NEW a
    PROVE  LET r == DropOld(p, a)
           IN  /\ Sound(r) /\ Left(p, r) /\ Spares(p, r)
               /\ \A t \in r.queue : t.from = a => t.nonce >= StateNonce(r, a)
<1> DEFINE S == Forward(Of(p.queue, a), StateNonce(p, a))
           r == QueueLoses(p, S)
<1>0. p.queue \in SUBSET Tx
  BY PoolFields DEF Sound, Agree
<1>1. OfOne(S, p.queue, a)
  BY DEF Forward, OfOne
<1>2. DropOld(p, a) = r
  BY DEF DropOld, QueueLoses
<1>3. /\ \A t \in S : t.from = a /\ t.nonce < StateNonce(p, a) /\ t \in p.queue
      /\ \A t \in p.queue \ S : t.from = a => ~(t.nonce < StateNonce(p, a))
  BY DEF Forward, Of
<1> HIDE DEF S
<1>4. Sound(r) /\ Left(p, r) /\ r.all = p.all \ S /\ r.queue = p.queue \ S
  <2>1. QueueLost(p, S, r)
    BY <1>1, ForgetQueued
  <2> HIDE DEF r
  <2> QED BY <2>1 DEF QueueLost
<1> HIDE DEF r
<1>5. p.currentState = r.currentState
  BY <1>4 DEF Left, Steady
<1>6. StateNonce(r, a) = StateNonce(p, a)
  BY <1>5, SameValid
<1>7. ASSUME a \in Addr
      PROVE  StateNonce(p, a) \in Nat
  BY <1>7, StateNonceType DEF Sound, Agree
<1>8. \A t \in p.queue : t.from \in Addr /\ t.nonce \in Nat
  BY <1>0, TxFacts
<1>9. Spares(p, r)
  <2>1. \A t \in S : ~ValidIn(p, t)
    BY <1>3, <1>7, <1>8 DEF ValidIn
  <2> QED BY <1>4, <2>1, SparesAllBut
<1>10. \A t \in r.queue : t.from = a => t.nonce >= StateNonce(r, a)
  BY <1>3, <1>4, <1>6, <1>7, <1>8
<1> QED BY <1>2, <1>4, <1>9, <1>10

LEMMA DropUnpayableFacts ==
    ASSUME NEW p, Sound(p), NEW a
    PROVE  LET r == DropUnpayable(p, a)
           IN  /\ Sound(r) /\ Left(p, r) /\ Spares(p, r) /\ r.queue \subseteq p.queue
               /\ \A t \in r.queue : t.from = a => Payable(r, t)
<1> DEFINE S == {t \in Of(p.queue, a) : ~Payable(p, t)}
           r == QueueLoses(p, S)
<1>1. OfOne(S, p.queue, a)
  BY DEF OfOne
<1>2. DropUnpayable(p, a) = r
  BY DEF DropUnpayable, QueueLoses
<1>3. /\ \A t \in S : ~ValidIn(p, t)
      /\ \A t \in p.queue \ S : t.from = a => Payable(p, t)
  BY DEF Of, ValidIn
<1> HIDE DEF S
<1>4. Sound(r) /\ Left(p, r) /\ r.all = p.all \ S /\ r.queue = p.queue \ S
  <2>1. QueueLost(p, S, r)
    BY <1>1, ForgetQueued
  <2> HIDE DEF r
  <2> QED BY <2>1 DEF QueueLost
<1> HIDE DEF r
<1>5. Spares(p, r)
  BY <1>3, <1>4, SparesAllBut
<1>6. \A t : Payable(r, t) <=> Payable(p, t)
  BY <1>4, SameValid DEF Left, Steady
<1> QED BY <1>2, <1>3, <1>4, <1>5, <1>6

LEMMA CapQueueFacts ==
    ASSUME NEW p, Sound(p), NEW a
    PROVE  Sound(CapQueue(p, a)) /\ Left(p, CapQueue(p, a)) /\ Spares(p, CapQueue(p, a))
<1> DEFINE S == Cap(Of(p.queue, a), AccountQueue)
           r == QueueLoses(p, S)
<1>1. OfOne(S, p.queue, a) /\ \A t \in S : t.from = a
  BY DEF Cap, OfOne, Of
<1>2. CapQueue(p, a) = IF a \in p.locals THEN p ELSE r
  BY DEF CapQueue, QueueLoses
<1> HIDE DEF S
<1>3. CASE a \in p.locals
  BY <1>2, <1>3, LeftFacts, SparesFacts
<1>4. CASE a \notin p.locals
  <2>1. CapQueue(p, a) = r
    BY <1>2, <1>4
  <2>2. QueueLost(p, S, r)
    BY <1>1, ForgetQueued
  <2> HIDE DEF r
  <2>3. Spares(p, r)
    BY <1>1, <1>4, <2>2, SparesAllBut DEF QueueLost
  <2> QED BY <2>1, <2>2, <2>3 DEF QueueLost
<1> QED BY <1>3, <1>4

\* What is ready has every nonce from that of w to that of t.
RunsTo(list, start, w, t) ==
    /\ w.nonce =< t.nonce
    /\ \A n \in w.nonce .. t.nonce : \E u \in Ready(list, start) : u.nonce = n

\* The run that is ready has no successor in the list, and if there is none
\* then nothing in the list has the nonce where it would begin.
LEMMA ReadyFacts ==
    ASSUME NEW list \in SUBSET Tx, NEW start \in Nat
    PROVE  /\ Ready(list, start) \in SUBSET list
           /\ Ready(list, start) = {} => \A t \in list : t.nonce # start
           /\ \A t \in Ready(list, start) : \A u \in list :
                  u.nonce = t.nonce + 1 => u \in Ready(list, start)
           /\ Ready(list, start) # {} =>
                  \E w \in list : /\ w.nonce =< start
                                  /\ \A t \in Ready(list, start) : RunsTo(list, start, w, t)
<1> DEFINE N == {u.nonce : u \in list}
           low == Min(N)
<1>0. \A t \in list : t.nonce \in Nat
  BY TxFacts
<1>1. Ready(list, start) = {t \in list : /\ low =< start
                                         /\ \A n \in low..t.nonce : \E u \in list : u.nonce = n}
  BY DEF Ready
<1>2. list # {} => low \in N /\ \A n \in N : low <= n
  <2>1. N \in SUBSET Nat
    BY <1>0
  <2>2. list # {} => N # {}
    OBVIOUS
  <2> HIDE DEF N
  <2> QED BY <2>1, <2>2, MinFacts
<1> HIDE DEF low
<1>3. ASSUME NEW t \in list, t.nonce = start
      PROVE  Ready(list, start) # {}
  <2>1. low \in Nat /\ low <= start
    BY <1>0, <1>2, <1>3
  <2>2. PICK u \in list : u.nonce = low
    BY <1>2
  <2>3. \A n \in low..u.nonce : n = low
    BY <2>1, <2>2
  <2> QED BY <1>1, <2>1, <2>2, <2>3
<1>4. ASSUME NEW t \in Ready(list, start), NEW u \in list, u.nonce = t.nonce + 1
      PROVE  u \in Ready(list, start)
  <2>1. t \in list /\ low =< start /\ \A n \in low..t.nonce : \E v \in list : v.nonce = n
    BY <1>1
  <2>2. low \in Nat /\ t.nonce \in Nat
    BY <1>0, <1>2, <2>1
  <2>3. \A n \in low..u.nonce : n \in low..t.nonce \/ n = u.nonce
    BY <2>2, <1>4
  <2>4. \A n \in low..u.nonce : \E v \in list : v.nonce = n
    BY <2>1, <2>3
  <2> QED BY <1>1, <2>1, <2>4
<1>5. ASSUME Ready(list, start) # {}
      PROVE  \E w \in list : /\ w.nonce =< start
                             /\ \A t \in Ready(list, start) : RunsTo(list, start, w, t)
  <2>1. list # {} /\ low =< start
    BY <1>1, <1>5
  <2>2. PICK w \in list : w.nonce = low
    BY <1>2, <2>1
  <2>3. ASSUME NEW t \in Ready(list, start), NEW n \in low..t.nonce
        PROVE  \E u \in Ready(list, start) : u.nonce = n
    <3>1. t \in list /\ \A k \in low..t.nonce : \E v \in list : v.nonce = k
      BY <1>1, <2>3
    <3>2. low \in Nat /\ t.nonce \in Nat
      BY <1>0, <1>2, <2>1, <3>1
    <3>3. PICK u \in list : u.nonce = n
      BY <3>1
    <3>4. \A k \in low..u.nonce : k \in low..t.nonce
      BY <3>2, <3>3
    <3> QED BY <1>1, <2>1, <3>1, <3>3, <3>4
  <2>4. \A t \in Ready(list, start) : low <= t.nonce
    BY <1>1, <1>2, <2>1
  <2> QED BY <2>1, <2>2, <2>3, <2>4 DEF RunsTo
<1> QED BY <1>1, <1>3, <1>4, <1>5

\* A transaction becomes executable whose nonce nothing pending has.
LEMMA PromoteTxFacts ==
    ASSUME NEW p \in Pools, NEW t \in Tx, Overlapping(p.pending, t) = {}
    PROVE  LET r == promoteTx(p, t)
           IN  /\ r \in Pools /\ r.pending = p.pending \union {t} /\ r.queue = p.queue
               /\ r.all = p.all /\ SameHeap(p, r) /\ Steady(p, r)
               /\ r.pendingState[t.from] = t.nonce + 1
               /\ \A b \in Addr \ {t.from} : r.pendingState[b] = p.pendingState[b]
<1> DEFINE x == p.pending \union {t}
           p1 == SetLists(p, x, p.queue)
           beats == Append(RemoveFirst(p.beats, t.from), t.from)
           p2 == SetBeats(p1, beats)
           r == SetNonce(p2, t.from, t.nonce + 1)
<1>0. /\ p.pending \in SUBSET Tx /\ p.queue \in SUBSET Tx /\ p.beats \in Seq(Addr)
      /\ x \in SUBSET Tx /\ t.from \in Addr /\ t.nonce \in Nat /\ t.nonce + 1 \in Nat
  BY PoolFields, TxFacts
<1>1. p1 \in Pools /\ p1.pending = x /\ p1.queue = p.queue /\ p1.all = p.all
      /\ SameHeap(p, p1) /\ SameRest(p, p1)
  <2> HIDE DEF x
  <2> QED BY <1>0, SetListsFacts
<1>2. beats \in Seq(Addr)
  <2>1. RemoveFirst(p.beats, t.from) \in Seq(Addr)
    BY <1>0, RemoveFirstFacts
  <2> QED BY <1>0, <2>1, AppendFacts
<1>3. promoteTx(p, t) = r
  <2>1. Accepts(p.pending, t)
    BY DEF Accepts
  <2>2. [p EXCEPT !.pending = (@ \ {}) \union {t}] = p1
    BY SetOneList
  <2>3. promoteTx(p, t) = [ForgetAll(p1, {}) EXCEPT
            !.beats = Append(RemoveFirst(@, t.from), t.from),
            !.pendingState[t.from] = t.nonce + 1]
    BY <2>1, <2>2 DEF promoteTx
  <2>4. promoteTx(p, t) = [p1 EXCEPT !.beats = Append(RemoveFirst(@, t.from), t.from),
                                     !.pendingState[t.from] = t.nonce + 1]
    BY <2>3, ForgetNone
  <2> HIDE DEF p1
  <2>5. p1.beats = p.beats
    BY <1>1 DEF SameRest
  <2> QED BY <2>4, <2>5, <1>1 DEF SetBeats, SetNonce, Pools
<1> HIDE DEF p1, beats, x
<1>4. p2 \in Pools /\ p2.all = p1.all /\ SameHeap(p1, p2) /\ SameLists(p1, p2) /\ Steady(p1, p2)
      /\ p2.pendingState = p1.pendingState
  BY <1>1, <1>2, SetBeatsFacts
<1> HIDE DEF p2
<1>5. /\ r \in Pools /\ r.all = p2.all /\ r.pendingState[t.from] = t.nonce + 1
      /\ \A b \in Addr \ {t.from} : r.pendingState[b] = p2.pendingState[b]
      /\ SameHeap(p2, r) /\ SameLists(p2, r) /\ Steady(p2, r)
  <2> DEFINE a == t.from
             n == t.nonce + 1
  <2>1. p2 \in Pools /\ a \in Addr /\ n \in Nat
    BY <1>0, <1>4
  <2> HIDE DEF a, n
  <2>2. LET z == SetNonce(p2, a, n)
        IN  /\ z \in Pools /\ z.all = p2.all /\ z.pendingState[a] = n
            /\ \A b \in Addr \ {a} : z.pendingState[b] = p2.pendingState[b]
            /\ SameHeap(p2, z) /\ SameLists(p2, z) /\ Steady(p2, z)
    BY <2>1, SetNonceFacts
  <2> QED BY <2>2 DEF a, n
<1> HIDE DEF r
<1>6. r.pending = x /\ r.queue = p.queue /\ r.all = p.all
  BY <1>1, <1>4, <1>5 DEF SameLists
<1>7. SameHeap(p, r) /\ Steady(p, r)
  BY <1>1, <1>4, <1>5 DEF SameHeap, Steady, SameRest
<1>8. \A b \in Addr \ {t.from} : r.pendingState[b] = p.pendingState[b]
  BY <1>1, <1>4, <1>5 DEF SameRest
<1> QED BY <1>3, <1>5, <1>6, <1>7, <1>8 DEF x

PromoteInv(c, i, q) ==
    /\ q \in Pools /\ q.pending = c.pool.pending \union {c.txs[j] : j \in 1..i}
    /\ q.queue = c.pool.queue /\ q.all = c.pool.all
    /\ SameHeap(c.pool, q) /\ Steady(c.pool, q)
    /\ \A b \in Addr \ {c.account} : q.pendingState[b] = c.pool.pendingState[b]
    /\ q.pendingState[c.account] = IF i = 0 THEN c.pool.pendingState[c.account]
                                   ELSE c.txs[i].nonce + 1

Promoting == INSTANCE Loops WITH Step <- LAMBDA c, q, t : promoteTx(q, t), Inv <- PromoteInv

\* The ready transactions S of a, which have left the queue, become pending.
LEMMA PromoteSet ==
    ASSUME NEW p \in Pools, NEW a \in Addr, NEW S \in SUBSET Tx, \A t \in S : t.from = a,
           Unique(p.pending \union S), p.pending \intersect S = {}
    PROVE  LET s == ByNonce(S)
               r == FoldLeft(promoteTx, p, s)
           IN  /\ s \in Seq(S) /\ ToSet(s) = S
               /\ \A i, j \in DOMAIN s : i < j => s[i].nonce < s[j].nonce
               /\ PromoteInv([pool |-> p, txs |-> s, account |-> a], Len(s), r)
<1> DEFINE s == ByNonce(S)
           c == [pool |-> p, txs |-> s, account |-> a]
           r == Promoting!Fold(c, p, s)
<1>1. s \in Seq(S) /\ ToSet(s) = S /\ \A i, j \in DOMAIN s : i < j => s[i].nonce < s[j].nonce
  <2>1. \A t, u \in S : t.nonce = u.nonce => t = u
    BY DEF Unique
  <2>2. IsFiniteSet(S) /\ \A t \in S : t.nonce \in Nat
    BY TxFacts
  <2> QED BY <2>1, <2>2, ByNonceFacts
<1>2. FoldLeft(promoteTx, p, s) = r
  BY Zenon DEF FoldLeft, MapThenFoldSet, Max, Promoting!Fold, Promoting!Highest
<1> HIDE DEF s
<1>3. PromoteInv(c, 0, p)
  BY DEF PromoteInv, SameHeap, Steady
<1>4. ASSUME NEW i \in 1..Len(s), NEW q, PromoteInv(c, i - 1, q)
      PROVE  PromoteInv(c, i, promoteTx(q, s[i]))
  <2> DEFINE t == s[i]
             x == promoteTx(q, t)
  <2>0. \A j \in 1..Len(s) : s[j] \in S
    BY <1>1
  <2>1. /\ q \in Pools /\ q.pending = p.pending \union {s[j] : j \in 1..(i - 1)}
        /\ q.queue = p.queue /\ q.all = p.all /\ SameHeap(p, q) /\ Steady(p, q)
        /\ \A b \in Addr \ {a} : q.pendingState[b] = p.pendingState[b]
    BY <1>4 DEF PromoteInv
  <2>2. t \in S /\ t \in Tx /\ t.from = a
    BY <2>0
  <2>3. ASSUME NEW j \in 1..(i - 1)
        PROVE  s[j] \in S /\ s[j].nonce # t.nonce
    <3>1. j \in DOMAIN s /\ i \in DOMAIN s /\ j < i /\ j \in 1..Len(s)
      BY <1>1
    <3>2. s[j].nonce < s[i].nonce /\ s[j].nonce \in Nat /\ s[i].nonce \in Nat
      BY <1>1, <2>0, <3>1, TxFacts
    <3> QED BY <2>0, <3>1, <3>2
  <2>4. Overlapping(q.pending, t) = {}
    <3>1. \A u \in p.pending : ~(u.from = t.from /\ u.nonce = t.nonce)
      BY <2>2 DEF Unique
    <3> QED BY <2>1, <2>3, <3>1 DEF Overlapping
  <2> HIDE DEF t
  <2>5. /\ x \in Pools /\ x.pending = q.pending \union {t} /\ x.queue = q.queue
        /\ x.all = q.all /\ SameHeap(q, x) /\ Steady(q, x)
        /\ x.pendingState[a] = t.nonce + 1
        /\ \A b \in Addr \ {a} : x.pendingState[b] = q.pendingState[b]
    BY <2>1, <2>2, <2>4, PromoteTxFacts
  <2> HIDE DEF x
  <2>6. {s[j] : j \in 1..i} = {s[j] : j \in 1..(i - 1)} \union {t}
    BY <1>1 DEF t
  <2>7. x.pending = p.pending \union {s[j] : j \in 1..i}
    BY <2>1, <2>5, <2>6
  <2>8. SameHeap(p, x) /\ Steady(p, x)
    BY <2>1, <2>5 DEF SameHeap, Steady
  <2>9. i # 0
    OBVIOUS
  <2>10. PromoteInv(c, i, x)
    BY <2>1, <2>5, <2>7, <2>8, <2>9 DEF PromoteInv, t
  <2> QED BY <2>10 DEF x, t
<1>5. PromoteInv(c, Len(s), r)
  <2>1. \A i \in 1..Len(s) : \A x : PromoteInv(c, i - 1, x) => PromoteInv(c, i, promoteTx(x, s[i]))
    BY <1>4
  <2> HIDE DEF c
  <2> QED BY <1>1, <1>3, <2>1, Promoting!LoopRule
<1> QED BY <1>1, <1>2, <1>5 DEF s

\* After the ready transactions of an account are promoted, nothing in the
\* queue has its next nonce.
LEMMA PromoteReadyFacts ==
    ASSUME NEW p, Sound(p), NEW a \in Addr, QueueValid(p, a)
    PROVE  LET r == PromoteReady(p, a)
           IN  Sound(r) /\ Kept(p, r) /\ Free(r, a)
<1> DEFINE start == p.pendingState[a]
           list == Of(p.queue, a)
           S == Ready(list, start)
           p1 == SetLists(p, p.pending, p.queue \ S)
           s == ByNonce(S)
           c == [pool |-> p1, txs |-> s, account |-> a]
           r == FoldLeft(promoteTx, p1, s)
<1>0. /\ p \in Pools /\ Unique(p.all) /\ Priced(p) /\ p.all = p.pending \union p.queue
      /\ p.pending \intersect p.queue = {} /\ p.pending \in SUBSET Tx /\ p.queue \in SUBSET Tx
      /\ p.pendingState \in [Addr -> Nat] /\ start \in Nat /\ list \in SUBSET Tx
  BY PoolFields DEF Sound, Agree, Of
<1>1. PromoteReady(p, a) = r
  <2>1. [p EXCEPT !.queue = @ \ S] = p1
    BY <1>0, SetOneList
  <2> QED BY <2>1 DEF PromoteReady
<1>2. /\ S \in SUBSET list
      /\ S = {} => \A t \in list : t.nonce # start
      /\ \A t \in S : \A u \in list : u.nonce = t.nonce + 1 => u \in S
      /\ S # {} => \E w \in list : /\ w.nonce =< start
                                    /\ \A t \in S : RunsTo(list, start, w, t)
  <2> HIDE DEF list, start
  <2> QED BY <1>0, ReadyFacts
<1>3. S \in SUBSET Tx /\ S \in SUBSET p.queue /\ \A t \in S : t.from = a
  BY <1>0, <1>2 DEF Of
<1> HIDE DEF S
<1>4. p1 \in Pools /\ p1.pending = p.pending /\ p1.queue = p.queue \ S /\ p1.all = p.all
      /\ SameHeap(p, p1) /\ SameRest(p, p1)
  <2>1. p.queue \ S \in SUBSET Tx
    BY <1>0
  <2> QED BY <1>0, <2>1, SetListsFacts
<1> HIDE DEF p1
<1>5. Unique(p1.pending \union S) /\ p1.pending \intersect S = {}
  BY <1>0, <1>3, <1>4 DEF Unique
<1>6. /\ s \in Seq(S) /\ ToSet(s) = S /\ \A i, j \in DOMAIN s : i < j => s[i].nonce < s[j].nonce
      /\ PromoteInv(c, Len(s), r)
  BY <1>3, <1>4, <1>5, PromoteSet
<1> HIDE DEF s, r
<1>7. /\ r \in Pools /\ r.pending = p1.pending \union {s[j] : j \in 1..Len(s)}
      /\ r.queue = p1.queue /\ r.all = p1.all
      /\ SameHeap(p1, r) /\ Steady(p1, r)
      /\ \A b \in Addr \ {a} : r.pendingState[b] = p1.pendingState[b]
      /\ r.pendingState[a] = IF Len(s) = 0 THEN p1.pendingState[a] ELSE s[Len(s)].nonce + 1
  BY <1>6 DEF PromoteInv
<1>8. {s[j] : j \in 1..Len(s)} = S /\ Len(s) \in Nat /\ DOMAIN s = 1..Len(s)
  BY <1>6 DEF ToSet
<1>9. r.pending = p.pending \union S /\ r.queue = p.queue \ S /\ r.all = p.all
  BY <1>4, <1>7, <1>8
<1>10. Sound(r)
  <2>1. Priced(r)
    BY <1>0, <1>4, <1>7 DEF Priced, PricedFor, SameHeap
  <2>2. r.all = r.pending \union r.queue /\ r.pending \intersect r.queue = {}
    BY <1>0, <1>3, <1>9
  <2> QED BY <1>0, <1>7, <1>9, <2>1, <2>2 DEF Sound, Agree
<1>11. Steady(p, r) /\ \A b \in Addr \ {a} : r.pendingState[b] = p.pendingState[b]
  BY <1>4, <1>7 DEF Steady, SameRest
<1>12. Free(r, a)
  <2> SUFFICES ASSUME NEW u \in r.queue, u.from = a
               PROVE  u.nonce # r.pendingState[a]
    BY DEF Free
  <2>1. u \in list /\ u \notin S
    BY <1>9 DEF Of
  <2>2. CASE Len(s) = 0
    <3>1. S = {}
      BY <1>8, <2>2
    <3>2. r.pendingState[a] = start
      BY <1>4, <1>7, <2>2 DEF SameRest
    <3> QED BY <1>2, <2>1, <3>1, <3>2
  <2>3. CASE Len(s) # 0
    <3>1. Len(s) \in 1..Len(s)
      BY <1>8, <2>3
    <3>2. s[Len(s)] \in S
      BY <1>8, <3>1
    <3> QED BY <1>2, <1>7, <2>1, <2>3, <3>2
  <2> QED BY <2>2, <2>3
<1>13. Kept(p, r)
  <2>1. ASSUME NEW b \in Addr, Free(p, b)
        PROVE  Free(r, b)
    <3>1. CASE b = a
      BY <1>12, <3>1
    <3>2. CASE b # a
      <4>1. r.pendingState[b] = p.pendingState[b]
        BY <1>11, <3>2
      <4> QED BY <1>9, <2>1, <4>1 DEF Free
    <3> QED BY <3>1, <3>2
  <2>2. /\ \A b : StateNonce(r, b) = StateNonce(p, b)
        /\ \A t : (Payable(r, t) <=> Payable(p, t)) /\ (ValidIn(r, t) <=> ValidIn(p, t))
    BY <1>11, SameValid DEF Steady
  <2>3. \A t \in S : ValidIn(p, t) /\ t.from = a /\ t.nonce \in Nat
    BY <1>3, TxFacts DEF QueueValid
  <2>4. \A b \in Addr : PendingValid(p, b) => PendingValid(r, b)
    BY <1>9, <2>2, <2>3 DEF PendingValid
  <2>5. Spares(p, r)
    BY <1>9, SparesFacts
  <2>6. ASSUME NEW b \in Addr, b # a, Exec(p, b)
        PROVE  Exec(r, b)
    <3>1. \A t : t.from = b => (t \in r.pending <=> t \in p.pending)
      BY <1>3, <1>9, <2>6
    <3>2. r.pendingState[b] = p.pendingState[b]
      BY <1>11, <2>6
    <3> QED BY <2>2, <2>6, <3>1, <3>2 DEF Exec
  <2>7. ASSUME Exec(p, a)
        PROVE  Exec(r, a)
    <3>1. \A t \in r.pending : t.from = a => Payable(r, t)
      BY <1>9, <2>2, <2>3, <2>7 DEF Exec, ValidIn
    <3>2. CASE S = {}
      <4>1. Len(s) = 0
        BY <1>6, <1>8, <3>2
      <4>2. r.pendingState[a] = start /\ r.pending = p.pending
        BY <1>4, <1>7, <1>9, <3>2, <4>1 DEF SameRest
      <4> QED BY <2>2, <2>7, <3>1, <4>2 DEF Exec
    <3>3. CASE S # {}
      <4>1. Len(s) \in 1..Len(s) /\ Len(s) # 0
        BY <1>8, <3>3
      <4> DEFINE last == s[Len(s)].nonce
      <4>2. s[Len(s)] \in S /\ last \in Nat /\ r.pendingState[a] = last + 1
        BY <1>7, <1>8, <2>3, <4>1
      <4>3. \A t \in S : t.nonce <= last
        <5> SUFFICES ASSUME NEW t \in S PROVE t.nonce <= last
          OBVIOUS
        <5>1. PICK j \in 1..Len(s) : s[j] = t
          BY <1>8
        <5>0. Len(s) \in Nat
          BY <1>8
        <5>2. j = Len(s) \/ j < Len(s)
          BY <5>0
        <5>3. j \in DOMAIN s /\ Len(s) \in DOMAIN s
          BY <1>8, <4>1
        <5>4. j < Len(s) => t.nonce < last
          BY <1>6, <5>1, <5>3
        <5> QED BY <2>3, <4>2, <5>1, <5>2, <5>4
      <4>4. PICK w \in list : w.nonce =< start /\ \A t \in S : RunsTo(list, start, w, t)
        BY <1>2, <3>3
      <4>5. w \in p.queue /\ w.from = a /\ w.nonce \in Nat /\ ValidIn(p, w)
        BY <1>0, <4>4, TxFacts DEF Of, QueueValid
      <4>6. StateNonce(p, a) <= w.nonce
        BY <4>5 DEF ValidIn
      <4>7. w.nonce = start
        <5>1. ASSUME w.nonce < start
              PROVE  FALSE
          <6>1. PICK v \in p.pending : v.from = a /\ v.nonce = w.nonce
            BY <2>7, <4>5, <4>6, <5>1 DEF Exec
          <6>2. v \in p.all /\ w \in p.all /\ v # w
            BY <1>0, <4>5, <6>1
          <6> QED BY <1>0, <4>5, <6>1, <6>2 DEF Unique
        <5> QED BY <1>0, <4>4, <4>5, <5>1
      <4>8. \A t \in S : start <= t.nonce
        BY <4>4, <4>7 DEF RunsTo
      <4>9. \A n \in start..last : \E u \in S : u.nonce = n
        BY <4>2, <4>4, <4>7 DEF RunsTo, S
      <4>10. StateNonce(p, a) \in Nat /\ start \in Nat /\ start <= last
        BY <1>0, <4>2, <4>8, StateNonceType
      <4> HIDE DEF last, start
      <4>11. ASSUME NEW n \in Nat
             PROVE  (\E t \in r.pending : t.from = a /\ t.nonce = n)
                       <=> StateNonce(r, a) <= n /\ n < r.pendingState[a]
        <5>1. (\E t \in p.pending : t.from = a /\ t.nonce = n)
                 <=> StateNonce(p, a) <= n /\ n < start
          BY <2>7 DEF Exec, start
        <5>2. (\E t \in S : t.from = a /\ t.nonce = n) <=> start <= n /\ n <= last
          <6>1. ASSUME start <= n, n <= last
                PROVE  \E t \in S : t.nonce = n
            BY <4>2, <4>9, <4>10, <6>1
          <6> QED BY <2>3, <4>3, <4>8, <6>1
        <5>3. (\E t \in r.pending : t.from = a /\ t.nonce = n)
                 <=> \/ \E t \in p.pending : t.from = a /\ t.nonce = n
                     \/ \E t \in S : t.from = a /\ t.nonce = n
          BY <1>9
        <5>4. StateNonce(p, a) <= start
          BY <4>6, <4>7
        <5>5. StateNonce(r, a) = StateNonce(p, a)
          BY <2>2
        <5> QED BY <4>2, <4>10, <5>1, <5>2, <5>3, <5>4, <5>5
      <4> QED BY <3>1, <4>11 DEF Exec
    <3> QED BY <3>2, <3>3
  <2>8. Executes(p, r)
    BY <2>6, <2>7 DEF Executes
  <2> QED BY <1>9, <1>11, <2>1, <2>4, <2>5, <2>8 DEF Kept
<1> QED BY <1>1, <1>10, <1>12, <1>13

LEMMA PromoteAccountFacts ==
    ASSUME NEW p, Sound(p), NEW a \in Addr
    PROVE  LET r == promoteAccount(p, a)
           IN  Sound(r) /\ Kept(p, r) /\ Free(r, a) /\ (PendingValid(p, a) => AllValid(r, a))
<1> DEFINE p1 == DropOld(p, a)
           p2 == DropUnpayable(p1, a)
           p3 == PromoteReady(p2, a)
           r == CapQueue(p3, a)
<1>1. /\ Sound(p1) /\ Left(p, p1) /\ Spares(p, p1)
      /\ \A t \in p1.queue : t.from = a => t.nonce >= StateNonce(p1, a)
  BY DropOldFacts
<1> HIDE DEF p1
<1>2. /\ Sound(p2) /\ Left(p1, p2) /\ Spares(p1, p2) /\ p2.queue \subseteq p1.queue
      /\ \A t \in p2.queue : t.from = a => Payable(p2, t)
  BY <1>1, DropUnpayableFacts
<1> HIDE DEF p2
<1>3. QueueValid(p2, a)
  <2>1. StateNonce(p2, a) = StateNonce(p1, a)
    BY <1>2, SameValid DEF Left, Steady
  <2> QED BY <1>1, <1>2, <2>1 DEF QueueValid, ValidIn
<1>4. Sound(p3) /\ Kept(p2, p3) /\ Free(p3, a)
  BY <1>2, <1>3, PromoteReadyFacts
<1> HIDE DEF p3
<1>5. Sound(r) /\ Left(p3, r) /\ Spares(p3, r)
  BY <1>4, CapQueueFacts
<1> HIDE DEF r
<1>6. Free(r, a)
  BY <1>4, <1>5 DEF Left
<1>7. Kept(p, p2)
  <2>1. Kept(p, p1) /\ Kept(p1, p2)
    BY <1>1, <1>2, KeptFacts
  <2> QED BY <2>1, KeptFacts
<1>8. Kept(p2, r)
  <2>1. Kept(p3, r)
    BY <1>5, KeptFacts
  <2> QED BY <1>4, <2>1, KeptFacts
<1>9. Kept(p, r)
  BY <1>7, <1>8, KeptFacts
<1>10. ASSUME PendingValid(p, a)
       PROVE  AllValid(r, a)
  <2>1. PendingValid(p2, a)
    BY <1>7, <1>10 DEF Kept
  <2>2. AllValid(p2, a)
    BY <1>2, <1>3, <2>1, AllValidFacts
  <2> QED BY <1>8, <2>2, AllValidFacts DEF Kept
<1>11. promoteAccount(p, a) = r
  BY DEF promoteAccount, r, p3, p2, p1
<1> QED BY <1>5, <1>6, <1>9, <1>10, <1>11

\* The loop over the accounts in promoteExecutables.
PromoteEach(p, accounts) == FoldLeft(LAMBDA q, a : PromoteIn(accounts, q, a), p, Accounts)

Promoted(p, q, a) == Free(q, a) /\ (PendingValid(p, a) => AllValid(q, a))

EachInv(c, i, q) ==
    /\ Sound(q) /\ Kept(c.pool, q)
    /\ \A j \in 1..i : Accounts[j] \in c.accounts => Promoted(c.pool, q, Accounts[j])

Each == INSTANCE Loops WITH Step <- LAMBDA c, q, a : PromoteIn(c.accounts, q, a), Inv <- EachInv

LEMMA PromoteEachFacts ==
    ASSUME NEW p, Sound(p), NEW A
    PROVE  LET r == PromoteEach(p, A)
           IN  Sound(r) /\ Kept(p, r) /\ \A a \in Addr \intersect A : Promoted(p, r, a)
<1> DEFINE c == [pool |-> p, accounts |-> A]
           r == Each!Fold(c, p, Accounts)
<1>0. Accounts \in Seq(Addr) /\ DOMAIN Accounts = 1..Len(Accounts)
  BY TxAssumption
<1>1. PromoteEach(p, A) = r
  <2>1. c.accounts = A
    OBVIOUS
  <2> HIDE DEF c
  <2> QED BY <2>1, Zenon DEF PromoteEach, FoldLeft, MapThenFoldSet, Max, Each!Fold, Each!Highest
<1>2. EachInv(c, 0, p)
  BY KeptFacts DEF EachInv
<1>3. ASSUME NEW i \in 1..Len(Accounts), NEW q, EachInv(c, i - 1, q)
      PROVE  EachInv(c, i, PromoteIn(A, q, Accounts[i]))
  <2> DEFINE a == Accounts[i]
             x == PromoteIn(A, q, a)
  <2>0. a \in Addr /\ \A j \in 1..i : Accounts[j] \in Addr /\ (j \in 1..(i - 1) \/ j = i)
    BY <1>0
  <2>1. Sound(q) /\ Kept(p, q) /\ \A j \in 1..(i - 1) : Accounts[j] \in A => Promoted(p, q, Accounts[j])
    BY <1>3 DEF EachInv
  <2>2. Sound(x) /\ Kept(q, x) /\ (a \in A => Promoted(q, x, a))
    <3>1. CASE a \in A
      <4>1. x = promoteAccount(q, a)
        BY <3>1 DEF PromoteIn
      <4> HIDE DEF x, a
      <4>2. LET y == promoteAccount(q, a)
            IN  Sound(y) /\ Kept(q, y) /\ Free(y, a) /\ (PendingValid(q, a) => AllValid(y, a))
        BY <2>0, <2>1, PromoteAccountFacts
      <4> QED BY <4>1, <4>2 DEF Promoted
    <3>2. CASE a \notin A
      <4>1. x = q
        BY <3>2 DEF PromoteIn
      <4> QED BY <4>1, <2>1, <3>2, KeptFacts
    <3> QED BY <3>1, <3>2
  <2> HIDE DEF x
  <2>3. Kept(p, x)
    BY <2>1, <2>2, KeptFacts
  <2>4. ASSUME NEW j \in 1..i, Accounts[j] \in A
        PROVE  Promoted(p, x, Accounts[j])
    <3>1. CASE j = i
      <4>1. Promoted(q, x, a) /\ Accounts[j] = a
        BY <2>2, <2>4, <3>1
      <4>2. PendingValid(p, a) => PendingValid(q, a)
        BY <2>0, <2>1 DEF Kept
      <4> QED BY <4>1, <4>2 DEF Promoted
    <3>2. CASE j \in 1..(i - 1)
      <4> DEFINE b == Accounts[j]
      <4>1. Promoted(p, q, b) /\ b \in Addr
        BY <2>0, <2>1, <2>4, <3>2
      <4> HIDE DEF b
      <4>2. Free(x, b)
        BY <4>1, <2>2 DEF Kept, Promoted
      <4>3. PendingValid(p, b) => AllValid(x, b)
        BY <4>1, <2>2, AllValidFacts DEF Kept, Promoted
      <4> QED BY <4>2, <4>3 DEF Promoted, b
    <3> QED BY <2>0, <3>1, <3>2
  <2>5. EachInv(c, i, x)
    BY <2>2, <2>3, <2>4 DEF EachInv
  <2> QED BY <2>5 DEF x
<1>4. EachInv(c, Len(Accounts), r)
  <2>1. \A i \in 1..Len(Accounts) : \A x :
            EachInv(c, i - 1, x) => EachInv(c, i, PromoteIn(c.accounts, x, Accounts[i]))
    BY <1>3
  <2> HIDE DEF c
  <2> QED BY <1>0, <1>2, <2>1, Each!LoopRule
<1> HIDE DEF r
<1>5. ASSUME NEW a \in Addr, a \in A
      PROVE  Promoted(p, r, a)
  <2>1. PICK j \in 1..Len(Accounts) : Accounts[j] = a
    BY <1>0 DEF Addr, ToSet
  <2> QED BY <1>4, <1>5, <2>1 DEF EachInv
<1>6. Sound(r) /\ Kept(p, r)
  BY <1>4 DEF EachInv
<1> QED BY <1>1, <1>5, <1>6

-----------------------------------------------------------------------------
(* Cutting the pending transactions *)

\* How many rounds bring k accounts below the limit, if over are above it.
LEMMA RoundsFacts ==
    ASSUME NEW over \in Int, NEW k \in Nat, k > 0
    PROVE  /\ (over + k - 1) \div k \in Int
           /\ over <= 0 => (over + k - 1) \div k <= 0
           /\ over > 0 => (over + k - 1) \div k > 0
           /\ k * ((over + k - 1) \div k) >= over
<1> DEFINE x == over + k - 1
           d == x \div k
           m == x % k
<1>1. x \in Int /\ d \in Int /\ m \in 0..(k - 1) /\ x = k * d + m
  OBVIOUS
<1>2. x - k < k * d /\ k * d <= x
  <2> DEFINE y == k * d
  <2>1. y \in Int
    BY <1>1
  <2>2. x = y + m /\ m \in Int /\ m >= 0 /\ m <= k - 1
    BY <1>1
  <2> HIDE DEF x, d, m, y
  <2>3. x - k < y /\ y <= x
    BY <1>1, <2>1, <2>2
  <2> QED BY <2>3 DEF y
<1> HIDE DEF d
<1>3. k * d >= over
  <2> DEFINE y == k * d
  <2>1. y \in Int /\ x - k < y
    BY <1>1, <1>2
  <2> HIDE DEF y
  <2>2. y >= over
    BY <2>1
  <2> QED BY <2>2 DEF y
<1>4. ASSUME over > 0
      PROVE  d > 0
  <2>1. SUFFICES ASSUME d <= 0 PROVE FALSE
    BY <1>1
  <2>2. k * d <= 0
    BY <1>1, <2>1
  <2> QED BY <1>1, <1>3, <1>4, <2>2
<1>5. ASSUME over <= 0
      PROVE  d <= 0
  <2>1. SUFFICES ASSUME d >= 1 PROVE FALSE
    BY <1>1
  <2>2. k * d >= k
    BY <1>1, <2>1
  <2>3. k * d \in Int /\ k * d <= x /\ x < k
    BY <1>1, <1>2, <1>5
  <2> HIDE DEF x
  <2> QED BY <1>1, <2>2, <2>3
<1> QED BY <1>1, <1>3, <1>4, <1>5 DEF d

Distinct(s, n) == \A i, j \in 1..n : s[i] = s[j] => i = j

FirstOf(s, k) == {s[j] : j \in 1..k}

\* The first k members of a sequence without duplicates are k.
LEMMA FirstCount ==
    ASSUME NEW n \in Nat, NEW s, Distinct(s, n), NEW k \in 0..n
    PROVE  IsFiniteSet(FirstOf(s, k)) /\ Cardinality(FirstOf(s, k)) = k
<1> DEFINE T == {s[j] : j \in 1..k}
           f == [j \in 1..k |-> s[j]]
<1>1. f \in Surjection(1..k, T)
  BY DEF Surjection
<1>2. \A i \in 1..k : i \in 1..n
  OBVIOUS
<1>3. f \in Injection(1..k, T)
  BY <1>2 DEF Injection, IsInjective, Distinct
<1>4. IsFiniteSet(1..k) /\ Cardinality(1..k) = k
  BY FS_Interval
<1> HIDE DEF T, f
<1>5. IsFiniteSet(T) /\ Cardinality(T) = Cardinality(1..k)
  BY <1>1, <1>3, <1>4, FS_Surjection
<1> QED BY <1>4, <1>5 DEF T, FirstOf

\* Cap takes out as many transactions as are above the threshold.
LEMMA CapCount ==
    ASSUME NEW list \in SUBSET Tx, \A t, u \in list : t.nonce = u.nonce => t = u,
           NEW h \in 0..Cardinality(list)
    PROVE  Cardinality(Cap(list, h)) = Cardinality(list) - h
<1> DEFINE n == Cardinality(list)
           s == ByNonce(list)
           First(k) == {s[j] : j \in 1..k}
<1>0. IsFiniteSet(list) /\ n \in Nat /\ \A t \in list : t.nonce \in Nat
  BY TxFacts
<1>1. /\ s \in Seq(list) /\ Len(s) = n /\ ToSet(s) = list
      /\ \A i, j \in DOMAIN s : i < j => s[i].nonce < s[j].nonce
  BY <1>0, ByNonceFacts
<1> HIDE DEF s
<1>2. DOMAIN s = 1..n /\ list = {s[j] : j \in 1..n} /\ \A j \in 1..n : s[j] \in list
  <2>1. DOMAIN s = 1..n
    BY <1>1
  <2> QED BY <1>1, <2>1 DEF ToSet
<1> HIDE DEF n
<1>3. \A i, j \in 1..n : i < j => s[i].nonce < s[j].nonce
  BY <1>1, <1>2
<1>4. ASSUME NEW i \in 1..n, NEW j \in 1..n
      PROVE  s[i].nonce =< s[j].nonce <=> i <= j
  <2>1. s[i].nonce \in Nat /\ s[j].nonce \in Nat
    BY <1>0, <1>2
  <2>2. i < j \/ i = j \/ j < i
    BY <1>0
  <2>3. CASE i < j
    BY <1>3, <2>1, <2>3
  <2>4. CASE i = j
    BY <2>1, <2>4
  <2>5. CASE j < i
    BY <1>3, <2>1, <2>5
  <2> QED BY <2>2, <2>3, <2>4, <2>5
<1>5. \A i, j \in 1..n : s[i] = s[j] => i = j
  <2> SUFFICES ASSUME NEW i \in 1..n, NEW j \in 1..n, s[i] = s[j]
               PROVE  i = j
    OBVIOUS
  <2>0. s[i].nonce \in Nat /\ s[i].nonce = s[j].nonce
    BY <1>0, <1>2
  <2>1. s[i].nonce =< s[j].nonce /\ s[j].nonce =< s[i].nonce
    BY <2>0
  <2> QED BY <1>4, <2>1, <1>0
<1>6. ASSUME NEW k \in 0..n
      PROVE  IsFiniteSet(First(k)) /\ Cardinality(First(k)) = k
  <2>1. Distinct(s, n)
    BY <1>5 DEF Distinct
  <2>2. IsFiniteSet(FirstOf(s, k)) /\ Cardinality(FirstOf(s, k)) = k
    BY <1>0, <1>6, <2>1, FirstCount
  <2> QED BY <2>2 DEF FirstOf
<1>7. ASSUME NEW j \in 1..n
      PROVE  {u \in list : u.nonce =< s[j].nonce} = First(j)
  <2>1. \A i \in 1..j : i \in 1..n /\ i <= j
    BY <1>0
  <2>2. \A i \in 1..n : i <= j => i \in 1..j
    BY <1>0
  <2>3. ASSUME NEW u \in list, u.nonce =< s[j].nonce
        PROVE  u \in First(j)
    <3>1. PICK i \in 1..n : u = s[i]
      BY <1>2
    <3> QED BY <1>4, <2>2, <2>3, <3>1
  <2>4. ASSUME NEW u \in First(j)
        PROVE  u \in list /\ u.nonce =< s[j].nonce
    <3>1. PICK i \in 1..j : u = s[i]
      OBVIOUS
    <3> QED BY <1>2, <1>4, <2>1, <3>1
  <2> QED BY <2>3, <2>4
<1>8. ASSUME NEW j \in 1..n
      PROVE  s[j] \in Cap(list, h) <=> j > h
  <2>1. j \in 0..n
    OBVIOUS
  <2>2. Cardinality({u \in list : u.nonce =< s[j].nonce}) = j
    BY <1>6, <1>7, <2>1
  <2> QED BY <1>2, <2>2 DEF Cap
<1>9. Cap(list, h) = list \ First(h)
  <2>0. h \in 0..n
    BY DEF n
  <2>1. \A j \in 1..h : j \in 1..n /\ ~(j > h)
    BY <1>0, <2>0
  <2>2. \A j \in 1..n : j > h \/ j \in 1..h
    BY <1>0, <2>0
  <2>3. Cap(list, h) \subseteq list
    BY DEF Cap
  <2>4. ASSUME NEW t \in list
        PROVE  t \in Cap(list, h) <=> t \notin First(h)
    <3>1. PICK j \in 1..n : t = s[j]
      BY <1>2
    <3>2. t \in Cap(list, h) <=> j > h
      BY <1>8, <3>1
    <3>3. t \in First(h) <=> ~(j > h)
      <4>1. ASSUME NEW i \in 1..h, t = s[i] PROVE ~(j > h)
        <5>1. i = j
          BY <1>5, <2>1, <3>1, <4>1
        <5> QED BY <2>1, <5>1
      <4>2. ASSUME ~(j > h) PROVE t \in First(h)
        BY <2>2, <3>1, <4>2
      <4> QED BY <4>1, <4>2
    <3> QED BY <3>2, <3>3
  <2> HIDE DEF First
  <2> QED BY <2>3, <2>4
<1>10. First(h) \subseteq list /\ h \in 0..n
  <2>1. h \in 0..n
    BY DEF n
  <2>2. \A j \in 1..h : j \in 1..n
    BY <1>0, <2>1
  <2> QED BY <1>2, <2>1, <2>2
<1>11. list \intersect First(h) = First(h)
  BY <1>10
<1>12. Cardinality(First(h)) = h
  BY <1>6, <1>10
<1> HIDE DEF First
<1>13. Cardinality(list \ First(h)) = Cardinality(list) - Cardinality(list \intersect First(h))
  BY <1>0, FS_Difference
<1> QED BY <1>9, <1>11, <1>12, <1>13

\* With a transaction, S has all those behind it.
Upper(S, list, a) == \A t \in S, u \in list : u.from = a /\ t.nonce =< u.nonce => u \in S

LEMMA CutPendingFacts ==
    ASSUME NEW p, Sound(p), NEW a \in Addr, NEW S, OfOne(S, p.pending, a), Upper(S, p.pending, a)
    PROVE  LET r == CutPending(p, a, S)
           IN  Sound(r) /\ Left(p, r) /\ r.pending = p.pending \ S /\ r.all = p.all \ S
<1> DEFINE N == {p.pendingState[a]} \union {t.nonce : t \in S}
           n == Min(N)
           x == p.pending \ S
           p1 == SetLists(p, x, p.queue)
           p2 == SetNonce(p1, a, n)
           r == ForgetAll(p2, S)
<1>0. /\ p \in Pools /\ Unique(p.all) /\ Priced(p) /\ p.all = p.pending \union p.queue
      /\ p.pending \intersect p.queue = {} /\ p.pending \in SUBSET Tx /\ p.queue \in SUBSET Tx
      /\ p.pendingState \in [Addr -> Nat] /\ p.pendingState[a] \in Nat
  BY PoolFields DEF Sound, Agree
<1>1. S \in SUBSET p.pending /\ \A t \in S : t.from = a /\ t.nonce \in Nat /\ t \in Tx
  BY <1>0, TxFacts DEF OfOne, Of
<1>2. n \in N /\ n \in Nat /\ \A m \in N : n <= m
  <2>1. N \in SUBSET Nat /\ N # {}
    BY <1>0, <1>1
  <2> HIDE DEF N
  <2> QED BY <2>1, MinFacts
<1>3. p1 \in Pools /\ p1.pending = x /\ p1.queue = p.queue /\ p1.all = p.all
      /\ SameHeap(p, p1) /\ SameRest(p, p1)
  <2>1. x \in SUBSET Tx
    BY <1>0
  <2> HIDE DEF x
  <2> QED BY <1>0, <2>1, SetListsFacts
<1>4. CutPending(p, a, S) = r
  <2>1. [p EXCEPT !.pending = @ \ S,
                  !.pendingState[a] = Min({@} \union {t.nonce : t \in S})] = p2
    <3>1. p1.pendingState = p.pendingState
      BY <1>3 DEF SameRest
    <3> QED BY <1>0, <3>1 DEF SetLists, SetNonce, Pools
  <2> QED BY <2>1 DEF CutPending
<1> HIDE DEF p1, x, n
<1>5. /\ p2 \in Pools /\ p2.all = p1.all /\ p2.pendingState[a] = n
      /\ \A b \in Addr \ {a} : p2.pendingState[b] = p1.pendingState[b]
      /\ SameHeap(p1, p2) /\ SameLists(p1, p2) /\ Steady(p1, p2)
  BY <1>2, <1>3, SetNonceFacts
<1> HIDE DEF p2
<1>6. Unique(p2.all) /\ Priced(p2) /\ OfOne(S, p2.all, a)
  BY <1>0, <1>1, <1>3, <1>5 DEF Priced, PricedFor, SameHeap, OfOne, Of
<1>7. p2.pending \union p2.queue = p2.all \ S /\ p2.pending \intersect p2.queue = {}
  BY <1>0, <1>1, <1>3, <1>5 DEF SameLists, x
<1>8. Sound(r) /\ SameLists(p2, r) /\ r.all = p2.all \ S /\ SameRest(p2, r)
  <2>1. S \in SUBSET Of(p2.all, a)
    BY <1>6 DEF OfOne
  <2> QED BY <1>5, <1>6, <1>7, <2>1, ForgetListed
<1> HIDE DEF r
<1>9. r.pending = p.pending \ S /\ r.queue = p.queue /\ r.all = p.all \ S
  BY <1>3, <1>5, <1>8 DEF SameLists, x
<1>10. /\ r.pendingState[a] = n /\ Steady(p, r)
       /\ \A b \in Addr \ {a} : r.pendingState[b] = p.pendingState[b]
  BY <1>3, <1>5, <1>8 DEF SameRest, Steady
<1>11. ASSUME NEW b \in Addr, Free(p, b), NEW u \in r.queue, u.from = b
       PROVE  u.nonce # r.pendingState[b]
  <2>1. u \in p.queue /\ u.nonce # p.pendingState[b]
    BY <1>9, <1>11 DEF Free
  <2>2. CASE b # a
    BY <1>10, <2>1, <2>2
  <2>3. CASE b = a
    <3>1. \A t \in S : t.nonce # u.nonce
      BY <1>0, <1>1, <1>11, <2>1, <2>3 DEF Unique
    <3>2. u.nonce # n
      BY <1>2, <2>1, <2>3, <3>1
    <3> QED BY <1>10, <2>3, <3>2
  <2> QED BY <2>2, <2>3
<1>12. ASSUME NEW b \in Addr, Exec(p, b)
       PROVE  Exec(r, b)
  <2>1. StateNonce(r, b) = StateNonce(p, b) /\ \A t : Payable(r, t) <=> Payable(p, t)
    BY <1>10, SameValid DEF Steady
  <2>2. \A t \in r.pending : t.from = b => Payable(r, t)
    BY <1>9, <1>12, <2>1 DEF Exec
  <2>3. \A m \in Nat : (\E t \in p.pending : t.from = b /\ t.nonce = m)
                           <=> StateNonce(p, b) <= m /\ m < p.pendingState[b]
    BY <1>12 DEF Exec
  <2>4. ASSUME NEW m \in Nat
        PROVE  (\E t \in r.pending : t.from = b /\ t.nonce = m)
                  <=> StateNonce(p, b) <= m /\ m < r.pendingState[b]
    <3>1. CASE b # a
      <4>1. \A t : t.from = b => (t \in r.pending <=> t \in p.pending)
        BY <1>1, <1>9, <3>1
      <4>2. r.pendingState[b] = p.pendingState[b]
        BY <1>10, <3>1
      <4> QED BY <2>3, <4>1, <4>2
    <3>2. CASE b = a
      <4>0. n <= p.pendingState[a] /\ \A t \in S : n <= t.nonce
        BY <1>2
      <4>1. n = p.pendingState[a] \/ \E t \in S : n = t.nonce
        BY <1>2
      <4>2. ASSUME NEW t \in r.pending, t.from = a, t.nonce = m
            PROVE  StateNonce(p, a) <= m /\ m < n
        <5>1. t \in p.pending /\ t \notin S
          BY <1>9
        <5>2. StateNonce(p, a) <= m /\ m < p.pendingState[a]
          BY <2>3, <3>2, <4>2, <5>1
        <5>3. \A u \in S : ~(u.nonce =< m)
          BY <4>2, <5>1 DEF Upper
        <5>4. \A u \in S : m < u.nonce
          BY <1>1, <5>3
        <5> QED BY <4>1, <5>2, <5>4
      <4>3. ASSUME StateNonce(p, a) <= m, m < n
            PROVE  \E t \in r.pending : t.from = a /\ t.nonce = m
        <5>1. m < p.pendingState[a]
          BY <1>0, <1>2, <4>0, <4>3
        <5>2. PICK t \in p.pending : t.from = a /\ t.nonce = m
          BY <2>3, <3>2, <4>3, <5>1
        <5>3. t \notin S
          BY <1>2, <4>0, <4>3, <5>2
        <5> QED BY <1>9, <5>2, <5>3
      <4>4. r.pendingState[a] = n
        BY <1>10
      <4> QED BY <3>2, <4>2, <4>3, <4>4
    <3> QED BY <3>1, <3>2
  <2> QED BY <2>1, <2>2, <2>4 DEF Exec
<1>13. Left(p, r)
  <2>1. \A b \in Addr : Free(p, b) => Free(r, b)
    BY <1>11 DEF Free
  <2>2. Executes(p, r)
    BY <1>12 DEF Executes
  <2> QED BY <1>9, <1>10, <2>1, <2>2 DEF Left
<1> QED BY <1>4, <1>8, <1>9, <1>13

LEMMA PendingOfType ==
    ASSUME NEW p \in Pools, NEW a
    PROVE  /\ Of(p.pending, a) \in SUBSET Tx /\ IsFiniteSet(Of(p.pending, a))
           /\ PendingOf(p, a) \in Nat /\ Cardinality(p.pending) \in Nat /\ IsFiniteSet(p.pending)
<1>1. p.pending \in SUBSET Tx /\ Of(p.pending, a) \in SUBSET Tx
  BY PoolFields DEF Of
<1> QED BY <1>1, TxFacts DEF PendingOf

\* An account loses its last pending transactions.
LEMMA CutLastFacts ==
    ASSUME NEW p, Sound(p), NEW a \in Addr, a \notin p.locals,
           NEW k \in Nat, k <= PendingOf(p, a)
    PROVE  LET r == CutLast(k, p, a)
           IN  /\ Sound(r) /\ Shed(p, r)
               /\ PendingOf(r, a) = PendingOf(p, a) - k
               /\ Cardinality(r.pending) = Cardinality(p.pending) - k
               /\ \A b \in Addr \ {a} : PendingOf(r, b) = PendingOf(p, b)
<1> DEFINE list == Of(p.pending, a)
           h == PendingOf(p, a) - k
           S == Cap(list, h)
           r == CutPending(p, a, S)
<1>0. /\ p \in Pools /\ Unique(p.all) /\ p.pending \subseteq p.all
      /\ list \in SUBSET Tx /\ IsFiniteSet(list) /\ PendingOf(p, a) \in Nat
      /\ Cardinality(p.pending) \in Nat /\ IsFiniteSet(p.pending)
  BY PendingOfType DEF Sound, Agree
<1>1. \A t, u \in list : t.nonce = u.nonce => t = u
  BY <1>0 DEF Of, Unique
<1>2. PendingOf(p, a) = Cardinality(list) /\ h \in 0..Cardinality(list)
  BY <1>0 DEF PendingOf
<1>3. CutLast(k, p, a) = r
  BY DEF CutLast
<1> HIDE DEF h
<1>4. Cardinality(S) = Cardinality(list) - h /\ S \in SUBSET list
  <2>1. Cardinality(S) = Cardinality(list) - h
    <3> HIDE DEF list
    <3> QED BY <1>0, <1>1, <1>2, CapCount
  <2> QED BY <2>1 DEF Cap
<1>5. Cardinality(S) = k
  <2>1. h = Cardinality(list) - k
    BY <1>2 DEF h
  <2> HIDE DEF list, S
  <2> QED BY <1>0, <1>2, <1>4, <2>1
<1>6. OfOne(S, p.pending, a) /\ Upper(S, p.pending, a)
  <2>1. ASSUME NEW t \in S, NEW u \in p.pending, u.from = a, t.nonce =< u.nonce
        PROVE  u \in S
    <3> DEFINE T == {v \in list : v.nonce =< t.nonce}
               U == {v \in list : v.nonce =< u.nonce}
    <3>1. t \in list /\ u \in list /\ \A v \in list : v.nonce \in Nat
      BY <1>0, <1>4, <2>1, TxFacts DEF Of
    <3>2. T \in SUBSET U /\ U \in SUBSET list
      BY <2>1, <3>1
    <3>3. Cardinality(T) > h
      BY <2>1 DEF Cap
    <3>4. IsFiniteSet(U) /\ Cardinality(U) \in Nat
      <4> HIDE DEF list, T, U
      <4> QED BY <1>0, <3>2, FS_Subset, FS_CardinalityType
    <3>5. Cardinality(T) <= Cardinality(U) /\ Cardinality(T) \in Nat
      <4> HIDE DEF list, T, U
      <4> QED BY <3>2, <3>4, FS_Subset, FS_CardinalityType
    <3>6. h \in Nat
      BY <1>0 DEF h
    <3>7. Cardinality(U) > h
      <4> HIDE DEF T, U
      <4> QED BY <3>3, <3>4, <3>5, <3>6
    <3> QED BY <3>1, <3>7 DEF Cap
  <2> QED BY <1>4, <2>1 DEF OfOne, Upper
<1> HIDE DEF S
<1>7. Sound(r) /\ Shed(p, r) /\ r.pending = p.pending \ S
  <2>1. Sound(r) /\ Left(p, r) /\ r.pending = p.pending \ S /\ r.all = p.all \ S
    BY <1>6, CutPendingFacts
  <2> HIDE DEF r
  <2>2. \A t \in S : t.from \notin p.locals
    BY <1>4 DEF Of
  <2> QED BY <2>1, <2>2, SparesAllBut DEF Shed
<1> HIDE DEF r
<1>8. Of(r.pending, a) = list \ S /\ list \intersect S = S /\ p.pending \intersect S = S
  BY <1>4, <1>7 DEF Of
<1>9. Cardinality(list \ S) = Cardinality(list) - Cardinality(list \intersect S)
  <2> HIDE DEF list
  <2> QED BY <1>0, FS_Difference
<1>10. Cardinality(p.pending \ S) = Cardinality(p.pending) - Cardinality(p.pending \intersect S)
  BY <1>0, FS_Difference
<1>11. PendingOf(r, a) = PendingOf(p, a) - k
  BY <1>2, <1>5, <1>8, <1>9 DEF PendingOf
<1>12. Cardinality(r.pending) = Cardinality(p.pending) - k
  BY <1>5, <1>7, <1>8, <1>10
<1>13. ASSUME NEW b \in Addr \ {a}
       PROVE  PendingOf(r, b) = PendingOf(p, b)
  <2>1. Of(r.pending, b) = Of(p.pending, b)
    BY <1>4, <1>7 DEF Of
  <2> QED BY <2>1 DEF PendingOf
<1> QED BY <1>3, <1>7, <1>11, <1>12, <1>13

CutInv(c, i, q) ==
    /\ Sound(q) /\ Shed(c.pool, q)
    /\ Cardinality(q.pending) = Cardinality(c.pool.pending) - i * c.rounds
    /\ \A j \in 1..i : PendingOf(q, c.offenders[j]) = PendingOf(c.pool, c.offenders[j]) - c.rounds
    /\ \A b \in Addr : (\A j \in 1..i : c.offenders[j] # b) => PendingOf(q, b) = PendingOf(c.pool, b)

Cutting == INSTANCE Loops WITH Step <- LAMBDA c, q, a : CutLast(c.rounds, q, a), Inv <- CutInv

LEMMA TimesStep ==
    ASSUME NEW i \in Int, NEW k \in Int
    PROVE  i * k = (i - 1) * k + k /\ i * k \in Int /\ (i - 1) * k \in Int
<1>1. (i - 1) * k = i * k - k
  OBVIOUS
<1> QED BY <1>1

\* All offenders lose the same number of transactions.
\* The accounts s have each lost k pending transactions.
WasCut(p, r, s, k) ==
    /\ Sound(r) /\ Shed(p, r)
    /\ Cardinality(r.pending) = Cardinality(p.pending) - Len(s) * k
    /\ \A j \in 1..Len(s) : PendingOf(r, s[j]) = PendingOf(p, s[j]) - k
    /\ \A b \in Addr : (\A j \in 1..Len(s) : s[j] # b) => PendingOf(r, b) = PendingOf(p, b)

AreAtLeast(p, s, k) == \A j \in 1..Len(s) : k <= PendingOf(p, s[j])

AreRemote(p, s) == \A j \in 1..Len(s) : s[j] \notin p.locals

LEMMA CutRoundsFacts ==
    ASSUME NEW p, Sound(p), NEW s \in Seq(Addr), Distinct(s, Len(s)), NEW k \in Nat, k > 0,
           AreAtLeast(p, s, k), AreRemote(p, s)
    PROVE  WasCut(p, CutRounds(p, s, k), s, k)
<1> DEFINE c == [pool |-> p, rounds |-> k, offenders |-> s]
           r == Cutting!Fold(c, p, s)
<1>0. Len(s) \in Nat /\ p \in Pools /\ Cardinality(p.pending) \in Nat
  BY PendingOfType DEF Sound, Agree
<1>1. CutRounds(p, s, k) = r
  <2>1. ~(k =< 0) /\ c.rounds = k
    OBVIOUS
  <2> HIDE DEF c
  <2>2. CutRounds(p, s, k) = FoldLeft(LAMBDA q, a : CutLast(k, q, a), p, s)
    BY <2>1 DEF CutRounds
  <2> QED BY <2>1, <2>2, Zenon DEF FoldLeft, MapThenFoldSet, Max, Cutting!Fold, Cutting!Highest
<1>2. CutInv(c, 0, p)
  <2>1. 0 * k = 0
    OBVIOUS
  <2>2. Cardinality(p.pending) = Cardinality(p.pending) - 0 * k
    BY <1>0, <2>1
  <2> QED BY <2>2, ShedFacts DEF CutInv
<1>3. ASSUME NEW i \in 1..Len(s), NEW q, CutInv(c, i - 1, q)
      PROVE  CutInv(c, i, CutLast(k, q, s[i]))
  <2> DEFINE a == s[i]
             x == CutLast(k, q, a)
  <2>1. /\ Sound(q) /\ Shed(p, q)
        /\ Cardinality(q.pending) = Cardinality(p.pending) - (i - 1) * k
        /\ \A j \in 1..(i - 1) : PendingOf(q, s[j]) = PendingOf(p, s[j]) - k
        /\ \A b \in Addr : (\A j \in 1..(i - 1) : s[j] # b) => PendingOf(q, b) = PendingOf(p, b)
    BY <1>3 DEF CutInv
  <2>2. \A j \in 1..i : s[j] \in Addr /\ (j \in 1..(i - 1) \/ j = i)
    BY <1>0
  <2>3. \A j \in 1..(i - 1) : j \in 1..i /\ j # i /\ s[j] # a
    BY <1>0 DEF Distinct
  <2>4. a \in Addr /\ PendingOf(q, a) = PendingOf(p, a) /\ k <= PendingOf(q, a) /\ a \notin q.locals
    <3>1. a \in Addr
      OBVIOUS
    <3>2. PendingOf(q, a) = PendingOf(p, a)
      BY <3>1, <2>1, <2>3
    <3>3. q.locals = p.locals
      BY <2>1, ShedFacts
    <3> QED BY <3>1, <3>2, <3>3 DEF AreAtLeast, AreRemote
  <2> HIDE DEF a
  <2>5. /\ Sound(x) /\ Shed(q, x)
        /\ PendingOf(x, a) = PendingOf(q, a) - k
        /\ Cardinality(x.pending) = Cardinality(q.pending) - k
        /\ \A b \in Addr \ {a} : PendingOf(x, b) = PendingOf(q, b)
    BY <2>1, <2>4, CutLastFacts
  <2> HIDE DEF x
  <2>6. Shed(p, x)
    BY <2>1, <2>5, ShedFacts
  <2>7. Cardinality(x.pending) = Cardinality(p.pending) - i * k
    <3>1. i * k = (i - 1) * k + k /\ i * k \in Int /\ (i - 1) * k \in Int
      BY TimesStep
    <3> DEFINE y == i * k
               z == (i - 1) * k
    <3>2. y = z + k /\ y \in Int /\ z \in Int
      BY <3>1
    <3>3. Cardinality(x.pending) = Cardinality(p.pending) - z - k
      BY <2>1, <2>5
    <3> HIDE DEF y, z
    <3>4. Cardinality(x.pending) = Cardinality(p.pending) - y
      BY <1>0, <3>2, <3>3
    <3> QED BY <3>4 DEF y
  <2>8. ASSUME NEW j \in 1..i
        PROVE  PendingOf(x, s[j]) = PendingOf(p, s[j]) - k
    <3>1. CASE j = i
      BY <2>4, <2>5, <3>1 DEF a
    <3>2. CASE j \in 1..(i - 1)
      <4>1. s[j] \in Addr \ {a}
        BY <2>2, <2>3, <3>2
      <4> QED BY <2>1, <2>5, <3>2, <4>1
    <3> QED BY <2>2, <3>1, <3>2
  <2>9. ASSUME NEW b \in Addr, \A j \in 1..i : s[j] # b
        PROVE  PendingOf(x, b) = PendingOf(p, b)
    <3>1. b # a /\ \A j \in 1..(i - 1) : s[j] # b
      BY <2>3, <2>9 DEF a
    <3> QED BY <2>1, <2>5, <3>1
  <2>10. CutInv(c, i, x)
    BY <2>5, <2>6, <2>7, <2>8, <2>9 DEF CutInv
  <2> QED BY <2>10 DEF x, a
<1>4. CutInv(c, Len(s), r)
  <2>1. \A i \in 1..Len(s) : \A x : CutInv(c, i - 1, x) => CutInv(c, i, CutLast(c.rounds, x, s[i]))
    BY <1>3
  <2> HIDE DEF c
  <2> QED BY <1>2, <2>1, Cutting!LoopRule
<1> HIDE DEF r
<1> QED BY <1>1, <1>4 DEF CutInv, WasCut

Offending(p) == {a \in Addr \ p.locals : PendingOf(p, a) > AccountSlots}

\* The spam order: each offender once, the largest first.
LEMMA SpammersFacts ==
    ASSUME NEW p \in Pools
    PROVE  LET s == Spammers(p)
           IN  /\ s \in Seq(Addr) /\ ToSet(s) = Offending(p) /\ Distinct(s, Len(s))
               /\ \A i, j \in 1..Len(s) : i < j => PendingOf(p, s[i]) >= PendingOf(p, s[j])
<1> DEFINE S == Offending(p)
           R == {e \in S \X S : Larger(p, e[1], e[2])}
           f == Spammers(p)
<1>0. \A a \in S : a \in Addr /\ PendingOf(p, a) \in Nat /\ RankOf(a) \in Nat
  BY PendingOfType, RankOfFacts DEF Offending
<1>1. IsFiniteSet(S)
  <2>1. IsFiniteSet(Addr)
    BY TxAssumption, ToSetFacts DEF Addr
  <2>2. S \in SUBSET Addr
    BY DEF Offending
  <2> HIDE DEF S
  <2> QED BY <2>1, <2>2, FS_Subset
<1>2. \A a, b \in S : <<a, b>> \in R <=> Larger(p, a, b)
  OBVIOUS
<1>3. f = InOrder(S, LAMBDA a, b : Larger(p, a, b))
  BY DEF Spammers, Offending
<1>4. f \in [1..Cardinality(S) -> {f[i] : i \in 1..Cardinality(S)}]
  BY <1>3 DEF InOrder
<1> HIDE DEF R
<1>5. Orders(R, S)
  <2>1. \A a \in S : <<a, a>> \notin R
    BY <1>0, <1>2 DEF Larger
  <2>2. \A a, b, c \in S : <<a, b>> \in R /\ <<b, c>> \in R => <<a, c>> \in R
    BY <1>0, <1>2 DEF Larger
  <2>3. ASSUME NEW a \in S, NEW b \in S
        PROVE  a = b \/ <<a, b>> \in R \/ <<b, a>> \in R
    <3>1. PendingOf(p, a) > PendingOf(p, b) \/ PendingOf(p, b) > PendingOf(p, a)
          \/ PendingOf(p, a) = PendingOf(p, b)
      BY <1>0
    <3>2. RankOf(a) < RankOf(b) \/ RankOf(b) < RankOf(a) \/ a = b
      BY <1>0, RankOfFacts
    <3> QED BY <1>2, <3>1, <3>2 DEF Larger
  <2> QED BY <2>1, <2>2, <2>3 DEF Orders
<1>6. ASSUME NEW i \in 1..Cardinality(S), NEW t \in S, Rank(R, S, t) = i - 1
      PROVE  f[i] \in S /\ Rank(R, S, f[i]) = i - 1
  <2>1. \A v \in S : Rank(R, S, v) = Cardinality({u \in S : Larger(p, u, v)})
    <3> SUFFICES ASSUME NEW v \in S
                 PROVE  {u \in S : <<u, v>> \in R} = {u \in S : Larger(p, u, v)}
      BY DEF Rank
    <3> QED BY <1>2
  <2>2. f[i] = CHOOSE v \in S : Cardinality({u \in S : Larger(p, u, v)}) = i - 1
    BY <1>3 DEF InOrder
  <2>3. Cardinality({u \in S : Larger(p, u, t)}) = i - 1
    BY <2>1, <1>6, Zenon
  <2>4. f[i] \in S /\ Cardinality({u \in S : Larger(p, u, f[i])}) = i - 1
    BY <2>2, <2>3, Zenon
  <2> QED BY <2>1, <2>4, Zenon
<1> HIDE DEF f, S
<1>7. /\ f \in Seq(S) /\ Len(f) = Cardinality(S) /\ ToSet(f) = S
      /\ \A i, j \in DOMAIN f : f[i] = f[j] => i = j
      /\ \A i, j \in DOMAIN f : i < j => <<f[i], f[j]>> \in R
  <2>1. ListsByRank(f, R, S)
    BY <1>4, <1>6 DEF ListsByRank
  <2> QED BY <1>1, <1>5, <2>1, RankedSeq
<1>8. DOMAIN f = 1..Len(f) /\ \A i \in 1..Len(f) : f[i] \in S
  BY <1>7
<1>9. f \in Seq(Addr)
  <2>1. S \subseteq Addr
    BY DEF S, Offending
  <2> QED BY <1>7, <2>1
<1>10. ASSUME NEW i \in 1..Len(f), NEW j \in 1..Len(f), i < j
       PROVE  PendingOf(p, f[i]) >= PendingOf(p, f[j])
  <2>1. Larger(p, f[i], f[j])
    BY <1>2, <1>7, <1>8, <1>10
  <2>2. PendingOf(p, f[i]) \in Nat /\ PendingOf(p, f[j]) \in Nat
    BY <1>0, <1>8
  <2> QED BY <2>1, <2>2 DEF Larger
<1>11. Distinct(f, Len(f))
  BY <1>7, <1>8 DEF Distinct
<1> QED BY <1>7, <1>9, <1>10, <1>11 DEF f, S

\* The size to which the first k offenders are cut.
Goal(p, s, k) == IF k = Len(s) THEN AccountSlots ELSE PendingOf(p, s[k + 1])

\* What holds after the first k offenders have been cut: either there are no
\* longer too many pending transactions, or these are cut to the size of the
\* next one.
SpamInv(c, k, q) ==
    /\ Sound(q) /\ Shed(c.pool, q)
    /\ \A j \in (k + 1)..Len(c.spam) : PendingOf(q, c.spam[j]) = PendingOf(c.pool, c.spam[j])
    /\ \/ Cardinality(q.pending) =< GlobalSlots
       \/ \A j \in 1..k : PendingOf(q, c.spam[j]) = Goal(c.pool, c.spam, k)

Limiting ==
    INSTANCE Loops WITH Step <- LAMBDA c, q, k : CutFirst(c.pool, c.spam, q, k), Inv <- SpamInv

LEMMA FirstPart ==
    ASSUME NEW s \in Seq(Addr), Distinct(s, Len(s)), NEW k \in 1..Len(s)
    PROVE  LET f == SubSeq(s, 1, k)
           IN  /\ f \in Seq(Addr) /\ Len(f) = k /\ Distinct(f, k)
               /\ \A j \in 1..k : f[j] = s[j]
<1> DEFINE f == SubSeq(s, 1, k)
<1>1. f \in Seq(Addr) /\ Len(f) = k /\ \A j \in 1..k : f[j] = s[j]
  OBVIOUS
<1>2. \A j \in 1..k : j \in 1..Len(s)
  OBVIOUS
<1> HIDE DEF f
<1>3. Distinct(f, k)
  BY <1>1, <1>2 DEF Distinct
<1> QED BY <1>1, <1>3 DEF f

SameSize(q, f, k, z) == \A j \in 1..k : PendingOf(q, f[j]) = z

\* The accounts f have been cut to the size h, or the pool is small enough.
Equalized(q, r, f, k, h) ==
    /\ Sound(r) /\ Shed(q, r)
    /\ \A b \in Addr : (\A j \in 1..k : f[j] # b) => PendingOf(r, b) = PendingOf(q, b)
    /\ Cardinality(r.pending) =< GlobalSlots \/ SameSize(r, f, k, h)

\* All of the first k offenders have the size z: they are cut to the goal h,
\* or as far as the limit asks for.
LEMMA EqualizeFacts ==
    ASSUME NEW q, Sound(q), NEW f \in Seq(Addr), NEW k \in Nat, k > 0, Len(f) = k, Distinct(f, k),
           NEW z \in Nat, SameSize(q, f, k, z), NEW h \in Nat, h <= z,
           AreRemote(q, f)
    PROVE  Equalized(q, Equalize(q, f, h), f, k, h)
<1> DEFINE over == Cardinality(q.pending) - GlobalSlots
           d == (over + k - 1) \div k
           n == Min({d, z - h})
           r == CutRounds(q, f, n)
<1> \A j \in 1..k : PendingOf(q, f[j]) = z
  BY DEF SameSize
<1>0. q \in Pools /\ Cardinality(q.pending) \in Nat /\ GlobalSlots \in Nat /\ over \in Int
  BY PendingOfType, ConfigAssumption DEF Sound, Agree
<1>1. Equalize(q, f, h) = r
  <2>1. k \in 1..k /\ PendingOf(q, f[k]) = z
    OBVIOUS
  <2> QED BY <2>1 DEF Equalize
<1>2. d \in Int /\ (over <= 0 => d <= 0) /\ (over > 0 => d > 0) /\ k * d >= over
  <2> HIDE DEF over
  <2> QED BY <1>0, RoundsFacts
<1>3. n \in {d, z - h} /\ n <= d /\ n <= z - h
  <2>1. z - h \in Int
    OBVIOUS
  <2>2. d \in Int
    BY <1>2
  <2> HIDE DEF d
  <2> QED BY <2>1, <2>2, MinOfTwo
<1> HIDE DEF d, n
<1>4. n \in Int
  BY <1>2, <1>3
<1>5. CASE n =< 0
  <2>1. r = q
    BY <1>5 DEF CutRounds
  <2>2. CASE over <= 0
    <3>1. Cardinality(q.pending) =< GlobalSlots
      BY <1>0, <2>2
    <3> QED BY <1>1, <2>1, <3>1, ShedFacts DEF Equalized, SameSize
  <2>3. CASE over > 0
    <3>1. z = h
      BY <1>2, <1>3, <1>4, <1>5, <2>3
    <3> QED BY <1>1, <2>1, <3>1, ShedFacts DEF Equalized, SameSize
  <2> QED BY <1>0, <2>2, <2>3
<1>6. CASE n > 0
  <2>1. n \in Nat /\ n <= z
    BY <1>3, <1>4, <1>6
  <2>2. \A j \in 1..k : n <= PendingOf(q, f[j])
    BY <2>1
  <2>3. /\ Sound(r) /\ Shed(q, r)
        /\ Cardinality(r.pending) = Cardinality(q.pending) - k * n
        /\ \A j \in 1..k : PendingOf(r, f[j]) = PendingOf(q, f[j]) - n
        /\ \A b \in Addr : (\A j \in 1..k : f[j] # b) => PendingOf(r, b) = PendingOf(q, b)
    <3>1. AreAtLeast(q, f, n)
      BY <2>2 DEF AreAtLeast
    <3>2. WasCut(q, r, f, n)
      BY <1>6, <2>1, <3>1, CutRoundsFacts
    <3> HIDE DEF r
    <3> QED BY <3>2 DEF WasCut
  <2> HIDE DEF r
  <2>4. CASE n = z - h
    <3>1. z - n = h
      BY <1>4, <2>4
    <3>2. \A j \in 1..k : PendingOf(r, f[j]) = h
      BY <2>3, <3>1
    <3> QED BY <1>1, <2>3, <3>2 DEF Equalized, SameSize
  <2>5. CASE n = d
    <3> DEFINE y == k * n
    <3>1. y \in Int /\ y >= over
      BY <1>2, <2>5
    <3>2. Cardinality(r.pending) = Cardinality(q.pending) - y
      BY <2>3
    <3> HIDE DEF y
    <3>3. Cardinality(r.pending) =< GlobalSlots
      BY <1>0, <3>1, <3>2
    <3> QED BY <1>1, <2>3, <3>3 DEF Equalized
  <2> QED BY <1>3, <2>4, <2>5
<1> QED BY <1>4, <1>5, <1>6

\* Once there are no longer too many, nothing more is cut.
LEMMA EqualizeNone ==
    ASSUME NEW q, Sound(q), NEW f \in Seq(Addr), NEW k \in Nat, k > 0, Len(f) = k,
           NEW h \in Nat, Cardinality(q.pending) =< GlobalSlots
    PROVE  Equalize(q, f, h) = q
<1> DEFINE over == Cardinality(q.pending) - GlobalSlots
           d == (over + k - 1) \div k
           z == PendingOf(q, f[k])
           n == Min({d, z - h})
<1>0. q \in Pools /\ Cardinality(q.pending) \in Nat /\ GlobalSlots \in Nat /\ over \in Int /\ over <= 0
      /\ z \in Nat
  BY PendingOfType, ConfigAssumption DEF Sound, Agree
<1>1. Equalize(q, f, h) = CutRounds(q, f, n)
  BY DEF Equalize
<1>2. d \in Int /\ d <= 0
  <2> HIDE DEF over
  <2> QED BY <1>0, RoundsFacts
<1>3. n \in {d, z - h} /\ n <= d
  <2>1. z - h \in Int
    BY <1>0
  <2> HIDE DEF d, z
  <2> QED BY <1>2, <2>1, MinOfTwo
<1>4. n =< 0
  <2>1. n \in Int
    BY <1>0, <1>2, <1>3
  <2> HIDE DEF d, n
  <2> QED BY <1>2, <1>3, <2>1
<1> QED BY <1>1, <1>4 DEF CutRounds

\* The cut of the first k offenders to the size of the next one.
LEMMA CutFirstFacts ==
    ASSUME NEW p, Sound(p), NEW s \in Seq(Addr), Distinct(s, Len(s)), ToSet(s) = Offending(p),
           \A i, j \in 1..Len(s) : i < j => PendingOf(p, s[i]) >= PendingOf(p, s[j]),
           NEW c, c.pool = p, c.spam = s,
           NEW k \in 1..Len(s), NEW q, SpamInv(c, k - 1, q)
    PROVE  SpamInv(c, k, CutFirst(p, s, q, k))
<1> DEFINE f == SubSeq(s, 1, k)
           h == Goal(p, s, k)
           z == PendingOf(p, s[k])
           r == CutFirst(p, s, q, k)
<1>0. Len(s) \in Nat /\ k \in Nat /\ k > 0 /\ \A j \in 1..Len(s) : s[j] \in Addr
  OBVIOUS
<1>1. r = Equalize(q, f, h)
  BY DEF CutFirst, Goal
<1>2. f \in Seq(Addr) /\ Len(f) = k /\ Distinct(f, k) /\ \A j \in 1..k : f[j] = s[j]
  BY FirstPart
<1> HIDE DEF f
<1>3. \A a : PendingOf(p, a) \in Nat
  BY PendingOfType DEF Sound, Agree
<1>4. z \in Nat /\ z > AccountSlots /\ AccountSlots \in Nat
  <2>1. s[k] \in ToSet(s)
    BY DEF ToSet
  <2>2. PendingOf(p, s[k]) > AccountSlots
    BY <2>1 DEF Offending
  <2> QED BY <1>3, <2>2, ConfigAssumption
<1>5. h \in Nat /\ h <= z
  <2>1. CASE k = Len(s)
    BY <1>4, <2>1 DEF Goal
  <2>2. CASE k # Len(s)
    <3>1. k + 1 \in 1..Len(s) /\ k < k + 1
      BY <1>0, <2>2
    <3>2. h = PendingOf(p, s[k + 1])
      BY <2>2 DEF Goal
    <3>3. PendingOf(p, s[k]) >= PendingOf(p, s[k + 1])
      BY <3>1
    <3> QED BY <1>3, <3>2, <3>3
  <2> QED BY <2>1, <2>2
<1>6. /\ Sound(q) /\ Shed(p, q)
      /\ \A j \in k..Len(s) : PendingOf(q, s[j]) = PendingOf(p, s[j])
      /\ \/ Cardinality(q.pending) =< GlobalSlots
         \/ \A j \in 1..(k - 1) : PendingOf(q, s[j]) = Goal(p, s, k - 1)
  <2>1. (k - 1) + 1 = k
    BY <1>0
  <2> QED BY <2>1 DEF SpamInv
<1> HIDE DEF h, r
<1>7. CASE Cardinality(q.pending) =< GlobalSlots
  <2>1. r = q
    BY <1>0, <1>1, <1>2, <1>5, <1>6, <1>7, EqualizeNone
  <2>2. \A j \in (k + 1)..Len(s) : PendingOf(q, s[j]) = PendingOf(p, s[j])
    BY <1>0, <1>6
  <2>3. SpamInv(c, k, q)
    BY <1>6, <1>7, <2>2 DEF SpamInv
  <2> QED BY <2>1, <2>3 DEF r
<1>8. CASE \A j \in 1..(k - 1) : PendingOf(q, s[j]) = Goal(p, s, k - 1)
  <2>1. Goal(p, s, k - 1) = z
    <3>1. k - 1 # Len(s) /\ (k - 1) + 1 = k
      BY <1>0
    <3> QED BY <3>1 DEF Goal
  <2>2. ASSUME NEW j \in 1..k
        PROVE  PendingOf(q, f[j]) = z
    <3>1. CASE j = k
      <4>1. k \in k..Len(s)
        BY <1>0
      <4> QED BY <1>2, <1>6, <3>1, <4>1
    <3>2. CASE j \in 1..(k - 1)
      BY <1>2, <1>8, <2>1, <3>2
    <3> QED BY <1>0, <3>1, <3>2
  <2> HIDE DEF z
  <2>3. /\ Sound(r) /\ Shed(q, r)
        /\ \A b \in Addr : (\A j \in 1..k : f[j] # b) => PendingOf(r, b) = PendingOf(q, b)
        /\ \/ Cardinality(r.pending) =< GlobalSlots
           \/ \A j \in 1..k : PendingOf(r, f[j]) = h
    <3>1. SameSize(q, f, k, z)
      BY <2>2 DEF SameSize
    <3>2. f \in Seq(Addr) /\ k \in Nat /\ k > 0 /\ Len(f) = k /\ Distinct(f, k)
      BY <1>0, <1>2
    <3>3. z \in Nat /\ h \in Nat /\ h <= z /\ Sound(q)
      BY <1>4, <1>5, <1>6
    <3>4. AreRemote(q, f)
      <4>1. \A j \in 1..k : f[j] \in ToSet(s)
        BY <1>0, <1>2 DEF ToSet
      <4>2. q.locals = p.locals
        BY <1>6, ShedFacts
      <4> QED BY <3>2, <4>1, <4>2 DEF Offending, AreRemote
    <3>5. Equalized(q, Equalize(q, f, h), f, k, h)
      BY <3>1, <3>2, <3>3, <3>4, EqualizeFacts
    <3>6. Equalized(q, r, f, k, h)
      BY <1>1, <3>5
    <3> HIDE DEF r
    <3> QED BY <3>6 DEF Equalized, SameSize
  <2>4. Shed(p, r)
    BY <1>6, <2>3, ShedFacts
  <2>5. ASSUME NEW j \in (k + 1)..Len(s)
        PROVE  PendingOf(r, s[j]) = PendingOf(p, s[j])
    <3>1. j \in 1..Len(s) /\ j \in k..Len(s) /\ \A i \in 1..k : i \in 1..Len(s) /\ i # j
      BY <1>0
    <3>2. \A i \in 1..k : f[i] # s[j]
      BY <1>2, <3>1 DEF Distinct
    <3> QED BY <1>0, <1>6, <2>3, <3>1, <3>2
  <2>6. \/ Cardinality(r.pending) =< GlobalSlots
        \/ \A j \in 1..k : PendingOf(r, s[j]) = Goal(p, s, k)
    BY <1>2, <2>3 DEF h
  <2> HIDE DEF r
  <2>7. SpamInv(c, k, r)
    BY <2>3, <2>4, <2>5, <2>6 DEF SpamInv
  <2> QED BY <2>7 DEF r
<1> QED BY <1>6, <1>7, <1>8

\* When too many transactions are pending, no remote account has more than its
\* guaranteed slots.
Quota(p) ==
    Cardinality(p.pending) > GlobalSlots =>
        \A a \in Addr \ p.locals : PendingOf(p, a) <= AccountSlots

LEMMA CutSpammersIsFold ==
    ASSUME NEW c
    PROVE  CutSpammers(c.pool, c.spam) = Limiting!Fold(c, c.pool, [k \in DOMAIN c.spam |-> k])
BY Zenon DEF CutSpammers, FoldLeft, MapThenFoldSet, Max, Limiting!Fold, Limiting!Highest

LEMMA LimitPendingFacts ==
    ASSUME NEW p, Sound(p)
    PROVE  LET r == LimitPending(p)
           IN  Sound(r) /\ Shed(p, r) /\ Quota(r)
<1> DEFINE s == Spammers(p)
           c == [pool |-> p, spam |-> s]
           ks == [k \in DOMAIN s |-> k]
           r == LimitPending(p)
<1>1. /\ s \in Seq(Addr) /\ ToSet(s) = Offending(p) /\ Distinct(s, Len(s))
      /\ \A i, j \in 1..Len(s) : i < j => PendingOf(p, s[i]) >= PendingOf(p, s[j])
  BY SpammersFacts DEF Sound, Agree
<1> HIDE DEF s
<1>2. c.pool = p /\ c.spam = s
  OBVIOUS
<1>3. ks \in Seq(Nat) /\ Len(ks) = Len(s) /\ \A k \in 1..Len(s) : ks[k] = k
  BY <1>1
<1> HIDE DEF c, ks
<1>4. r = Limiting!Fold(c, p, ks)
  <2>1. CutSpammers(c.pool, c.spam) = Limiting!Fold(c, c.pool, [k \in DOMAIN c.spam |-> k])
    BY CutSpammersIsFold
  <2> QED BY <1>2, <2>1 DEF r, LimitPending, s, ks
<1>5. SpamInv(c, 0, p)
  <2>1. \A j \in 1..0 : PendingOf(p, s[j]) = Goal(p, s, 0)
    OBVIOUS
  <2> QED BY <1>2, <2>1, ShedFacts DEF SpamInv
<1>6. \A k \in 1..Len(ks) : \A q : SpamInv(c, k - 1, q) => SpamInv(c, k, CutFirst(c.pool, c.spam, q, ks[k]))
  BY <1>1, <1>2, <1>3, CutFirstFacts
<1>7. SpamInv(c, Len(ks), r)
  BY <1>3, <1>4, <1>5, <1>6, Limiting!LoopRule
<1> HIDE DEF r
<1>8. /\ Sound(r) /\ Shed(p, r)
      /\ \/ Cardinality(r.pending) =< GlobalSlots
         \/ \A j \in 1..Len(s) : PendingOf(r, s[j]) = AccountSlots
  BY <1>2, <1>3, <1>7 DEF SpamInv, Goal
<1>9. p \in Pools /\ r \in Pools /\ AccountSlots \in Nat /\ GlobalSlots \in Nat
  BY <1>8, ConfigAssumption DEF Sound, Agree
<1>10. Slim(p, r)
  BY <1>8, <1>9, SlimFacts DEF Shed, Left
<1>11. ASSUME NEW a \in Addr \ r.locals, \A j \in 1..Len(s) : PendingOf(r, s[j]) = AccountSlots
       PROVE  PendingOf(r, a) <= AccountSlots
  <2>1. PendingOf(p, a) \in Nat /\ PendingOf(r, a) \in Nat /\ PendingOf(r, a) <= PendingOf(p, a)
    BY <1>9, <1>10, PendingOfType DEF Slim
  <2>2. CASE a \in Offending(p)
    <3>1. \E j \in 1..Len(s) : s[j] = a
      BY <1>1, <2>2 DEF ToSet
    <3> QED BY <1>9, <1>11, <3>1
  <2>3. CASE a \notin Offending(p)
    <3>1. a \in Addr \ p.locals
      BY <1>8, ShedFacts
    <3>2. ~(PendingOf(p, a) > AccountSlots)
      BY <2>3, <3>1 DEF Offending
    <3> QED BY <1>9, <2>1, <3>2
  <2> QED BY <2>2, <2>3
<1>12. Quota(r)
  <2>1. CASE Cardinality(r.pending) =< GlobalSlots
    <3>1. Cardinality(r.pending) \in Nat
      BY <1>9, PendingOfType
    <3> QED BY <1>9, <2>1, <3>1 DEF Quota
  <2>2. CASE \A j \in 1..Len(s) : PendingOf(r, s[j]) = AccountSlots
    BY <1>11, <2>2 DEF Quota
  <2> QED BY <1>8, <2>1, <2>2
<1> QED BY <1>8, <1>12 DEF r

-----------------------------------------------------------------------------
(* Cutting the queue, and promoteExecutables *)

LEMMA ReverseFacts ==
    ASSUME NEW S, NEW s \in Seq(S)
    PROVE  Reverse(s) \in Seq(S) /\ Len(Reverse(s)) = Len(s)
<1>1. Len(s) \in Nat /\ \A i \in 1..Len(s) : s[(Len(s) - i) + 1] \in S
  <2>1. Len(s) \in Nat
    OBVIOUS
  <2>2. \A i \in 1..Len(s) : (Len(s) - i) + 1 \in 1..Len(s)
    BY <2>1
  <2> QED BY <2>1, <2>2
<1> DEFINE f == [i \in 1..Len(s) |-> s[(Len(s) - i) + 1]]
           n == Len(s)
<1>2. f \in [1..n -> S] /\ n \in Nat
  BY <1>1
<1>3. Reverse(s) = f
  BY DEF Reverse
<1> HIDE DEF f, n
<1>4. f \in Seq(S) /\ Len(f) = n
  BY <1>2, FunctionIsSeq
<1> QED BY <1>3, <1>4 DEF n

\* Transactions of remote accounts are removed.
LEMMA RemoveRemotes ==
    ASSUME NEW p, Sound(p), NEW S, NEW txs \in Seq(S), \A t \in S : t.from \notin p.locals
    PROVE  LET r == RemoveTxs(p, txs, TRUE)
           IN  Sound(r) /\ Shed(p, r)
<1> DEFINE r == RemoveTxs(p, txs, TRUE)
<1>1. Sound(r) /\ r.all = p.all \ ToSet(txs) /\ Left(p, r)
  BY RemoveTxsFacts
<1> HIDE DEF r
<1>2. ToSet(txs) \subseteq S
  BY DEF ToSet
<1>3. Spares(p, r)
  BY <1>1, <1>2, SparesAllBut
<1> QED BY <1>1, <1>3 DEF Shed, r

LEMMA DropQueuedFacts ==
    ASSUME NEW p, Sound(p), NEW S, NEW txs \in Seq(S), NEW n \in 0..Len(txs),
           \A t \in S : t.from \notin p.locals
    PROVE  LET r == DropQueued(p, txs, n)
           IN  Sound(r) /\ Shed(p, r)
<1> DEFINE late == SubSeq(txs, Len(txs) - n + 1, Len(txs))
           s == IF n = Len(txs) THEN txs ELSE Reverse(late)
<1>1. late \in Seq(S)
  OBVIOUS
<1> HIDE DEF late
<1>2. Reverse(late) \in Seq(S)
  BY <1>1, ReverseFacts
<1>3. s \in Seq(S)
  BY <1>2
<1>4. DropQueued(p, txs, n) = RemoveTxs(p, s, TRUE)
  BY DEF DropQueued, late
<1> HIDE DEF s
<1>5. LET r == RemoveTxs(p, s, TRUE) IN Sound(r) /\ Shed(p, r)
  BY <1>3, RemoveRemotes
<1> QED BY <1>4, <1>5

\* The queued transactions of an account, one after the other.
LEMMA QueuedFacts ==
    ASSUME NEW p, Sound(p), NEW a
    PROVE  /\ ByNonce(Of(p.queue, a)) \in Seq(Of(p.queue, a))
           /\ Len(ByNonce(Of(p.queue, a))) = Cardinality(Of(p.queue, a))
           /\ ToSet(ByNonce(Of(p.queue, a))) = Of(p.queue, a)
           /\ Cardinality(Of(p.queue, a)) \in Nat /\ Cardinality(p.queue) \in Nat
<1> DEFINE list == Of(p.queue, a)
<1>1. list \in SUBSET Tx /\ p.queue \in SUBSET Tx
  BY PoolFields DEF Of, Sound, Agree
<1>2. \A t, u \in list : t.nonce = u.nonce => t = u
  BY DEF Of, Sound, Agree, Unique
<1> HIDE DEF list
<1>3. \A t \in list : t.nonce \in Nat
  BY <1>1, TxFacts
<1>4. /\ IsFiniteSet(list) /\ Cardinality(list) \in Nat /\ Cardinality(p.queue) \in Nat
  BY <1>1, TxFacts
<1>5. ByNonce(list) \in Seq(list) /\ Len(ByNonce(list)) = Cardinality(list)
      /\ ToSet(ByNonce(list)) = list
  BY <1>2, <1>3, <1>4, ByNonceFacts
<1> QED BY <1>4, <1>5 DEF list

LEMMA LimitAccountFacts ==
    ASSUME NEW p, Sound(p), NEW a, NEW A, A \intersect p.locals = {}
    PROVE  LET r == LimitAccount(A, p, a)
           IN  Sound(r) /\ Shed(p, r)
<1> DEFINE s == ByNonce(Of(p.queue, a))
           m == Cardinality(Of(p.queue, a))
           e == Excess(p)
           n == Min({m, e})
           r == LimitAccount(A, p, a)
<1>1. CASE a \notin A \/ e =< 0
  BY <1>1, ShedFacts DEF LimitAccount
<1>2. CASE ~(a \notin A \/ e =< 0)
  <2>1. s \in Seq(Of(p.queue, a)) /\ Len(s) = m /\ m \in Nat /\ Cardinality(p.queue) \in Nat
    BY QueuedFacts
  <2>2. e \in Int
    BY <2>1, ConfigAssumption DEF Excess
  <2>3. r = DropQueued(p, s, n)
    BY <1>2 DEF LimitAccount
  <2>4. n \in {m, e} /\ n <= m /\ n <= e
    <3>1. m \in Int /\ e \in Int
      BY <2>1, <2>2
    <3> HIDE DEF m, e
    <3> QED BY <3>1, MinOfTwo
  <2> HIDE DEF n, m, s, e
  <2>5. n \in 0..Len(s)
    BY <1>2, <2>1, <2>2, <2>4
  <2>6. LET x == DropQueued(p, s, n) IN Sound(x) /\ Shed(p, x)
    <3>1. \A t \in Of(p.queue, a) : t.from \notin p.locals
      BY <1>2 DEF Of
    <3> QED BY <2>1, <2>5, <3>1, DropQueuedFacts
  <2> QED BY <2>3, <2>6
<1> QED BY <1>1, <1>2

LimitInv(c, i, q) == Sound(q) /\ Shed(c.pool, q)

Queueing == INSTANCE Loops WITH Step <- LAMBDA c, q, a : LimitAccount(c.accounts, q, a), Inv <- LimitInv

LEMMA LimitAccountsIsFold ==
    ASSUME NEW c, NEW order
    PROVE  LimitAccounts(c.pool, c.accounts, order) = Queueing!Fold(c, c.pool, Reverse(order))
BY Zenon DEF LimitAccounts, FoldLeft, MapThenFoldSet, Max, Queueing!Fold, Queueing!Highest

LEMMA LimitAccountsFacts ==
    ASSUME NEW p, Sound(p), NEW A, A \intersect p.locals = {}, NEW order \in Seq(Addr)
    PROVE  LET r == LimitAccounts(p, A, order)
           IN  Sound(r) /\ Shed(p, r)
<1> DEFINE c == [pool |-> p, accounts |-> A]
           s == Reverse(order)
           r == Queueing!Fold(c, p, s)
<1>1. c.pool = p /\ c.accounts = A
  OBVIOUS
<1> HIDE DEF c
<1>2. LimitAccounts(p, A, order) = r
  BY <1>1, LimitAccountsIsFold
<1>3. s \in Seq(Addr)
  BY ReverseFacts
<1> HIDE DEF s
<1>4. LimitInv(c, 0, p)
  BY <1>1, ShedFacts DEF LimitInv
<1>5. ASSUME NEW i \in 1..Len(s), NEW q, LimitInv(c, i - 1, q)
      PROVE  LimitInv(c, i, LimitAccount(c.accounts, q, s[i]))
  <2> DEFINE x == LimitAccount(A, q, s[i])
  <2>1. Sound(q) /\ Shed(p, q)
    BY <1>1, <1>5 DEF LimitInv
  <2>2. Sound(x) /\ Shed(q, x)
    <3>1. A \intersect q.locals = {}
      BY <2>1, ShedFacts
    <3> QED BY <2>1, <3>1, LimitAccountFacts
  <2> HIDE DEF x
  <2>3. Shed(p, x)
    BY <2>1, <2>2, ShedFacts
  <2> QED BY <1>1, <2>2, <2>3 DEF LimitInv, x
<1>6. \A i \in 1..Len(s) : \A x : LimitInv(c, i - 1, x) => LimitInv(c, i, LimitAccount(c.accounts, x, s[i]))
  BY <1>5
<1>7. LimitInv(c, Len(s), r)
  BY <1>3, <1>4, <1>6, Queueing!LoopRule
<1> HIDE DEF r
<1> QED BY <1>1, <1>2, <1>7 DEF LimitInv

LEMMA LimitQueueFacts ==
    ASSUME NEW p, Sound(p)
    PROVE  LET r == LimitQueue(p)
           IN  Sound(r) /\ Shed(p, r)
<1> DEFINE A == ToSet(p.beats) \ p.locals
           B == Addr \ (ToSet(p.beats) \union p.locals)
           q == LimitAccounts(p, A, p.beats)
           r == LimitAccounts(q, B, Accounts)
<1>1. LimitQueue(p) = r
  BY DEF LimitQueue
<1>2. p.beats \in Seq(Addr) /\ Accounts \in Seq(Addr)
  BY PoolFields, TxAssumption DEF Sound, Agree
<1>0. A \intersect p.locals = {} /\ B \intersect p.locals = {}
  OBVIOUS
<1> HIDE DEF A, B
<1>3. Sound(q) /\ Shed(p, q)
  BY <1>0, <1>2, LimitAccountsFacts
<1> HIDE DEF q
<1>4. Sound(r) /\ Shed(q, r)
  <2>1. B \intersect q.locals = {}
    BY <1>0, <1>3, ShedFacts
  <2> QED BY <1>2, <1>3, <2>1, LimitAccountsFacts
<1> HIDE DEF r
<1>5. Shed(p, r)
  BY <1>3, <1>4, ShedFacts
<1> QED BY <1>1, <1>4, <1>5

LEMMA QuotaSlim ==
    ASSUME NEW p \in Pools, NEW q \in Pools, Slim(p, q), p.locals \subseteq q.locals, Quota(p)
    PROVE  Quota(q)
<1>1. SUFFICES ASSUME Cardinality(q.pending) > GlobalSlots, NEW a \in Addr \ q.locals
               PROVE  PendingOf(q, a) <= AccountSlots
  BY DEF Quota
<1>2. Cardinality(p.pending) \in Nat /\ Cardinality(q.pending) \in Nat
      /\ PendingOf(p, a) \in Nat /\ PendingOf(q, a) \in Nat
      /\ GlobalSlots \in Nat /\ AccountSlots \in Nat
  BY PendingOfType, ConfigAssumption
<1>3. Cardinality(q.pending) <= Cardinality(p.pending) /\ PendingOf(q, a) <= PendingOf(p, a)
  BY DEF Slim
<1>4. Cardinality(p.pending) > GlobalSlots /\ a \in Addr \ p.locals
  BY <1>1, <1>2, <1>3
<1>5. PendingOf(p, a) <= AccountSlots
  BY <1>4 DEF Quota
<1> QED BY <1>2, <1>3, <1>5

LEMMA QuotaLeft ==
    ASSUME NEW p, Sound(p), NEW q, Sound(q), Left(p, q), Quota(p)
    PROVE  Quota(q)
<1>1. p \in Pools /\ q \in Pools /\ q.pending \subseteq p.pending /\ p.locals \subseteq q.locals
  BY DEF Sound, Agree, Left, Steady
<1>2. Slim(p, q)
  BY <1>1, SlimFacts
<1> QED BY <1>1, <1>2, QuotaSlim

\* When promoteExecutables has looked at every account whose next nonce may
\* wait in the queue, none does, and the executable transactions are within
\* their limits.
LEMMA PromoteExecutablesFacts ==
    ASSUME NEW p, Sound(p), NEW A
    PROVE  LET r == promoteExecutables(p, A)
           IN  /\ Sound(r) /\ Kept(p, r) /\ Quota(r)
               /\ (\A a \in Addr \ A : Free(p, a)) => \A a \in Addr : Free(r, a)
               /\ \A a \in Addr \intersect A : PendingValid(p, a) => AllValid(r, a)
<1> DEFINE x == PromoteEach(p, A)
           y == LimitPending(x)
           r == LimitQueue(y)
<1>1. promoteExecutables(p, A) = r
  BY DEF promoteExecutables, PromoteEach
<1>2. Sound(x) /\ Kept(p, x) /\ \A a \in Addr \intersect A : Promoted(p, x, a)
  BY PromoteEachFacts
<1> HIDE DEF x
<1>3. Sound(y) /\ Shed(x, y) /\ Quota(y)
  BY <1>2, LimitPendingFacts
<1> HIDE DEF y
<1>4. Sound(r) /\ Shed(y, r)
  BY <1>3, LimitQueueFacts
<1> HIDE DEF r
<1>5. Quota(r)
  BY <1>3, <1>4, QuotaLeft, ShedFacts
<1>6. Kept(x, r)
  <2>1. Kept(x, y) /\ Kept(y, r)
    BY <1>3, <1>4, ShedFacts
  <2> QED BY <2>1, KeptFacts
<1>7. Kept(p, r)
  BY <1>2, <1>6, KeptFacts
<1>8. ASSUME \A a \in Addr \ A : Free(p, a)
      PROVE  \A a \in Addr : Free(r, a)
  <2>1. \A a \in Addr : Free(x, a)
    BY <1>2, <1>8 DEF Kept, Promoted
  <2> QED BY <1>6, <2>1 DEF Kept
<1>9. ASSUME NEW a \in Addr \intersect A, PendingValid(p, a)
      PROVE  AllValid(r, a)
  <2>1. AllValid(x, a)
    BY <1>2, <1>9 DEF Promoted
  <2> QED BY <1>6, <2>1, AllValidFacts DEF Kept
<1> QED BY <1>1, <1>4, <1>5, <1>7, <1>8, <1>9

-----------------------------------------------------------------------------
(* addTxsLocked *)

\* What came into the pool q, after p, from a local account is journaled.
Journaled(p, q) ==
    \A x \in q.all : x.from \in q.locals /\ x \notin p.all => x \in ToSet(q.journal)

\* What came into the pool is valid.
NewValid(p, q) == \A t \in q.all : t \in p.all \/ ValidIn(q, t)

\* The pool q comes from p by operations that take local transactions only if
\* isLocal is true.
Later(p, q, isLocal) ==
    /\ Sound(q)
    /\ q.currentState = p.currentState
    /\ p.locals \subseteq q.locals /\ (~isLocal => q.locals = p.locals)
    /\ ToSet(p.journal) \subseteq ToSet(q.journal)
    /\ Roomy(p) => Roomy(q)
    /\ Stays(p, q) /\ NewValid(p, q)

\* The pool q has no transaction that p does not have, and lacks no valid one
\* of a local account.
Shrunk(p, q) == q.all \subseteq p.all /\ Steady(p, q) /\ Spares(p, q)

LEMMA ShrunkFacts ==
    /\ \A p : Shrunk(p, p)
    /\ \A p, q, r : Shrunk(p, q) /\ Shrunk(q, r) => Shrunk(p, r)
    /\ \A p, q : Kept(p, q) => Shrunk(p, q)
<1>1. \A p : Shrunk(p, p)
  BY SparesFacts DEF Shrunk, Steady
<1>2. ASSUME NEW p, NEW q, NEW r, Shrunk(p, q), Shrunk(q, r)
      PROVE  Shrunk(p, r)
  <2>1. Spares(p, r)
    BY <1>2, SparesFacts DEF Shrunk
  <2> QED BY <1>2, <2>1 DEF Shrunk, Steady
<1> QED BY <1>1, <1>2 DEF Shrunk, Kept

LEMMA LaterFacts ==
    ASSUME NEW p, Sound(p), NEW l
    PROVE  /\ Later(p, p, l) /\ Journaled(p, p)
           /\ \A q, r : Later(p, q, l) /\ Later(q, r, l) => Later(p, r, l)
           /\ \A q, r : Sound(q) /\ Sound(r) /\ Shrunk(q, r) =>
                  /\ Later(q, r, l)
                  /\ Journaled(p, q) => Journaled(p, r)
<1>1. Later(p, p, l) /\ Journaled(p, p)
  <2>1. Spares(p, p)
    BY SparesFacts
  <2>2. Stays(p, p)
    BY <2>1, StaysIfSpared
  <2> QED BY <2>2 DEF Later, Journaled, NewValid
<1>2. ASSUME NEW q, NEW r, Later(p, q, l), Later(q, r, l)
      PROVE  Later(p, r, l)
  <2>1. p.all \in SUBSET Tx /\ q.all \in SUBSET Tx /\ r.all \in SUBSET Tx
    BY <1>2, PoolFields DEF Later, Sound, Agree
  <2>2. Stays(p, r)
    BY <1>2, <2>1, StaysFacts DEF Later
  <2>3. \A t : ValidIn(r, t) <=> ValidIn(q, t)
    BY <1>2, SameValid DEF Later
  <2>4. NewValid(p, r)
    BY <1>2, <2>3 DEF Later, NewValid
  <2> QED BY <1>2, <2>2, <2>4 DEF Later
<1>3. ASSUME NEW q, NEW r, Sound(q), Sound(r), Shrunk(q, r)
      PROVE  Later(q, r, l) /\ (Journaled(p, q) => Journaled(p, r))
  <2>1. r.all \subseteq q.all /\ r.locals = q.locals /\ r.journal = q.journal
        /\ r.currentState = q.currentState
    BY <1>3 DEF Shrunk, Steady
  <2>2. Roomy(q) => Roomy(r)
    <3>1. q.all \in SUBSET Tx /\ r.all \in SUBSET Tx
      BY <1>3, PoolFields DEF Sound, Agree
    <3>2. IsFiniteSet(q.all) /\ Cardinality(q.all) \in Nat /\ Cardinality(r.all) \in Nat
      BY <3>1, TxFacts
    <3>3. Cardinality(r.all) <= Cardinality(q.all)
      BY <2>1, <3>2, FS_Subset
    <3>4. GlobalSlots + GlobalQueue \in Int
      BY ConfigAssumption
    <3> QED BY <2>1, <3>2, <3>3, <3>4 DEF Roomy
  <2>3. Later(q, r, l)
    <3>1. Stays(q, r)
      BY <1>3, <2>1, StaysIfSpared DEF Shrunk
    <3> QED BY <1>3, <2>1, <2>2, <3>1 DEF Later, NewValid
  <2>4. Journaled(p, q) => Journaled(p, r)
    BY <2>1 DEF Journaled
  <2> QED BY <2>3, <2>4
<1> QED BY <1>1, <1>2, <1>3

\* A transaction u that t does not replace has the nonce of t.
Beats(u, t) == u.from = t.from /\ u.nonce = t.nonce /\ (u = t \/ ~Outbids(t, u))

Holds(q, t) == \E u \in q.all : Beats(u, t) /\ ValidIn(q, u)

AllLocal(p) == \A t \in p.all : t.from \in p.locals

\* A valid transaction of a local account is offered to a pool in which its
\* nonce is free.
Offered(p, l, t) ==
    /\ (l /\ AllLocal(p)) \/ t.from \in p.locals
    /\ ValidIn(p, t)
    /\ Overlapping(p.all, t) = {}

\* What a transaction cannot outbid, it cannot outbid at a higher price.
LEMMA OutbidMore ==
    ASSUME NEW t \in Tx, NEW u \in Tx, NEW v \in Tx, v.price > u.price, ~Outbids(t, u)
    PROVE  ~Outbids(t, v)
<1> DEFINE c == 100 + PriceBump
           x == u.price * c
           y == v.price * c
<1>1. t.price \in Nat /\ u.price \in Nat /\ v.price \in Nat /\ c \in Nat
  BY TxFacts, ConfigAssumption
<1>2. x \in Nat /\ y \in Nat /\ x <= y
  <2> HIDE DEF c
  <2>1. x \in Nat /\ y \in Nat /\ (v.price - u.price) * c \in Nat
    BY <1>1
  <2>2. y = x + (v.price - u.price) * c
    BY <1>1
  <2> HIDE DEF x, y
  <2> QED BY <2>1, <2>2
<1> HIDE DEF x, y
<1>3. x \div 100 <= y \div 100 /\ x \div 100 \in Int /\ y \div 100 \in Int
  BY <1>2
<1>4. Outbids(t, u) <=> u.price < t.price /\ x \div 100 =< t.price
  BY DEF Outbids, x
<1>5. Outbids(t, v) <=> v.price < t.price /\ y \div 100 =< t.price
  BY DEF Outbids, y
<1> QED BY <1>1, <1>3, <1>4, <1>5

LEMMA HoldsFacts ==
    ASSUME NEW q, NEW r, q.all \in SUBSET Tx, r.all \in SUBSET Tx, Stays(q, r),
           r.currentState = q.currentState, NEW t \in Tx, t.from \in q.locals, Holds(q, t)
    PROVE  Holds(r, t)
<1>1. PICK u \in q.all : Beats(u, t) /\ ValidIn(q, u)
  BY DEF Holds
<1>2. u.from = t.from /\ u.nonce = t.nonce /\ (u = t \/ ~Outbids(t, u))
  BY <1>1 DEF Beats
<1>3. ValidIn(r, u)
  BY <1>1, SameValid
<1>4. PICK v \in r.all : Succeeds(v, u) /\ ValidIn(r, v)
  BY <1>2, <1>3 DEF Stays
<1>5. v.from = t.from /\ v.nonce = t.nonce /\ (v = u \/ v.price > u.price)
  BY <1>2, <1>4 DEF Succeeds
<1>6. u = t /\ v.price > u.price => ~Outbids(t, v)
  <2>1. t.price \in Nat /\ v.price \in Nat
    BY TxFacts
  <2> QED BY <2>1 DEF Outbids
<1>7. ~Outbids(t, u) /\ v.price > u.price => ~Outbids(t, v)
  BY OutbidMore
<1>8. Beats(v, t)
  BY <1>2, <1>5, <1>6, <1>7 DEF Beats
<1> QED BY <1>4, <1>8 DEF Holds

AddInv(c, i, acc) ==
    /\ Later(c.pool, acc.pool, c.local)
    /\ i = 0 => acc.pool = c.pool
    /\ ~c.local \/ i =< 1 => Journaled(c.pool, acc.pool)
    /\ \A a \in Addr \ acc.dirty : Free(c.pool, a) => Free(acc.pool, a)
    /\ Slim(c.pool, acc.pool)
    /\ Executes(c.pool, acc.pool)
    /\ c.local /\ AllLocal(c.pool) => AllLocal(acc.pool)
    /\ \A j \in 1..i : Offered(c.pool, c.local, c.txs[j]) => Holds(acc.pool, c.txs[j])
    /\ i = 0 => acc.dirty = {}

Adding == INSTANCE Loops WITH Step <- LAMBDA c, acc, t : AddStep(c.local, acc, t), Inv <- AddInv

LEMMA AddTxsIsFold ==
    ASSUME NEW c, NEW txs
    PROVE  addTxsLocked(c.pool, txs, c.local) =
               PromoteDirty(Adding!Fold(c, [pool |-> c.pool, dirty |-> {}], txs))
BY Zenon DEF addTxsLocked, FoldLeft, MapThenFoldSet, Max, Adding!Fold, Adding!Highest

LEMMA AddStepFacts ==
    ASSUME NEW c, Sound(c.pool), c.local \in BOOLEAN, NEW i \in Nat, i > 0,
           NEW acc, AddInv(c, i - 1, acc), NEW t \in Tx, c.txs[i] = t,
           \A j \in 1..i : c.txs[j] \in Tx
    PROVE  AddInv(c, i, AddStep(c.local, acc, t))
<1> DEFINE p == c.pool
           l == c.local
           x == acc.pool
           d == acc.dirty
           r == add(x, t, l)
           y == r.pool
           z == AddStep(l, acc, t)
<1>1. /\ Later(p, x, l) /\ (i - 1 = 0 => x = p)
      /\ ~l \/ i - 1 =< 1 => Journaled(p, x)
      /\ \A a \in Addr \ d : Free(p, a) => Free(x, a)
      /\ Slim(p, x) /\ Executes(p, x)
      /\ l /\ AllLocal(p) => AllLocal(x)
      /\ \A j \in 1..(i - 1) : Offered(p, l, c.txs[j]) => Holds(x, c.txs[j])
  BY DEF AddInv
<1>2. Sound(x)
  BY <1>1 DEF Later
<1>3. z.pool = y /\ z.dirty = d \union (IF r.dirty THEN {t.from} ELSE {})
  BY DEF AddStep, AfterAdd
<1>4. Added(x, y, t, l, r.dirty) /\ r.dirty \in BOOLEAN /\ (Roomy(x) => Roomy(y))
  <2> HIDE DEF x, l
  <2> QED BY <1>2, AddFacts DEF l
<1> HIDE DEF z, r, y
<1>5. Later(x, y, l)
  <2>1. \A u : ValidIn(y, u) <=> ValidIn(x, u)
    BY <1>4, SameValid DEF Added
  <2>2. NewValid(x, y)
    BY <1>4, <2>1 DEF Added, Takes, NewValid
  <2> QED BY <1>4, <2>2 DEF Added, Later, Takes
<1> HIDE DEF x, d, l, p
<1>6. Later(p, y, l)
  BY <1>1, <1>5, LaterFacts DEF p
<1>7. ASSUME ~l \/ i =< 1
      PROVE  Journaled(p, y)
  <2>1. l \in BOOLEAN
    BY DEF l
  <2>2. SUFFICES ASSUME NEW u \in y.all, u.from \in y.locals, u \notin p.all
                 PROVE  u \in ToSet(y.journal)
    BY DEF Journaled
  <2>3. y.all \subseteq x.all \union {t} /\ ToSet(x.journal) \subseteq ToSet(y.journal)
        /\ (t.from \in y.locals /\ t \in y.all /\ t \notin x.all => t \in ToSet(y.journal))
        /\ (~l => y.locals = x.locals)
    BY <1>4 DEF Added
  <2>4. CASE u \in x.all
    <3>1. CASE ~l
      <4>1. u \in ToSet(x.journal)
        BY <1>1, <2>2, <2>3, <2>4, <3>1 DEF Journaled
      <4> QED BY <2>3, <4>1
    <3>2. CASE l
      <4>1. i - 1 = 0
        BY <1>7, <3>2
      <4>2. x = p
        BY <1>1, <4>1
      <4> QED BY <2>2, <2>4, <4>2
    <3> QED BY <2>1, <3>1, <3>2
  <2>5. CASE u = t /\ u \notin x.all
    BY <2>2, <2>3, <2>5
  <2> QED BY <2>2, <2>3, <2>4, <2>5
<1>8. ASSUME NEW a \in Addr \ z.dirty, Free(p, a)
      PROVE  Free(y, a)
  <2>1. a \in Addr \ d /\ ~(r.dirty /\ a = t.from)
    BY <1>3, <1>4
  <2>2. Free(x, a)
    BY <1>1, <1>8, <2>1
  <2> QED BY <1>4, <2>1, <2>2 DEF Added
<1>9. Slim(p, y)
  <2>1. p \in Pools /\ x \in Pools /\ y \in Pools /\ Slim(x, y)
    BY <1>2, <1>4 DEF Added, Sound, Agree, p
  <2> QED BY <1>1, <2>1, SlimFacts
<1>10. Executes(p, y)
  BY <1>1, <1>4, ExecFacts DEF Added, Takes
<1>11. x.all \in SUBSET Tx /\ y.all \in SUBSET Tx /\ p.all \in SUBSET Tx
  BY <1>2, <1>4, PoolFields DEF Added, Sound, Agree, p
<1>12. ASSUME l, AllLocal(p)
       PROVE  AllLocal(y)
  <2>1. SUFFICES ASSUME NEW u \in y.all
                 PROVE  u.from \in y.locals
    BY DEF AllLocal
  <2>2. x.locals \subseteq y.locals /\ AllLocal(x) /\ y.all \subseteq x.all \union {t}
    BY <1>1, <1>4, <1>12 DEF Added
  <2>3. CASE u \in x.all
    BY <2>2, <2>3 DEF AllLocal
  <2>4. CASE u = t
    <3>1. t.from \in y.locals \/ Overlapping(x.all, t) # {}
      BY <1>4, <1>12, <2>1, <2>4 DEF Added, Takes
    <3>2. \A w \in Overlapping(x.all, t) : w \in x.all /\ w.from = t.from
      BY DEF Overlapping
    <3> QED BY <2>2, <2>4, <3>1, <3>2 DEF AllLocal
  <2> QED BY <2>2, <2>3, <2>4
<1>13. ASSUME NEW j \in 1..i, Offered(p, l, c.txs[j])
       PROVE  Holds(y, c.txs[j])
  <2> DEFINE u == c.txs[j]
  <2>0. u \in Tx /\ x.currentState = p.currentState /\ y.currentState = x.currentState
    BY <1>1, <1>5 DEF Later
  <2>1. CASE j \in 1..(i - 1)
    <3>1. Holds(x, u)
      BY <1>1, <1>13, <2>1
    <3>2. u.from \in x.locals
      <4>1. PICK w \in x.all : w.from = u.from
        BY <3>1 DEF Holds, Beats
      <4>2. l /\ AllLocal(p) => u.from \in x.locals
        BY <1>1, <4>1 DEF AllLocal
      <4>3. p.locals \subseteq x.locals
        BY <1>1 DEF Later
      <4> QED BY <1>13, <4>2, <4>3 DEF Offered
    <3> HIDE DEF u
    <3>3. Holds(y, u)
      BY <1>5, <1>11, <2>0, <3>1, <3>2, HoldsFacts DEF Later
    <3> QED BY <3>3 DEF u
  <2>2. CASE j = i
    <3>1. u = t
      BY <2>2
    <3>2. (l \/ t.from \in p.locals) /\ ValidIn(p, t) /\ Overlapping(p.all, t) = {}
      BY <1>13, <3>1 DEF Offered
    <3>3. p.locals \subseteq x.locals
      BY <1>1 DEF Later
    <3>4. \A w : (ValidIn(x, w) <=> ValidIn(p, w)) /\ (ValidIn(y, w) <=> ValidIn(p, w))
      <4>1. \A w : ValidIn(x, w) <=> ValidIn(p, w)
        BY <2>0, SameValid
      <4>2. \A w : ValidIn(y, w) <=> ValidIn(x, w)
        BY <2>0, SameValid
      <4> QED BY <4>1, <4>2
    <3>5. PICK w \in Overlapping(y.all, t) : w = t \/ (w \in x.all /\ ~Outbids(t, w))
      BY <1>4, <3>2, <3>3, <3>4 DEF Added, Takes
    <3>6. w \in y.all /\ w.from = t.from /\ w.nonce = t.nonce
      BY <3>5 DEF Overlapping
    <3>7. w \notin p.all
      BY <3>2, <3>6 DEF Overlapping
    <3>8. ValidIn(y, w)
      <4>1. NewValid(p, y)
        BY <1>6 DEF Later
      <4> QED BY <3>6, <3>7, <4>1 DEF NewValid
    <3>9. Beats(w, t)
      BY <3>5, <3>6 DEF Beats
    <3>10. Holds(y, t)
      BY <3>6, <3>8, <3>9 DEF Holds
    <3> QED BY <3>1, <3>10
  <2> QED BY <2>1, <2>2
<1>14. i # 0
  OBVIOUS
<1>15. AddInv(c, i, z)
  BY <1>3, <1>6, <1>7, <1>8, <1>9, <1>10, <1>12, <1>13, <1>14 DEF AddInv, p, l
<1> QED BY <1>15 DEF z, l

\* Adding transactions, one or a batch.
LEMMA AddTxsFacts ==
    ASSUME NEW p, Sound(p), NEW txs \in Seq(Tx), NEW l \in BOOLEAN
    PROVE  LET r == addTxsLocked(p, txs, l)
           IN  /\ Later(p, r, l)
               /\ ~l \/ Len(txs) =< 1 => Journaled(p, r)
               /\ (\A a \in Addr : Free(p, a)) => \A a \in Addr : Free(r, a)
               /\ Quota(p) => Quota(r)
               /\ Executes(p, r)
               /\ \A j \in 1..Len(txs) : Offered(p, l, txs[j]) => Holds(r, txs[j])
               /\ txs = <<>> => r = p
<1> DEFINE c == [pool |-> p, local |-> l, txs |-> txs]
           base == [pool |-> p, dirty |-> {}]
           acc == Adding!Fold(c, base, txs)
           r == PromoteDirty(acc)
<1>1. c.pool = p /\ c.local = l /\ c.txs = txs
  OBVIOUS
<1> HIDE DEF c
<1>2. addTxsLocked(p, txs, l) = r
  BY <1>1, AddTxsIsFold
<1>3. base.pool = p /\ base.dirty = {}
  OBVIOUS
<1> HIDE DEF base
<1>4. AddInv(c, 0, base)
  <2>1. p \in Pools
    BY DEF Sound, Agree
  <2>2. Slim(p, p)
    BY <2>1, SlimFacts
  <2> QED BY <1>1, <1>3, <2>2, LaterFacts, ExecFacts DEF AddInv
<1>5. \A i \in 1..Len(txs) : \A x : AddInv(c, i - 1, x) => AddInv(c, i, AddStep(c.local, x, txs[i]))
  <2>1. ASSUME NEW i \in 1..Len(txs), NEW x, AddInv(c, i - 1, x)
        PROVE  AddInv(c, i, AddStep(c.local, x, txs[i]))
    <3>1. i \in Nat /\ i > 0 /\ txs[i] \in Tx /\ \A j \in 1..i : txs[j] \in Tx
      OBVIOUS
    <3> QED BY <1>1, <2>1, <3>1, AddStepFacts
  <2> QED BY <2>1
<1>6. AddInv(c, Len(txs), acc)
  BY <1>4, <1>5, Adding!LoopRule
<1> HIDE DEF acc
<1> DEFINE q == acc.pool
           A == acc.dirty
<1>7. /\ Later(p, q, l)
      /\ ~l \/ Len(txs) =< 1 => Journaled(p, q)
      /\ \A a \in Addr \ A : Free(p, a) => Free(q, a)
      /\ Slim(p, q) /\ Executes(p, q)
      /\ l /\ AllLocal(p) => AllLocal(q)
      /\ \A j \in 1..Len(txs) : Offered(p, l, txs[j]) => Holds(q, txs[j])
      /\ Len(txs) = 0 => q = p /\ A = {}
  BY <1>1, <1>6 DEF AddInv
<1>8. Sound(q)
  BY <1>7 DEF Later
<1>9. Quota(p) => Quota(q)
  BY <1>7, <1>8, QuotaSlim DEF Later, Sound, Agree
<1>0. txs = <<>> => Len(txs) = 0
  OBVIOUS
<1>10. CASE A = {}
  <2>1. r = q
    BY <1>10 DEF PromoteDirty
  <2> HIDE DEF r, q
  <2> QED BY <1>0, <1>2, <1>7, <1>9, <1>10, <2>1
<1>11. CASE A # {}
  <2>1. r = promoteExecutables(q, A)
    BY <1>11 DEF PromoteDirty
  <2> HIDE DEF r, q, A
  <2>2. /\ Sound(r) /\ Kept(q, r) /\ Quota(r)
        /\ (\A a \in Addr \ A : Free(q, a)) => \A a \in Addr : Free(r, a)
    BY <1>8, <2>1, PromoteExecutablesFacts
  <2>3. Later(q, r, l) /\ (Journaled(p, q) => Journaled(p, r))
    BY <1>8, <2>2, LaterFacts, ShrunkFacts
  <2>4. Later(p, r, l)
    BY <1>7, <2>3, LaterFacts
  <2>5. Executes(p, r)
    BY <1>7, <2>2, ExecFacts DEF Kept
  <2>6. q.all \in SUBSET Tx /\ r.all \in SUBSET Tx
    BY <1>8, <2>2, PoolFields DEF Sound, Agree
  <2>7. ASSUME NEW j \in 1..Len(txs), Offered(p, l, txs[j])
        PROVE  Holds(r, txs[j])
    <3> DEFINE u == txs[j]
    <3>1. Holds(q, u) /\ u \in Tx
      BY <1>7, <2>7
    <3>2. u.from \in q.locals
      <4>1. PICK w \in q.all : w.from = u.from
        BY <3>1 DEF Holds, Beats
      <4>2. l /\ AllLocal(p) => u.from \in q.locals
        BY <1>7, <4>1 DEF AllLocal
      <4>3. p.locals \subseteq q.locals
        BY <1>7 DEF Later
      <4> QED BY <2>7, <4>2, <4>3 DEF Offered
    <3> HIDE DEF u
    <3>3. Holds(r, u)
      BY <2>3, <2>6, <3>1, <3>2, HoldsFacts DEF Later
    <3> QED BY <3>3 DEF u
  <2> QED BY <1>0, <1>2, <1>7, <1>11, <2>2, <2>3, <2>4, <2>5, <2>7
<1> QED BY <1>10, <1>11

-----------------------------------------------------------------------------
(* reset *)

\* The pending transactions of a have no gap between them.
Gapless(p, a) ==
    \A t, u \in p.pending : \A n \in Nat :
        t.from = a /\ u.from = a /\ t.nonce =< n /\ n =< u.nonce =>
            \E v \in p.pending : v.from = a /\ v.nonce = n

\* If a has a pending transaction, it has one with the nonce of the state.
Rooted(p, a) ==
    \A t \in p.pending : t.from = a =>
        \E u \in p.pending : u.from = a /\ u.nonce = StateNonce(p, a)

\* Some pending transactions of a are dropped or moved to the queue.
Demotes(p, q, a) ==
    /\ Shrunk(p, q) /\ q.pending \subseteq p.pending /\ q.pendingState = p.pendingState
    /\ \A t \in p.pending : t.from # a => t \in q.pending
    /\ Gapless(p, a) => Gapless(q, a)

\* What demoting an account does for another one.
SameOf(p, q, b) == \A t : t.from = b => (t \in q.pending <=> t \in p.pending)

LEMMA SameOfFacts ==
    ASSUME NEW p, NEW q, NEW b, SameOf(p, q, b), q.currentState = p.currentState
    PROVE  /\ Gapless(p, b) => Gapless(q, b)
           /\ Rooted(p, b) => Rooted(q, b)
           /\ PendingValid(p, b) => PendingValid(q, b)
<1>1. \A t : t.from = b => (t \in q.pending <=> t \in p.pending)
  BY DEF SameOf
<1>2. Gapless(p, b) => Gapless(q, b)
  BY <1>1 DEF Gapless
<1>3. StateNonce(q, b) = StateNonce(p, b) /\ \A t : ValidIn(q, t) <=> ValidIn(p, t)
  BY SameValid
<1>4. Rooted(p, b) => Rooted(q, b)
  BY <1>1, <1>3 DEF Rooted
<1>5. PendingValid(p, b) => PendingValid(q, b)
  BY <1>1, <1>3 DEF PendingValid
<1> QED BY <1>2, <1>4, <1>5

LEMMA DemotesFacts ==
    ASSUME NEW a
    PROVE  /\ \A p : Demotes(p, p, a)
           /\ \A p, q, r : Demotes(p, q, a) /\ Demotes(q, r, a) => Demotes(p, r, a)
           /\ \A p, q, b : Demotes(p, q, a) /\ b # a => SameOf(p, q, b)
<1>1. \A p : Demotes(p, p, a)
  BY ShrunkFacts DEF Demotes
<1>2. ASSUME NEW p, NEW q, NEW r, Demotes(p, q, a), Demotes(q, r, a)
      PROVE  Demotes(p, r, a)
  <2>1. Shrunk(p, r)
    BY <1>2, ShrunkFacts DEF Demotes
  <2> QED BY <1>2, <2>1 DEF Demotes
<1>3. \A p, q, b : Demotes(p, q, a) /\ b # a => SameOf(p, q, b)
  BY DEF Demotes, SameOf
<1> QED BY <1>1, <1>2, <1>3

\* The pending transactions D of an account are forgotten, and I go back to
\* the queue.
Demoted(p, D, I) == EnqueueTxs(ForgetAll([p EXCEPT !.pending = @ \ (D \union I)], D), I)

NoneValid(p, S) == \A t \in S : ~ValidIn(p, t)

Moved(p, D, I, r) ==
    /\ Sound(r) /\ Shrunk(p, r) /\ r.pending = p.pending \ (D \union I)
    /\ r.pendingState = p.pendingState

LEMMA DemotedFacts ==
    ASSUME NEW p, Sound(p), NEW a, NEW D, OfOne(D, p.pending, a), NEW I, OfOne(I, p.pending, a),
           D \intersect I = {}, NoneValid(p, D)
    PROVE  Moved(p, D, I, Demoted(p, D, I))
<1> DEFINE X == p.pending \ (D \union I)
           x == SetLists(p, X, p.queue)
           y == ForgetAll(x, D)
           Z == p.queue \union I
           z == SetLists(y, X, Z)
<1>1. p \in Pools /\ Unique(p.all) /\ p.all = p.pending \union p.queue
      /\ p.pending \intersect p.queue = {} /\ Priced(p)
  BY DEF Sound, Agree
<1>2. p.pending \in SUBSET Tx /\ p.queue \in SUBSET Tx /\ p.all \in SUBSET Tx
  BY <1>1, PoolFields
<1>3. D \subseteq p.pending /\ I \subseteq p.pending /\ D \in SUBSET Of(p.all, a)
      /\ I \in SUBSET Of(p.all \ D, a)
  BY <1>1 DEF OfOne, Of
<1>4. [p EXCEPT !.pending = X] = x
  BY <1>1, SetOneList
<1>5. Demoted(p, D, I) = EnqueueTxs(y, I)
  BY <1>4 DEF Demoted
<1>6. X \in SUBSET Tx /\ Z \in SUBSET Tx /\ X \union Z = p.all \ D /\ X \intersect Z = {}
      /\ p.queue \subseteq p.all \ D
  BY <1>1, <1>2, <1>3
<1> HIDE DEF X, Z
<1>7. x \in Pools /\ x.pending = X /\ x.queue = p.queue /\ x.all = p.all
      /\ SameHeap(p, x) /\ SameRest(p, x)
  BY <1>1, <1>2, <1>6, SetListsFacts
<1> HIDE DEF x
<1>8. Priced(x) /\ Unique(x.all) /\ D \in SUBSET Of(x.all, a)
  BY <1>1, <1>3, <1>7 DEF Priced, PricedFor, SameHeap
<1>9. y \in Pools /\ Priced(y) /\ y.all = p.all \ D /\ SameLists(x, y) /\ SameRest(x, y)
  BY <1>7, <1>8, ForgetAllFacts
<1> HIDE DEF y
<1>10. y.pending = X /\ y.queue = p.queue /\ y.queue \subseteq y.all /\ Unique(y.all)
       /\ I \in SUBSET Of(y.all, a)
  BY <1>1, <1>3, <1>6, <1>7, <1>9 DEF SameLists, Unique
<1>11. EnqueueTxs(y, I) = z
  <2>1. EnqueueTxs(y, I) = SetLists(y, y.pending, y.queue \union I)
    BY <1>9, <1>10, EnqueueTxsFacts
  <2> QED BY <1>10, <2>1 DEF Z
<1>12. z \in Pools /\ z.pending = X /\ z.queue = Z /\ z.all = p.all \ D
       /\ SameHeap(y, z) /\ SameRest(y, z)
  BY <1>6, <1>9, SetListsFacts
<1> HIDE DEF z
<1>13. Sound(z)
  BY <1>6, <1>9, <1>10, <1>12 DEF Sound, Agree, Priced, PricedFor, SameHeap
<1>14. Spares(p, z)
  BY <1>12, SparesAllBut DEF NoneValid
<1>15. Shrunk(p, z) /\ z.pendingState = p.pendingState
  BY <1>7, <1>9, <1>12, <1>14 DEF Shrunk, Steady, SameRest
<1>16. z.pending = p.pending \ (D \union I)
  BY <1>12 DEF X
<1> QED BY <1>5, <1>11, <1>13, <1>15, <1>16 DEF Moved

LEMMA DropMinedFacts ==
    ASSUME NEW p, Sound(p), NEW a \in Addr
    PROVE  LET r == DropMined(p, a)
           IN  /\ Sound(r) /\ Demotes(p, r, a)
               /\ \A t \in r.pending : t.from = a => StateNonce(p, a) <= t.nonce
<1> DEFINE S == Forward(Of(p.pending, a), StateNonce(p, a))
           X == p.pending \ S
           x == SetLists(p, X, p.queue)
           r == ForgetAll(x, S)
<1>1. p \in Pools /\ Unique(p.all) /\ p.all = p.pending \union p.queue
      /\ p.pending \intersect p.queue = {} /\ Priced(p)
  BY DEF Sound, Agree
<1>2. p.pending \in SUBSET Tx /\ p.queue \in SUBSET Tx
  BY <1>1, PoolFields
<1>3. S \subseteq p.pending /\ S \in SUBSET Of(p.all, a)
  BY <1>1 DEF Forward, Of
<1>4. DropMined(p, a) = r
  BY <1>1, SetOneList DEF DropMined
<1>5. \A t \in p.pending : t \in S <=> t.from = a /\ t.nonce < StateNonce(p, a)
  BY DEF Forward, Of
<1> HIDE DEF S
<1>6. X \in SUBSET Tx /\ X \union p.queue = p.all \ S /\ X \intersect p.queue = {}
  BY <1>1, <1>2, <1>3
<1>7. \A t \in p.pending : t \in X <=> ~(t.from = a /\ t.nonce < StateNonce(p, a))
  BY <1>5
<1>8. X \subseteq p.pending
  OBVIOUS
<1> HIDE DEF X
<1>9. x \in Pools /\ x.pending = X /\ x.queue = p.queue /\ x.all = p.all
      /\ SameHeap(p, x) /\ SameRest(p, x)
  BY <1>1, <1>2, <1>6, SetListsFacts
<1> HIDE DEF x
<1>10. Priced(x) /\ Unique(x.all) /\ S \in SUBSET Of(x.all, a)
      /\ x.pending \union x.queue = x.all \ S /\ x.pending \intersect x.queue = {}
  BY <1>1, <1>3, <1>6, <1>9 DEF Priced, PricedFor, SameHeap
<1>11. Sound(r) /\ r.all = x.all \ S /\ SameRest(x, r) /\ SameLists(x, r)
  BY <1>9, <1>10, ForgetListed
<1> HIDE DEF r
<1>12. r.pending = X /\ r.all = p.all \ S /\ r.pendingState = p.pendingState /\ Steady(p, r)
  BY <1>9, <1>11 DEF Steady, SameRest, SameLists
<1>13. StateNonce(p, a) \in Nat /\ \A t \in p.pending : t.nonce \in Nat
  BY <1>1, <1>2, StateNonceType, TxFacts
<1>14. Spares(p, r)
  <2>1. \A t \in S : ~ValidIn(p, t)
    BY <1>3, <1>5, <1>13 DEF ValidIn
  <2> QED BY <1>12, <2>1, SparesAllBut
<1>15. \A t \in p.pending : t.from = a => (t \in X <=> StateNonce(p, a) <= t.nonce)
  BY <1>7, <1>13
<1>16. ASSUME Gapless(p, a)
       PROVE  Gapless(r, a)
  <2> SUFFICES ASSUME NEW t \in X, NEW u \in X, NEW n \in Nat, t.from = a, u.from = a,
                      t.nonce =< n, n =< u.nonce
               PROVE  \E v \in X : v.from = a /\ v.nonce = n
    BY <1>12 DEF Gapless
  <2>1. t \in p.pending /\ u \in p.pending
    BY <1>8
  <2>2. PICK v \in p.pending : v.from = a /\ v.nonce = n
    BY <1>16, <2>1 DEF Gapless
  <2>3. StateNonce(p, a) <= t.nonce
    BY <1>15, <2>1
  <2>4. v \in X
    BY <1>13, <1>15, <2>1, <2>2, <2>3
  <2> QED BY <2>2, <2>4
<1>17. Demotes(p, r, a)
  <2>1. Shrunk(p, r)
    BY <1>12, <1>14 DEF Shrunk
  <2>2. \A t \in p.pending : t.from # a => t \in r.pending
    BY <1>7, <1>12
  <2> QED BY <1>8, <1>12, <1>16, <2>1, <2>2 DEF Demotes
<1>18. \A t \in r.pending : t.from = a => StateNonce(p, a) <= t.nonce
  BY <1>8, <1>12, <1>15
<1> QED BY <1>4, <1>11, <1>17, <1>18

LEMMA DemoteUnpayableFacts ==
    ASSUME NEW p, Sound(p), NEW a
    PROVE  LET r == DemoteUnpayable(p, a)
           IN  /\ Sound(r) /\ Demotes(p, r, a)
               /\ \A t \in r.pending : t.from = a => Payable(p, t)
<1> DEFINE D == {t \in Of(p.pending, a) : ~ Payable(p, t)}
           I == Invalids(Of(p.pending, a) \ D, D)
           r == Demoted(p, D, I)
<1>0. Unique(p.all) /\ p.pending \subseteq p.all /\ \A t \in p.pending : t.nonce \in Nat
  <2>1. p.pending \in SUBSET Tx
    BY PoolFields DEF Sound, Agree
  <2> QED BY <2>1, TxFacts DEF Sound, Agree
<1>1. DemoteUnpayable(p, a) = r
  BY DEF DemoteUnpayable, Demoted
<1>2. /\ OfOne(D, p.pending, a) /\ NoneValid(p, D)
      /\ \A t \in p.pending : t \in D <=> t.from = a /\ ~Payable(p, t)
  BY DEF OfOne, Of, ValidIn, NoneValid
<1> HIDE DEF D
<1>3. /\ OfOne(I, p.pending, a) /\ D \intersect I = {}
      /\ \A t \in p.pending : t \in I <=> t.from = a /\ t \notin D /\ \E d \in D : d.nonce < t.nonce
  BY DEF Invalids, OfOne, Of
<1> HIDE DEF I
<1>4. /\ Sound(r) /\ Shrunk(p, r) /\ r.pending = p.pending \ (D \union I)
      /\ r.pendingState = p.pendingState
  <2>1. Moved(p, D, I, r)
    BY <1>2, <1>3, DemotedFacts
  <2> HIDE DEF r
  <2> QED BY <2>1 DEF Moved
<1> HIDE DEF r
<1>5. ASSUME Gapless(p, a)
      PROVE  Gapless(r, a)
  <2> SUFFICES ASSUME NEW t \in r.pending, NEW u \in r.pending, NEW n \in Nat,
                      t.from = a, u.from = a, t.nonce =< n, n =< u.nonce
               PROVE  \E v \in r.pending : v.from = a /\ v.nonce = n
    BY DEF Gapless
  <2>1. t \in p.pending /\ u \in p.pending /\ u \notin D /\ u \notin I
    BY <1>4
  <2>2. PICK v \in p.pending : v.from = a /\ v.nonce = n
    BY <1>5, <2>1 DEF Gapless
  <2>3. \A d \in D : ~(d.nonce < u.nonce)
    BY <1>3, <2>1
  <2>4. v \notin D
    <3>1. v # u => v.nonce # u.nonce
      BY <1>0, <2>1, <2>2 DEF Unique
    <3>2. v \in D => v.nonce < u.nonce
      BY <1>0, <2>1, <2>2, <3>1
    <3> QED BY <2>3, <3>2
  <2>5. v \notin I
    <3>1. ASSUME NEW d \in D, d.nonce < v.nonce
          PROVE  FALSE
      <4>1. d \in p.pending
        BY <1>2 DEF OfOne, Of
      <4>2. d.nonce < u.nonce
        BY <1>0, <2>1, <2>2, <3>1, <4>1
      <4> QED BY <2>3, <4>2
    <3> QED BY <1>3, <2>2, <3>1
  <2> QED BY <1>4, <2>2, <2>4, <2>5
<1>6. \A t \in p.pending : t.from # a => t \in r.pending
  BY <1>2, <1>3, <1>4
<1>7. \A t \in r.pending : t.from = a => Payable(p, t)
  BY <1>2, <1>4
<1>8. Demotes(p, r, a)
  BY <1>4, <1>5, <1>6 DEF Demotes
<1> QED BY <1>1, <1>4, <1>7, <1>8

LEMMA DemoteGappedFacts ==
    ASSUME NEW p, Sound(p), NEW a
    PROVE  LET r == DemoteGapped(p, a)
           IN  Sound(r) /\ Demotes(p, r, a) /\ Rooted(r, a)
<1> DEFINE I == Gapped(Of(p.pending, a), StateNonce(p, a))
           D == {}
           r == Demoted(p, D, I)
<1>1. DemoteGapped(p, a) = r
  <2>1. DemoteGapped(p, a) = EnqueueTxs([p EXCEPT !.pending = @ \ I], I)
    BY DEF DemoteGapped
  <2> HIDE DEF I
  <2>2. D \union I = I
    OBVIOUS
  <2>3. ForgetAll([p EXCEPT !.pending = @ \ I], {}) = [p EXCEPT !.pending = @ \ I]
    BY ForgetNone
  <2> QED BY <2>1, <2>2, <2>3 DEF Demoted
<1>2. /\ OfOne(D, p.pending, a) /\ OfOne(I, p.pending, a) /\ D \intersect I = {}
      /\ NoneValid(p, D)
  BY DEF OfOne, Gapped, NoneValid
<1>3. \/ I = {} /\ \E u \in p.pending : u.from = a /\ u.nonce = StateNonce(p, a)
      \/ \A t \in p.pending : t \in I <=> t.from = a
  BY DEF Gapped, Of
<1>4. D \union I = I
  OBVIOUS
<1>5. \A t \in I : t.from = a
  BY <1>2 DEF OfOne, Of
<1> HIDE DEF I, D
<1>6. Sound(r) /\ Shrunk(p, r) /\ r.pending = p.pending \ I /\ r.pendingState = p.pendingState
  <2>1. Moved(p, D, I, r)
    BY <1>2, DemotedFacts
  <2> HIDE DEF r
  <2> QED BY <1>4, <2>1 DEF Moved
<1> HIDE DEF r
<1>7. StateNonce(r, a) = StateNonce(p, a)
  BY <1>6, SameValid DEF Shrunk, Steady
<1>8. CASE I = {} /\ \E u \in p.pending : u.from = a /\ u.nonce = StateNonce(p, a)
  <2>1. r.pending = p.pending
    BY <1>6, <1>8
  <2> QED BY <1>1, <1>6, <1>7, <1>8, <2>1 DEF Demotes, Gapless, Rooted
<1>9. CASE \A t \in p.pending : t \in I <=> t.from = a
  <2>1. r.pending \subseteq p.pending /\ \A t \in r.pending : t.from # a
    BY <1>6, <1>9
  <2>2. \A t \in p.pending : t.from # a => t \in r.pending
    BY <1>5, <1>6
  <2> QED BY <1>1, <1>6, <2>1, <2>2 DEF Demotes, Gapless, Rooted
<1> QED BY <1>3, <1>8, <1>9

\* After demote the pending transactions of the account are valid, and the
\* first of them can be executed.
Settled(q, a) == PendingValid(q, a) /\ Rooted(q, a)

LEMMA DemoteFacts ==
    ASSUME NEW p, Sound(p), NEW a \in Addr
    PROVE  LET r == demote(p, a)
           IN  Sound(r) /\ Demotes(p, r, a) /\ Settled(r, a)
<1> DEFINE x == DropMined(p, a)
           y == DemoteUnpayable(x, a)
           z == DemoteGapped(y, a)
           r == DropBeat(z, a)
<1>1. CASE Of(p.pending, a) = {}
  <2>1. \A t \in p.pending : t.from # a
    BY <1>1 DEF Of
  <2>2. Settled(p, a)
    BY <2>1 DEF Settled, PendingValid, Rooted
  <2>3. demote(p, a) = p
    BY <1>1 DEF demote
  <2> QED BY <2>2, <2>3, DemotesFacts
<1>2. CASE Of(p.pending, a) # {}
  <2>1. demote(p, a) = r
    BY <1>2 DEF demote
  <2>2. Sound(x) /\ Demotes(p, x, a) /\ \A t \in x.pending : t.from = a => StateNonce(p, a) <= t.nonce
    BY DropMinedFacts
  <2> HIDE DEF x
  <2>3. Sound(y) /\ Demotes(x, y, a) /\ \A t \in y.pending : t.from = a => Payable(x, t)
    BY <2>2, DemoteUnpayableFacts
  <2> HIDE DEF y
  <2>4. Sound(z) /\ Demotes(y, z, a) /\ Rooted(z, a)
    BY <2>3, DemoteGappedFacts
  <2> HIDE DEF z
  <2>5. /\ r \in Pools /\ r.all = z.all /\ SameHeap(z, r) /\ SameLists(z, r) /\ Steady(z, r)
        /\ r.pendingState = z.pendingState
    <3>1. z \in Pools
      BY <2>4 DEF Sound, Agree
    <3> QED BY <3>1, DropBeatFacts
  <2> HIDE DEF r
  <2>6. Sound(r)
    BY <2>4, <2>5 DEF Sound, Agree, Priced, PricedFor, SameHeap, SameLists
  <2>7. Demotes(z, r, a)
    <3>1. Spares(z, r)
      BY <2>5, SparesFacts
    <3> QED BY <2>5, <3>1 DEF Shrunk, Demotes, Gapless, SameLists
  <2>8. Demotes(p, r, a) /\ Demotes(x, r, a) /\ Demotes(y, r, a)
    <3>1. Demotes(y, r, a)
      BY <2>4, <2>7, DemotesFacts
    <3>2. Demotes(x, r, a)
      BY <2>3, <3>1, DemotesFacts
    <3> QED BY <2>2, <3>1, <3>2, DemotesFacts
  <2>9. p.currentState = r.currentState /\ x.currentState = r.currentState
        /\ z.currentState = r.currentState
    BY <2>5, <2>8 DEF Demotes, Shrunk, Steady
  <2>10. StateNonce(r, a) = StateNonce(p, a) /\ StateNonce(r, a) = StateNonce(z, a)
    <3>1. StateNonce(r, a) = StateNonce(p, a)
      BY <2>9, SameValid
    <3>2. StateNonce(r, a) = StateNonce(z, a)
      BY <2>9, SameValid
    <3> QED BY <3>1, <3>2
  <2>11. \A t : Payable(r, t) <=> Payable(x, t)
    BY <2>9, SameValid
  <2>12. PendingValid(r, a)
    <3> SUFFICES ASSUME NEW t \in r.pending, t.from = a
                 PROVE  ValidIn(r, t)
      BY DEF PendingValid
    <3>1. t \in x.pending /\ t \in y.pending
      BY <2>8 DEF Demotes
    <3>2. StateNonce(p, a) <= t.nonce /\ Payable(x, t)
      BY <2>2, <2>3, <3>1
    <3>3. t.nonce \in Nat /\ StateNonce(p, a) \in Nat
      <4>1. x.pending \in SUBSET Tx
        BY <2>2, PoolFields DEF Sound, Agree
      <4>2. p \in Pools
        BY DEF Sound, Agree
      <4> QED BY <3>1, <4>1, <4>2, TxFacts, StateNonceType
    <3> QED BY <2>10, <2>11, <3>2, <3>3 DEF ValidIn
  <2>13. Rooted(r, a)
    BY <2>4, <2>5, <2>10 DEF Rooted, SameLists
  <2> QED BY <2>1, <2>6, <2>8, <2>12, <2>13 DEF Settled
<1> QED BY <1>1, <1>2

DemoteInv(c, i, q) ==
    /\ Sound(q) /\ Shrunk(c, q) /\ q.pendingState = c.pendingState
    /\ \A j \in 1..i : Settled(q, Accounts[j])
    /\ \A a \in Addr : Gapless(c, a) => Gapless(q, a)

Demoting == INSTANCE Loops WITH Step <- LAMBDA c, q, a : demote(q, a), Inv <- DemoteInv

LEMMA DemoteUnexecutablesFacts ==
    ASSUME NEW p, Sound(p)
    PROVE  LET r == demoteUnexecutables(p)
           IN  /\ Sound(r) /\ Shrunk(p, r) /\ r.pendingState = p.pendingState
               /\ \A a \in Addr : Settled(r, a) /\ (Gapless(p, a) => Gapless(r, a))
<1> DEFINE r == Demoting!Fold(p, p, Accounts)
<1>0. Accounts \in Seq(Addr) /\ DOMAIN Accounts = 1..Len(Accounts)
  BY TxAssumption
<1>1. demoteUnexecutables(p) = r
  BY Zenon DEF demoteUnexecutables, FoldLeft, MapThenFoldSet, Max, Demoting!Fold, Demoting!Highest
<1>2. DemoteInv(p, 0, p)
  BY ShrunkFacts DEF DemoteInv
<1>3. ASSUME NEW i \in 1..Len(Accounts), NEW q, DemoteInv(p, i - 1, q)
      PROVE  DemoteInv(p, i, demote(q, Accounts[i]))
  <2> DEFINE a == Accounts[i]
             x == demote(q, a)
  <2>0. a \in Addr /\ \A j \in 1..i : Accounts[j] \in Addr /\ (j \in 1..(i - 1) \/ j = i)
    BY <1>0
  <2>1. /\ Sound(q) /\ Shrunk(p, q) /\ q.pendingState = p.pendingState
        /\ \A j \in 1..(i - 1) : Settled(q, Accounts[j])
        /\ \A b \in Addr : Gapless(p, b) => Gapless(q, b)
    BY <1>3 DEF DemoteInv
  <2> HIDE DEF a
  <2>2. Sound(x) /\ Demotes(q, x, a) /\ Settled(x, a)
    BY <2>0, <2>1, DemoteFacts
  <2> HIDE DEF x
  <2>3. Shrunk(p, x) /\ x.pendingState = p.pendingState /\ x.currentState = q.currentState
    <3>1. Shrunk(q, x) /\ x.pendingState = q.pendingState
      BY <2>2 DEF Demotes
    <3> QED BY <2>1, <3>1, ShrunkFacts DEF Shrunk, Steady
  <2>4. ASSUME NEW b \in Addr, b # a
        PROVE  (Gapless(q, b) => Gapless(x, b)) /\ (Settled(q, b) => Settled(x, b))
    <3>1. SameOf(q, x, b)
      BY <2>2, <2>4, DemotesFacts
    <3> QED BY <2>3, <3>1, SameOfFacts DEF Settled
  <2>5. \A b \in Addr : Gapless(p, b) => Gapless(x, b)
    BY <2>1, <2>2, <2>4 DEF Demotes
  <2>6. ASSUME NEW j \in 1..i
        PROVE  Settled(x, Accounts[j])
    <3>1. CASE Accounts[j] = a
      BY <2>2, <3>1
    <3>2. CASE Accounts[j] # a
      <4>1. j \in 1..(i - 1)
        BY <2>0, <3>2 DEF a
      <4> QED BY <2>0, <2>1, <2>4, <3>2, <4>1
    <3> QED BY <3>1, <3>2
  <2>7. DemoteInv(p, i, x)
    BY <2>2, <2>3, <2>5, <2>6 DEF DemoteInv
  <2> QED BY <2>7 DEF x, a
<1>4. \A i \in 1..Len(Accounts) : \A x : DemoteInv(p, i - 1, x) => DemoteInv(p, i, demote(x, Accounts[i]))
  BY <1>3
<1>5. DemoteInv(p, Len(Accounts), r)
  BY <1>0, <1>2, <1>4, Demoting!LoopRule
<1> HIDE DEF r
<1>6. ASSUME NEW a \in Addr
      PROVE  Settled(r, a)
  <2>1. PICK j \in 1..Len(Accounts) : Accounts[j] = a
    BY <1>0 DEF Addr, ToSet
  <2> QED BY <1>5, <2>1 DEF DemoteInv
<1> QED BY <1>1, <1>5, <1>6 DEF DemoteInv

\* The block that the pool follows, and the next nonces.
SetState(p, b, f) == [p EXCEPT !.currentState = b, !.pendingState = f]

LEMMA SetStateFacts ==
    ASSUME NEW p, Sound(p), NEW b \in DOMAIN Block, NEW f \in [Addr -> Nat]
    PROVE  LET r == SetState(p, b, f)
           IN  /\ Sound(r) /\ r.all = p.all /\ SameLists(p, r) /\ r.currentState = b
               /\ r.locals = p.locals /\ r.journal = p.journal /\ r.gasPrice = p.gasPrice
               /\ r.pendingState = f
<1> DEFINE r == SetState(p, b, f)
<1>1. p \in Pools
  BY DEF Sound, Agree
<1>2. r \in Pools /\ r.all = p.all /\ SameLists(p, r) /\ r.currentState = b
      /\ r.locals = p.locals /\ r.journal = p.journal /\ r.gasPrice = p.gasPrice
      /\ SameHeap(p, r) /\ r.pendingState = f
  BY <1>1 DEF SetState, Pools, SameLists, SameHeap
<1> HIDE DEF r
<1>3. Sound(r)
  BY <1>2 DEF Sound, Agree, Priced, PricedFor, SameHeap, SameLists
<1> QED BY <1>2, <1>3 DEF r

\* The next nonces follow the pending transactions, which can then be
\* executed if nothing is missing among them.
LEMMA UpdateNoncesFacts ==
    ASSUME NEW p, Sound(p)
    PROVE  LET r == UpdateNonces(p)
           IN  /\ Sound(r) /\ Shrunk(p, r) /\ SameLists(p, r)
               /\ \A a \in Addr : /\ Settled(p, a) /\ Gapless(p, a)
                                  /\ p.pendingState[a] = StateNonce(p, a)
                                  => Exec(r, a)
<1> DEFINE N(a) == {t.nonce : t \in Of(p.pending, a)}
           f == [a \in Addr |-> IF Of(p.pending, a) = {} THEN p.pendingState[a]
                                ELSE Max({t.nonce : t \in Of(p.pending, a)}) + 1]
           b == p.currentState
<1>1. p \in Pools /\ p.pendingState \in [Addr -> Nat] /\ b \in DOMAIN Block
      /\ p.pending \in SUBSET Tx
  BY PoolFields DEF Sound, Agree
<1>2. ASSUME NEW a \in Addr, Of(p.pending, a) # {}
      PROVE  Max(N(a)) \in Nat /\ Max(N(a)) \in N(a) /\ \A n \in N(a) : n <= Max(N(a))
  <2> DEFINE M == {t.nonce : t \in Of(p.pending, a)}
  <2>1. Of(p.pending, a) \in SUBSET Tx /\ IsFiniteSet(Of(p.pending, a))
    BY <1>1, PendingOfType
  <2>2. M \in SUBSET Nat /\ M # {}
    BY <1>2, <2>1, TxFacts
  <2>3. IsFiniteSet(M)
    <3> DEFINE S == Of(p.pending, a)
               g == [t \in S |-> t.nonce]
    <3>1. g \in Surjection(S, M)
      BY DEF Surjection
    <3> QED BY <2>1, <3>1, FS_Surjection
  <2> HIDE DEF M
  <2>4. Max(M) \in Nat /\ Max(M) \in M /\ \A n \in M : n <= Max(M)
    BY <2>2, <2>3, MaxFacts
  <2> QED BY <2>4 DEF M
<1>3. f \in [Addr -> Nat]
  BY <1>1, <1>2
<1>4. \A a \in Addr : /\ Of(p.pending, a) = {} => f[a] = p.pendingState[a]
                      /\ Of(p.pending, a) # {} => f[a] = Max(N(a)) + 1
  OBVIOUS
<1>5. UpdateNonces(p) = SetState(p, b, f)
  BY <1>1 DEF UpdateNonces, SetState, Pools
<1> HIDE DEF f, b
<1> DEFINE r == SetState(p, b, f)
<1>6. Sound(r) /\ r.all = p.all /\ r.currentState = b /\ SameLists(p, r) /\ r.pendingState = f
      /\ r.locals = p.locals /\ r.journal = p.journal /\ r.gasPrice = p.gasPrice
  BY <1>1, <1>3, SetStateFacts
<1> HIDE DEF r
<1>7. Shrunk(p, r)
  <2>1. Spares(p, r)
    BY <1>6, SparesFacts
  <2> QED BY <1>6, <2>1 DEF Shrunk, Steady, b
<1>8. ASSUME NEW a \in Addr, Settled(p, a), Gapless(p, a), p.pendingState[a] = StateNonce(p, a)
      PROVE  Exec(r, a)
  <2> DEFINE z == StateNonce(p, a)
  <2>1. StateNonce(r, a) = z /\ \A t : Payable(r, t) <=> Payable(p, t)
    BY <1>6, SameValid DEF b
  <2>2. r.pending = p.pending
    BY <1>6 DEF SameLists
  <2>3. \A t \in p.pending : t.from = a => t.nonce >= z /\ Payable(p, t)
    BY <1>8 DEF Settled, PendingValid, ValidIn
  <2>4. z \in Nat /\ \A t \in p.pending : t.nonce \in Nat
    BY <1>1, StateNonceType, TxFacts
  <2>5. \A n \in N(a) : \E t \in p.pending : t.from = a /\ t.nonce = n
    BY DEF Of
  <2>6. \A t \in p.pending : t.from = a => t.nonce \in N(a) /\ Of(p.pending, a) # {}
    BY DEF Of
  <2>7. Of(p.pending, a) # {} => \E t \in p.pending : t.from = a
    BY DEF Of
  <2> HIDE DEF z, N
  <2>8. ASSUME NEW n \in Nat
        PROVE  (\E t \in p.pending : t.from = a /\ t.nonce = n) <=> z <= n /\ n < f[a]
    <3>1. CASE Of(p.pending, a) = {}
      <4>1. f[a] = z
        BY <1>4, <1>8, <3>1 DEF z
      <4>2. ~(z <= n /\ n < f[a])
        BY <2>4, <4>1
      <4> QED BY <2>6, <3>1, <4>2
    <3>2. CASE Of(p.pending, a) # {}
      <4> DEFINE m == Max(N(a))
      <4>1. m \in Nat /\ m \in N(a) /\ (\A k \in N(a) : k <= m) /\ f[a] = m + 1
        BY <1>2, <1>4, <3>2
      <4> HIDE DEF m
      <4>2. PICK u \in p.pending : u.from = a /\ u.nonce = m
        BY <2>5, <4>1
      <4>3. ASSUME NEW t \in p.pending, t.from = a, t.nonce = n
            PROVE  z <= n /\ n < f[a]
        <5>1. n <= m
          BY <2>6, <4>1, <4>3
        <5>2. z <= n
          BY <2>3, <2>4, <4>3
        <5> QED BY <4>1, <5>1, <5>2
      <4>4. ASSUME z <= n, n < f[a]
            PROVE  \E t \in p.pending : t.from = a /\ t.nonce = n
        <5>1. PICK w \in p.pending : w.from = a /\ w.nonce = z
          BY <1>8, <2>7, <3>2 DEF Settled, Rooted, z
        <5>2. w.nonce =< n /\ n =< u.nonce
          BY <2>4, <4>1, <4>2, <4>4, <5>1
        <5> QED BY <1>8, <4>2, <5>1, <5>2 DEF Gapless
      <4> QED BY <4>3, <4>4
    <3> QED BY <3>1, <3>2
  <2>9. r.pendingState[a] = f[a]
    BY <1>6
  <2> QED BY <2>1, <2>2, <2>3, <2>8, <2>9 DEF Exec
<1> QED BY <1>5, <1>6, <1>7, <1>8 DEF r

LEMMA PromoteAllFacts ==
    ASSUME NEW p, Sound(p)
    PROVE  LET r == PromoteAll(p)
           IN  /\ Sound(r) /\ Kept(p, r) /\ Quota(r)
               /\ \A a \in Addr : Free(r, a) /\ (PendingValid(p, a) => AllValid(r, a))
<1> DEFINE A == {t.from : t \in p.queue}
           r == promoteExecutables(p, A)
<1>1. (\A a \in Addr \ A : Free(p, a)) /\ \A a : a \notin A => \A t \in p.queue : t.from # a
  BY DEF Free
<1>2. PromoteAll(p) = r
  BY DEF PromoteAll
<1> HIDE DEF A
<1>3. /\ Sound(r) /\ Kept(p, r) /\ Quota(r) /\ \A a \in Addr : Free(r, a)
      /\ \A a \in Addr \intersect A : PendingValid(p, a) => AllValid(r, a)
  BY <1>1, PromoteExecutablesFacts
<1> HIDE DEF r
<1>4. ASSUME NEW a \in Addr, PendingValid(p, a)
      PROVE  AllValid(r, a)
  <2>1. CASE a \in A
    BY <1>3, <1>4, <2>1
  <2>2. CASE a \notin A
    <3>1. QueueValid(p, a)
      BY <1>1, <2>2 DEF QueueValid
    <3>2. AllValid(p, a)
      BY <1>4, <3>1, AllValidFacts
    <3> QED BY <1>3, <3>2, AllValidFacts DEF Kept
  <2> QED BY <2>1, <2>2
<1> QED BY <1>2, <1>3, <1>4

\* Transactions that can be executed have no gap between them.
LEMMA ExecGapless ==
    ASSUME NEW p, NEW q, q.pending = p.pending, NEW a, Exec(p, a),
           p.pendingState[a] \in Nat, StateNonce(p, a) \in Nat, p.pending \in SUBSET Tx
    PROVE  Gapless(q, a)
<1> SUFFICES ASSUME NEW t \in p.pending, NEW u \in p.pending, NEW n \in Nat, t.from = a, u.from = a,
                    t.nonce =< n, n =< u.nonce
             PROVE  \E v \in p.pending : v.from = a /\ v.nonce = n
  BY DEF Gapless
<1>1. \A k \in Nat : (\E v \in p.pending : v.from = a /\ v.nonce = k)
                       <=> StateNonce(p, a) <= k /\ k < p.pendingState[a]
  BY DEF Exec
<1>2. t.nonce \in Nat /\ u.nonce \in Nat
  BY TxFacts
<1>3. StateNonce(p, a) <= t.nonce /\ u.nonce < p.pendingState[a]
  BY <1>1, <1>2
<1>4. StateNonce(p, a) <= n /\ n < p.pendingState[a]
  BY <1>2, <1>3
<1> QED BY <1>1, <1>4

\* After reset the pool follows the new block, all its transactions are valid
\* there, no next nonce is in the queue, and the limits hold.
LEMMA ResetFacts ==
    ASSUME NEW p, Sound(p), NEW b \in DOMAIN Block, NEW txs \in Seq(Tx)
    PROVE  LET r == reset(p, b, txs)
           IN  /\ Sound(r) /\ r.currentState = b /\ r.locals = p.locals
               /\ ToSet(p.journal) \subseteq ToSet(r.journal) /\ Journaled(p, r)
               /\ (Roomy(p) => Roomy(r)) /\ Quota(r) /\ \A a \in Addr : Free(r, a)
               /\ \A a \in Addr : AllValid(r, a)
               /\ Stays(p, r)
               /\ txs = <<>> => Executes(p, r) /\ r.all \subseteq p.all
               /\ \A t \in ToSet(txs) : /\ t.from \in p.locals /\ ValidIn(r, t)
                                         /\ Overlapping(p.all, t) = {}
                                         => Holds(r, t)
<1> DEFINE f == Block[b].nonce
           v == SetState(p, b, f)
           w == addTxsLocked(v, txs, FALSE)
           x == demoteUnexecutables(w)
           y == UpdateNonces(x)
           r == PromoteAll(y)
<1>1. reset(p, b, txs) = r
  BY DEF reset, SetState
<1>2. f \in [Addr -> Nat]
  BY BlockAssumption
<1> HIDE DEF f
<1>3. /\ Sound(v) /\ v.all = p.all /\ v.currentState = b /\ v.locals = p.locals /\ v.journal = p.journal
      /\ SameLists(p, v) /\ v.pendingState = f
  BY <1>2, SetStateFacts
<1> HIDE DEF v
<1>4. Later(v, w, FALSE) /\ Journaled(v, w)
      /\ (\A j \in 1..Len(txs) : Offered(v, FALSE, txs[j]) => Holds(w, txs[j]))
      /\ (txs = <<>> => w = v)
  BY <1>3, AddTxsFacts
<1> HIDE DEF w
<1>5. Sound(w)
  BY <1>4 DEF Later
<1>6. /\ Sound(x) /\ Shrunk(w, x) /\ x.pendingState = w.pendingState
      /\ \A a \in Addr : Settled(x, a) /\ (Gapless(w, a) => Gapless(x, a))
  BY <1>5, DemoteUnexecutablesFacts
<1> HIDE DEF x
<1>7. /\ Sound(y) /\ Shrunk(x, y) /\ SameLists(x, y)
      /\ \A a \in Addr : /\ Settled(x, a) /\ Gapless(x, a)
                         /\ x.pendingState[a] = StateNonce(x, a)
                         => Exec(y, a)
  BY <1>6, UpdateNoncesFacts
<1> HIDE DEF y
<1>8. /\ Sound(r) /\ Kept(y, r) /\ Quota(r)
      /\ \A a \in Addr : Free(r, a) /\ (PendingValid(y, a) => AllValid(r, a))
  BY <1>7, PromoteAllFacts
<1> HIDE DEF r
<1>9. Shrunk(w, r)
  <2>1. Shrunk(y, r)
    BY <1>8, ShrunkFacts
  <2> QED BY <1>6, <1>7, <2>1, ShrunkFacts
<1>10. Later(w, r, FALSE) /\ Journaled(v, r)
  BY <1>3, <1>4, <1>5, <1>8, <1>9, LaterFacts
<1>11. Later(v, r, FALSE)
  BY <1>3, <1>4, <1>10, LaterFacts
<1>12. Roomy(p) => Roomy(v)
  BY <1>3 DEF Roomy
<1>13. Journaled(p, r)
  BY <1>3, <1>10 DEF Journaled
<1>14. /\ r.currentState = b /\ r.locals = p.locals /\ ToSet(p.journal) \subseteq ToSet(r.journal)
       /\ (Roomy(p) => Roomy(r))
  BY <1>3, <1>11, <1>12 DEF Later
<1>15. ASSUME NEW a \in Addr
       PROVE  AllValid(r, a)
  <2>1. \A t : ValidIn(y, t) <=> ValidIn(x, t)
    BY <1>7, SameValid DEF Shrunk, Steady
  <2>2. PendingValid(y, a)
    BY <1>6, <1>7, <2>1 DEF Settled, PendingValid, SameLists
  <2> QED BY <1>8, <2>2
<1>16. Stays(p, r)
  <2>1. Stays(v, r)
    BY <1>11 DEF Later
  <2> QED BY <1>3, <2>1 DEF Stays
<1>17. ASSUME txs = <<>>, NEW a \in Addr, Exec(p, a)
       PROVE  Exec(r, a)
  <2>1. w = v /\ v.pending = p.pending
    BY <1>3, <1>4, <1>17 DEF SameLists
  <2>2. Gapless(w, a)
    <3>1. p \in Pools
      BY DEF Sound, Agree
    <3>2. p.pendingState[a] \in Nat /\ StateNonce(p, a) \in Nat /\ p.pending \in SUBSET Tx
      BY <3>1, PoolFields, StateNonceType
    <3>3. w.pending = p.pending
      BY <2>1
    <3> QED BY <1>17, <3>2, <3>3, ExecGapless
  <2>3. x.pendingState[a] = StateNonce(x, a)
    <3>1. x.currentState = b
      BY <1>3, <1>6, <2>1 DEF Shrunk, Steady
    <3>2. x.pendingState = f
      BY <1>3, <1>6, <2>1
    <3> QED BY <3>1, <3>2 DEF StateNonce, f
  <2>4. Exec(y, a)
    BY <1>6, <1>7, <2>2, <2>3
  <2> QED BY <1>8, <2>4 DEF Kept, Executes
<1>18. ASSUME NEW t \in ToSet(txs), t.from \in p.locals, ValidIn(r, t), Overlapping(p.all, t) = {}
       PROVE  Holds(r, t)
  <2>1. PICK j \in 1..Len(txs) : txs[j] = t
    BY DEF ToSet
  <2>2. ValidIn(v, t)
    BY <1>3, <1>14, <1>18, SameValid
  <2>3. Offered(v, FALSE, t)
    BY <1>3, <1>18, <2>2 DEF Offered
  <2>4. Holds(w, t) /\ t \in Tx
    <3>1. Offered(v, FALSE, txs[j]) => Holds(w, txs[j])
      BY <1>4, Zenon
    <3> QED BY <2>1, <2>3, <3>1
  <2>5. w.all \in SUBSET Tx /\ r.all \in SUBSET Tx
    BY <1>5, <1>8, PoolFields DEF Sound, Agree
  <2>6. Stays(w, r) /\ r.currentState = w.currentState
    BY <1>10 DEF Later
  <2>7. t.from \in w.locals
    BY <1>3, <1>4, <1>18 DEF Later
  <2> QED BY <2>4, <2>5, <2>6, <2>7, HoldsFacts
<1>19. txs = <<>> => r.all \subseteq p.all
  BY <1>3, <1>4, <1>9 DEF Shrunk
<1> QED BY <1>1, <1>8, <1>13, <1>14, <1>15, <1>16, <1>17, <1>18, <1>19 DEF Executes

-----------------------------------------------------------------------------
(* What a reorganisation takes off the chain *)

\* The recursive function of BranchDown, for the highest k + 1 numbers.
IsDown(f, b, k) ==
    f = [n \in (Block[b].number - k)..Block[b].number |->
            IF n = Block[b].number THEN b ELSE Block[f[n + 1]].parent]

LEMMA DownExists ==
    ASSUME NEW b, Block[b].number \in Nat, NEW k \in Nat
    PROVE  \E f : IsDown(f, b, k)
<1> DEFINE N == Block[b].number
           B == {n \in Nat : ~ \E f : IsDown(f, b, n)}
<1>1. SUFFICES ASSUME B # {} PROVE FALSE
  OBVIOUS
<1>2. PICK m \in B : \A n \in B : m <= n
  BY <1>1, LeastNat
<1>3. m # 0
  <2> DEFINE g == [n \in (N - 0)..N |-> b]
  <2>1. \A n \in (N - 0)..N : n = N
    OBVIOUS
  <2>2. IsDown(g, b, 0)
    BY <2>1 DEF IsDown
  <2> QED BY <1>2, <2>2
<1>4. m \in Nat /\ m - 1 \in Nat /\ m - 1 \notin B
  <2>1. m \in Nat
    OBVIOUS
  <2> HIDE DEF B
  <2> QED BY <1>2, <1>3, <2>1
<1>5. PICK f : IsDown(f, b, m - 1)
  BY <1>4
<1> DEFINE g == [n \in (N - m)..N |-> IF n = N - m THEN Block[f[n + 1]].parent ELSE f[n]]
<1>6. N \in Nat
  OBVIOUS
<1> HIDE DEF N
<1>7. ASSUME NEW n \in (N - m)..N
      PROVE  g[n] = IF n = N THEN b ELSE Block[g[n + 1]].parent
  <2>1. CASE n = N - m
    <3>1. n # N /\ n + 1 \in (N - m)..N /\ n + 1 # N - m
      BY <1>3, <1>4, <1>6, <2>1
    <3> QED BY <2>1, <3>1
  <2>2. CASE n # N - m
    <3>1. n \in (N - (m - 1))..N
      BY <1>4, <1>6, <2>2
    <3>2. f[n] = IF n = N THEN b ELSE Block[f[n + 1]].parent
      <4> HIDE DEF g
      <4> QED BY <1>5, <3>1 DEF IsDown, N
    <3>3. n # N => n + 1 \in (N - m)..N /\ n + 1 # N - m
      BY <1>4, <1>6, <2>2
    <3>4. g[n] = f[n] /\ (n # N => g[n + 1] = f[n + 1])
      BY <2>2, <3>3
    <3> HIDE DEF g
    <3> QED BY <3>2, <3>4
  <2> QED BY <2>1, <2>2
<1>8. IsDown(g, b, m)
  BY <1>7 DEF IsDown, N
<1> QED BY <1>2, <1>8

\* What goes down from N to each lower number holds for all of them.
LEMMA NatStepsDown ==
    ASSUME NEW N \in Nat, NEW P, N \in P, \A n \in 0..N : n # N /\ n + 1 \in P => n \in P
    PROVE  \A n \in 0..N : n \in P
<1> DEFINE B == {k \in 0..N : N - k \notin P}
<1>1. SUFFICES ASSUME NEW n \in 0..N, n \notin P PROVE FALSE
  OBVIOUS
<1>2. N - n \in 0..N /\ N - (N - n) = n
  OBVIOUS
<1>3. B \in SUBSET Nat /\ N - n \in B
  <2>1. N - (N - n) \notin P
    BY <1>1, <1>2
  <2> QED BY <1>2, <2>1
<1>4. PICK m \in B : \A k \in B : m <= k
  <2> HIDE DEF B
  <2> QED BY <1>3, LeastNat
<1>5. m \in 0..N /\ N - m \notin P /\ m # 0
  <2>1. N - 0 = N
    OBVIOUS
  <2> QED BY <1>4, <2>1
<1>6. m - 1 \in 0..N /\ m - 1 \notin B
  <2> HIDE DEF B
  <2> QED BY <1>4, <1>5
<1>7. N - m \in 0..N /\ N - m # N /\ (N - m) + 1 = N - (m - 1)
  BY <1>5
<1> QED BY <1>5, <1>6, <1>7

\* The branch that ends in b: every block in it is the parent of the next one.
IsBranch(f, b) ==
    /\ Block[b].number \in Nat
    /\ f \in [0..Block[b].number -> DOMAIN Block]
    /\ f[Block[b].number] = b
    /\ \A n \in 0..Block[b].number : n # Block[b].number => f[n] = Block[f[n + 1]].parent

LEMMA BranchDownFacts ==
    ASSUME NEW b \in DOMAIN Block
    PROVE  IsBranch(BranchDown(b), b)
<1> DEFINE N == Block[b].number
           f == BranchDown(b)
<1>1. N \in Nat
  BY BlockAssumption
<1>2. \E g : g = [n \in 0..N |-> IF n = N THEN b ELSE Block[g[n + 1]].parent]
  <2>1. N - N = 0
    BY <1>1
  <2>2. \E g : IsDown(g, b, N)
    BY <1>1, DownExists
  <2> QED BY <2>1, <2>2 DEF IsDown
<1>3. f = [n \in 0..N |-> IF n = N THEN b ELSE Block[f[n + 1]].parent]
  BY <1>2, Zenon DEF BranchDown
<1> HIDE DEF f, N
<1>4. ASSUME NEW n \in 0..N
      PROVE  f[n] = IF n = N THEN b ELSE Block[f[n + 1]].parent
  BY <1>3
<1> DEFINE P == {n \in 0..N : f[n] \in DOMAIN Block}
<1>5. \A n \in 0..N : n \in P
  <2>1. N \in P
    BY <1>1, <1>4
  <2>2. ASSUME NEW n \in 0..N, n # N, n + 1 \in P
        PROVE  n \in P
    BY <1>4, <2>2, BlockAssumption
  <2> HIDE DEF P
  <2> QED BY <1>1, <2>1, <2>2, NatStepsDown
<1>6. f \in [0..N -> DOMAIN Block]
  BY <1>3, <1>5
<1>7. f[N] = b
  BY <1>1, <1>4
<1> QED BY <1>1, <1>4, <1>6, <1>7 DEF f, N, IsBranch

LEMMA ParentFacts ==
    ASSUME NEW b \in DOMAIN Block, b # Genesis
    PROVE  /\ Block[b].parent \in DOMAIN Block
           /\ Block[Block[b].parent].number \in Nat
           /\ Block[b].number = Block[Block[b].parent].number + 1
BY BlockAssumption, ChainAssumption

\* A block adds to the nonces of its parent, and has its transactions below
\* its own nonces.
LEMMA BlockNonces ==
    ASSUME NEW b \in DOMAIN Block, b # Genesis
    PROVE  /\ \A a \in Addr : Block[Block[b].parent].nonce[a] <= Block[b].nonce[a]
           /\ \A t \in ToSet(Block[b].txs) : t \in Tx /\ t.nonce < Block[b].nonce[t.from]
<1> DEFINE s == Block[b].txs
           par == Block[Block[b].parent]
           Own(a) == {i \in DOMAIN s : s[i].from = a}
           Before(i) == {j \in 1 .. (i - 1) : s[j].from = s[i].from}
<1>1. s \in Seq(Tx) /\ DOMAIN s = 1..Len(s) /\ Len(s) \in Nat
  BY BlockAssumption
<1>2. par.nonce \in [Addr -> Nat] /\ Block[b].nonce \in [Addr -> Nat]
  BY BlockAssumption
<1>3. /\ \A i \in DOMAIN s : s[i].nonce = par.nonce[s[i].from] + Cardinality(Before(i))
      /\ \A a \in Addr : Block[b].nonce[a] = par.nonce[a] + Cardinality(Own(a))
  BY ChainAssumption
<1> HIDE DEF s, par
<1>4. ASSUME NEW a
      PROVE  IsFiniteSet(Own(a)) /\ Cardinality(Own(a)) \in Nat
  <2>1. IsFiniteSet(1..Len(s)) /\ Own(a) \in SUBSET (1..Len(s))
    BY <1>1, FS_Interval
  <2> HIDE DEF Own
  <2> QED BY <2>1, FS_Subset, FS_CardinalityType
<1>5. \A a \in Addr : par.nonce[a] <= Block[b].nonce[a]
  <2> HIDE DEF Own
  <2> QED BY <1>2, <1>3, <1>4
<1>6. ASSUME NEW i \in DOMAIN s
      PROVE  s[i] \in Tx /\ s[i].nonce < Block[b].nonce[s[i].from]
  <2> DEFINE a == s[i].from
             S == Own(a)
             T == S \ {i}
  <2>1. s[i] \in Tx /\ a \in Addr /\ s[i].nonce \in Nat
    BY <1>1, TxFacts
  <2>2. i \in S /\ Before(i) \in SUBSET T
    BY <1>1
  <2>3. IsFiniteSet(S) /\ Cardinality(S) \in Nat
    BY <1>4
  <2>4. s[i].nonce = par.nonce[a] + Cardinality(Before(i)) /\ Block[b].nonce[a] = par.nonce[a] + Cardinality(S)
    BY <1>3, <2>1
  <2> DEFINE R == Before(i)
  <2> HIDE DEF S, R, a
  <2>5. IsFiniteSet(T) /\ Cardinality(T) = Cardinality(S) - 1
    BY <2>2, <2>3, FS_RemoveElement DEF R
  <2> HIDE DEF T
  <2>6. Cardinality(R) <= Cardinality(T) /\ IsFiniteSet(R)
    BY <2>2, <2>5, FS_Subset DEF R
  <2>7. Cardinality(R) \in Nat /\ par.nonce[a] \in Nat
    BY <1>2, <2>1, <2>6, FS_CardinalityType
  <2>8. s[i].nonce < Block[b].nonce[a]
    BY <2>3, <2>4, <2>5, <2>6, <2>7 DEF R
  <2> QED BY <2>1, <2>8 DEF a
<1>7. \A t \in ToSet(s) : \E i \in DOMAIN s : t = s[i]
  BY DEF ToSet
<1>8. \A t \in ToSet(s) : t \in Tx /\ t.nonce < Block[b].nonce[t.from]
  BY <1>6, <1>7
<1> QED BY <1>5, <1>8 DEF s, par

\* A branch goes down to the first block, by numbers, and nonces never grow
\* on the way.
LEMMA BranchFacts ==
    ASSUME NEW b, NEW f, IsBranch(f, b)
    PROVE  /\ \A n \in 0..Block[b].number : Block[f[n]].number = n
           /\ \A n \in 1..Block[b].number : f[n] # Genesis
           /\ f[0] = Genesis
           /\ \A n \in 0..Block[b].number : \A a \in Addr : Block[f[n]].nonce[a] <= Block[b].nonce[a]
<1> DEFINE N == Block[b].number
           P == {n \in 0..N : Block[f[n]].number = n}
           Q == {n \in 0..N : \A a \in Addr : Block[f[n]].nonce[a] <= Block[b].nonce[a]}
<1>1. /\ N \in Nat /\ f[N] = b
      /\ \A n \in 0..N : f[n] \in DOMAIN Block
      /\ \A n \in 0..N : n # N => f[n] = Block[f[n + 1]].parent
  BY DEF IsBranch
<1>2. Block[Genesis].number = 0
  BY BlockAssumption
<1>3. \A n \in 0..N : n # N => n + 1 \in 0..N
  BY <1>1
<1>4. \A n \in 0..N : n \in P
  <2>1. N \in P
    BY <1>1
  <2>2. ASSUME NEW n \in 0..N, n # N, n + 1 \in P
        PROVE  n \in P
    <3>1. f[n + 1] \in DOMAIN Block /\ f[n] = Block[f[n + 1]].parent /\ Block[f[n + 1]].number = n + 1
      BY <1>1, <1>3, <2>2
    <3>2. f[n + 1] # Genesis
      BY <1>2, <3>1
    <3>3. Block[f[n]].number \in Nat /\ n + 1 = Block[f[n]].number + 1
      BY <3>1, <3>2, ParentFacts
    <3>4. Block[f[n]].number = n
      BY <3>3
    <3> QED BY <3>4
  <2> HIDE DEF N, P
  <2> QED BY <1>1, <2>1, <2>2, NatStepsDown
<1>5. \A n \in 0..N : Block[f[n]].number = n
  BY <1>4
<1>6. \A n \in 1..N : f[n] # Genesis
  BY <1>1, <1>2, <1>5
<1>7. f[0] = Genesis
  <2>1. f[0] \in DOMAIN Block /\ Block[f[0]].number = 0
    BY <1>1, <1>5
  <2>2. \A k \in Nat : k + 1 # 0
    OBVIOUS
  <2> QED BY <2>1, <2>2, ParentFacts
<1>8. \A n \in 0..N : n \in Q
  <2>0. \A n \in 0..N : \A a \in Addr : Block[f[n]].nonce[a] \in Nat
    BY <1>1, BlockAssumption
  <2>1. N \in Q
    BY <1>1, <2>0
  <2>2. ASSUME NEW n \in 0..N, n # N, n + 1 \in Q
        PROVE  n \in Q
    <3>1. n + 1 \in 1..N /\ n + 1 \in 0..N /\ N \in 0..N
      BY <1>1, <2>2
    <3>2. f[n + 1] \in DOMAIN Block /\ f[n] = Block[f[n + 1]].parent /\ f[n + 1] # Genesis
      BY <1>1, <1>6, <2>2, <3>1
    <3>3. \A a \in Addr : Block[f[n]].nonce[a] <= Block[f[n + 1]].nonce[a]
      BY <3>2, BlockNonces
    <3>4. \A a \in Addr : Block[f[n + 1]].nonce[a] <= Block[b].nonce[a]
      BY <2>2
    <3>5. \A a \in Addr : Block[f[n]].nonce[a] \in Nat /\ Block[f[n + 1]].nonce[a] \in Nat /\ Block[b].nonce[a] \in Nat
      BY <1>1, <2>0, <3>1
    <3>6. \A a \in Addr : Block[f[n]].nonce[a] <= Block[b].nonce[a]
      BY <3>3, <3>4, <3>5
    <3> QED BY <3>6
  <2> HIDE DEF N, Q
  <2> QED BY <1>1, <2>1, <2>2, NatStepsDown
<1> QED BY <1>5, <1>6, <1>7, <1>8

\* The numbers at which the branch f differs from the branch g.
Apart(f, g) == {n \in DOMAIN f : n \notin DOMAIN g \/ f[n] # g[n]}

\* Two branches that differ at a number differ at all that follow.
LEMMA ApartFacts ==
    ASSUME NEW b, NEW f, IsBranch(f, b), NEW c, NEW g, IsBranch(g, c)
    PROVE  /\ Apart(f, g) \in SUBSET (0..Block[b].number)
           /\ \A n \in 0..Block[b].number : n # Block[b].number /\ n \in Apart(f, g) => n + 1 \in Apart(f, g)
<1> DEFINE N == Block[b].number
           M == Block[c].number
<1>1. N \in Nat /\ M \in Nat /\ DOMAIN f = 0..N /\ DOMAIN g = 0..M
  BY DEF IsBranch
<1>2. ASSUME NEW n \in 0..N, n # N, n \in Apart(f, g), n + 1 \notin Apart(f, g)
      PROVE  FALSE
  <2>1. n + 1 \in 0..N
    BY <1>1, <1>2
  <2>2. n + 1 \in 0..M /\ f[n + 1] = g[n + 1]
    BY <1>1, <1>2, <2>1 DEF Apart
  <2>3. n \in 0..M /\ n # M
    BY <1>1, <2>2
  <2>4. f[n] = Block[f[n + 1]].parent /\ g[n] = Block[g[n + 1]].parent
    BY <1>2, <2>3 DEF IsBranch
  <2>5. f[n] = g[n]
    BY <2>2, <2>4
  <2> QED BY <1>1, <1>2, <2>3, <2>5 DEF Apart
<1> QED BY <1>1, <1>2 DEF Apart

\* A set that has the next number, up to N, has all above its least one.
LEMMA UpperPart ==
    ASSUME NEW N \in Nat, NEW T \in SUBSET (0..N), \A n \in 0..N : n # N /\ n \in T => n + 1 \in T
    PROVE  \A n \in 0..N : n \in T <=> N - n + 1 \in 1..Cardinality(T)
<1>1. CASE T = {}
  <2>1. Cardinality(T) = 0
    BY <1>1, FS_EmptySet
  <2> QED BY <1>1, <2>1
<1>2. CASE T # {}
  <2>1. T \in SUBSET Nat
    OBVIOUS
  <2>2. PICK m \in T : \A n \in T : m <= n
    BY <1>2, <2>1, LeastNat
  <2> DEFINE B == {n \in m..N : n \notin T}
  <2>3. B = {}
    <3>1. SUFFICES ASSUME B # {} PROVE FALSE
      OBVIOUS
    <3>2. B \in SUBSET Nat
      BY <2>1
    <3>3. PICK k \in B : \A n \in B : k <= n
      <4> HIDE DEF B
      <4> QED BY <3>1, <3>2, LeastNat
    <3>4. k \in m..N /\ k \notin T /\ k # m /\ m \in 0..N
      BY <2>2, <3>3
    <3>5. k - 1 \in m..N /\ k - 1 \notin B /\ k - 1 # N /\ k - 1 \in 0..N /\ (k - 1) + 1 = k
      <4>1. k - 1 \in m..N /\ k - 1 # N /\ k - 1 \in 0..N /\ (k - 1) + 1 = k /\ ~(k <= k - 1)
        BY <3>4
      <4> HIDE DEF B
      <4> QED BY <3>3, <4>1
    <3>6. k - 1 \in T
      BY <3>5
    <3>7. (k - 1) + 1 \in T
      <4> DEFINE l == k - 1
      <4>1. l \in 0..N /\ l # N /\ l \in T
        BY <3>5, <3>6
      <4> HIDE DEF l
      <4>2. l + 1 \in T
        BY <4>1
      <4> QED BY <4>2 DEF l
    <3> QED BY <3>4, <3>5, <3>7
  <2>4. T = m..N /\ m \in 0..N
    <3>1. \A n \in T : n \in 0..N /\ m <= n
      BY <2>2
    <3>2. \A n \in T : n \in m..N
      BY <3>1
    <3>3. \A n \in m..N : n \in T
      BY <2>3
    <3> QED BY <3>1, <3>2, <3>3
  <2>5. Cardinality(m..N) = N - m + 1
    BY <2>4, FS_Interval
  <2> HIDE DEF B
  <2>6. Cardinality(T) = N - m + 1
    BY <2>4, <2>5
  <2>7. \A n \in 0..N : n \in m..N <=> N - n + 1 \in 1..(N - m + 1)
    BY <2>4
  <2> QED BY <2>4, <2>6, <2>7
<1> QED BY <1>1, <1>2

\* Fork lists the blocks of the branch of b that are not in that of c.
LEMMA ForkFacts ==
    ASSUME NEW b \in DOMAIN Block, NEW c \in DOMAIN Block
    PROVE  /\ Fork(b, c) \in Seq(DOMAIN Block)
           /\ \A x : x \in ToSet(Fork(b, c)) <=>
                  \E n \in Apart(BranchDown(b), BranchDown(c)) : x = BranchDown(b)[n]
<1> DEFINE own == BranchDown(b)
           other == BranchDown(c)
           N == Block[b].number
           T == Apart(own, other)
           k == Cardinality(T)
           f == [i \in 1..k |-> own[N - i + 1]]
<1>1. Fork(b, c) = f
  BY DEF Fork, Apart
<1>2. IsBranch(own, b) /\ IsBranch(other, c)
  BY BranchDownFacts
<1> HIDE DEF own, other
<1>3. N \in Nat /\ own \in [0..N -> DOMAIN Block]
  BY <1>2 DEF IsBranch
<1>4. T \in SUBSET (0..N) /\ \A n \in 0..N : n # N /\ n \in T => n + 1 \in T
  BY <1>2, ApartFacts
<1> HIDE DEF T, N
<1>5. k \in Nat /\ k <= N + 1
  <2>1. IsFiniteSet(0..N) /\ Cardinality(0..N) = N + 1
    BY <1>3, FS_Interval
  <2>2. IsFiniteSet(T) /\ Cardinality(T) <= Cardinality(0..N)
    BY <1>4, <2>1, FS_Subset
  <2>3. Cardinality(T) \in Nat
    BY <2>2, FS_CardinalityType
  <2> QED BY <2>1, <2>2, <2>3
<1>6. \A n \in 0..N : n \in T <=> N - n + 1 \in 1..k
  BY <1>3, <1>4, UpperPart
<1> HIDE DEF k
<1>7. \A i \in 1..k : N - i + 1 \in 0..N /\ N - (N - i + 1) + 1 = i
  BY <1>3, <1>5
<1>8. \A n \in 0..N : N - (N - n + 1) + 1 = n
  BY <1>3
<1>9. f \in [1..k -> DOMAIN Block]
  BY <1>3, <1>7
<1>10. ASSUME NEW x
       PROVE  (\E i \in 1..k : x = f[i]) <=> \E n \in T : x = own[n]
  <2>1. ASSUME NEW i \in 1..k, x = f[i]
        PROVE  \E n \in T : x = own[n]
    <3>1. N - i + 1 \in T
      BY <1>6, <1>7
    <3> QED BY <2>1, <3>1
  <2>2. ASSUME NEW n \in T, x = own[n]
        PROVE  \E i \in 1..k : x = f[i]
    <3>1. N - n + 1 \in 1..k /\ N - (N - n + 1) + 1 = n
      BY <1>4, <1>6, <1>8
    <3> QED BY <2>2, <3>1
  <2> QED BY <2>1, <2>2
<1> HIDE DEF f
<1>11. f \in Seq(DOMAIN Block) /\ DOMAIN f = 1..k
  BY <1>5, <1>9, FunctionIsSeq
<1>12. \A x : x \in ToSet(f) <=> \E n \in T : x = own[n]
  BY <1>10, <1>11 DEF ToSet
<1> QED BY <1>1, <1>11, <1>12 DEF own, other, T

LEMMA ConcatToSet ==
    ASSUME NEW S, NEW s \in Seq(S), NEW t \in Seq(S)
    PROVE  s \o t \in Seq(S) /\ ToSet(s \o t) = ToSet(s) \union ToSet(t)
<1> DEFINE r == s \o t
           m == Len(s)
           n == Len(t)
<1>1. m \in Nat /\ n \in Nat /\ r \in Seq(S) /\ DOMAIN s = 1..m /\ DOMAIN t = 1..n
      /\ DOMAIN r = 1..(m + n)
  OBVIOUS
<1>2. \A i \in 1..m : r[i] = s[i]
  OBVIOUS
<1>3. \A i \in 1..n : r[m + i] = t[i]
  OBVIOUS
<1> HIDE DEF r, m, n
<1>4. \A i \in 1..(m + n) : i \in 1..m \/ (i - m \in 1..n /\ m + (i - m) = i)
  BY <1>1
<1>5. \A i \in 1..m : i \in 1..(m + n)
  BY <1>1
<1>6. \A i \in 1..n : m + i \in 1..(m + n)
  BY <1>1
<1>7. ToSet(r) = ToSet(s) \union ToSet(t)
  <2>1. ASSUME NEW i \in 1..(m + n)
        PROVE  r[i] \in ToSet(s) \union ToSet(t)
    <3>1. CASE i \in 1..m
      BY <1>1, <1>2, <3>1 DEF ToSet
    <3>2. CASE i - m \in 1..n /\ m + (i - m) = i
      <4>1. r[i] = t[i - m]
        BY <1>3, <3>2
      <4> QED BY <1>1, <3>2, <4>1 DEF ToSet
    <3> QED BY <1>4, <3>1, <3>2
  <2>2. ASSUME NEW i \in 1..m
        PROVE  s[i] \in ToSet(r)
    BY <1>1, <1>2, <1>5 DEF ToSet
  <2>3. ASSUME NEW i \in 1..n
        PROVE  t[i] \in ToSet(r)
    BY <1>1, <1>3, <1>6 DEF ToSet
  <2>4. ToSet(r) = {r[i] : i \in 1..(m + n)} /\ ToSet(s) = {s[i] : i \in 1..m}
        /\ ToSet(t) = {t[i] : i \in 1..n}
    BY <1>1 DEF ToSet
  <2> QED BY <2>1, <2>2, <2>3, <2>4
<1> QED BY <1>1, <1>7 DEF r

\* TxsOf has the transactions of all the blocks.
Collected(c, i, txs) ==
    /\ txs \in Seq(Tx)
    /\ \A t : t \in ToSet(txs) <=> \E j \in 1..i : t \in ToSet(Block[c[j]].txs)

Collecting == INSTANCE Loops WITH Step <- LAMBDA c, txs, b : WithTxs(txs, b), Inv <- Collected

LEMMA TxsOfFacts ==
    ASSUME NEW c \in Seq(DOMAIN Block)
    PROVE  /\ TxsOf(c) \in Seq(Tx)
           /\ \A t : t \in ToSet(TxsOf(c)) <=> \E b \in ToSet(c) : t \in ToSet(Block[b].txs)
<1> DEFINE r == Collecting!Fold(c, <<>>, c)
<1>1. TxsOf(c) = r
  BY Zenon DEF TxsOf, FoldLeft, MapThenFoldSet, Max, Collecting!Fold, Collecting!Highest
<1>2. Collected(c, 0, <<>>)
  <2>1. <<>> \in Seq(Tx) /\ ToSet(<<>>) = {} /\ 1..0 = {}
    BY DEF ToSet
  <2> QED BY <2>1 DEF Collected
<1>3. ASSUME NEW i \in 1..Len(c), NEW x, Collected(c, i - 1, x)
      PROVE  Collected(c, i, WithTxs(x, c[i]))
  <2> DEFINE y == Block[c[i]].txs
  <2>1. c[i] \in DOMAIN Block
    OBVIOUS
  <2>2. x \in Seq(Tx) /\ y \in Seq(Tx)
    BY <1>3, <2>1, BlockAssumption DEF Collected
  <2>3. x \o y \in Seq(Tx) /\ ToSet(x \o y) = ToSet(x) \union ToSet(y)
    BY <2>2, ConcatToSet
  <2>4. \A j : j \in 1..i <=> j \in 1..(i - 1) \/ j = i
    OBVIOUS
  <2>5. \A t : t \in ToSet(x) <=> \E j \in 1..(i - 1) : t \in ToSet(Block[c[j]].txs)
    BY <1>3 DEF Collected
  <2> DEFINE z == x \o y
  <2>6. WithTxs(x, c[i]) = z
    BY DEF WithTxs
  <2>7. z \in Seq(Tx) /\ \A t : t \in ToSet(z) <=> t \in ToSet(x) \/ t \in ToSet(Block[c[i]].txs)
    BY <2>3
  <2> HIDE DEF y, z
  <2>8. \A t : t \in ToSet(z) <=> \E j \in 1..i : t \in ToSet(Block[c[j]].txs)
    BY <2>4, <2>5, <2>7
  <2> QED BY <2>6, <2>7, <2>8 DEF Collected
<1>4. \A i \in 1..Len(c) : \A x : Collected(c, i - 1, x) => Collected(c, i, WithTxs(x, c[i]))
  BY <1>3
<1>5. Collected(c, Len(c), r)
  BY <1>2, <1>4, Collecting!LoopRule
<1> HIDE DEF r
<1>6. \A b : b \in ToSet(c) <=> \E j \in 1..Len(c) : b = c[j]
  BY DEF ToSet
<1> QED BY <1>1, <1>5, <1>6 DEF Collected

\* TxDifference keeps what is not to be removed.
Filtered(c, i, keep) ==
    /\ keep \in Seq(Tx)
    /\ \A t : t \in ToSet(keep) <=> t \notin c.remove /\ \E j \in 1..i : t = c.txs[j]

Keeping == INSTANCE Loops WITH Step <- LAMBDA c, keep, t : KeepUnless(c.remove, keep, t), Inv <- Filtered

LEMMA KeepUnlessFacts ==
    ASSUME NEW c, c.txs \in Seq(Tx), NEW i \in 1..Len(c.txs), NEW x, Filtered(c, i - 1, x)
    PROVE  Filtered(c, i, KeepUnless(c.remove, x, c.txs[i]))
<1> DEFINE u == c.txs[i]
           R == c.remove
           y == Append(x, u)
           z == KeepUnless(R, x, u)
<1>1. u \in Tx /\ x \in Seq(Tx)
  BY DEF Filtered
<1>2. y \in Seq(Tx) /\ ToSet(y) = ToSet(x) \union {u}
  BY <1>1, AppendFacts
<1>3. z = IF u \in R THEN x ELSE y
  BY DEF KeepUnless
<1>4. \A j : j \in 1..i <=> j \in 1..(i - 1) \/ j = i
  OBVIOUS
<1>5. \A t : t \in ToSet(x) <=> t \notin R /\ \E j \in 1..(i - 1) : t = c.txs[j]
  BY DEF Filtered
<1>6. \A t : (\E j \in 1..i : t = c.txs[j]) <=> (\E j \in 1..(i - 1) : t = c.txs[j]) \/ t = u
  BY <1>4
<1> HIDE DEF u, R, y, z
<1>7. z \in Seq(Tx)
  BY <1>1, <1>2, <1>3
<1>8. \A t : t \in ToSet(z) <=> t \in ToSet(x) \/ (t = u /\ u \notin R)
  BY <1>2, <1>3
<1>9. \A t : t \in ToSet(z) <=> t \notin R /\ \E j \in 1..i : t = c.txs[j]
  BY <1>5, <1>6, <1>8
<1>10. Filtered(c, i, z)
  BY <1>7, <1>9 DEF Filtered, R
<1> QED BY <1>10 DEF z, R, u

LEMMA TxDifferenceFacts ==
    ASSUME NEW a \in Seq(Tx), NEW b
    PROVE  TxDifference(a, b) \in Seq(Tx) /\ ToSet(TxDifference(a, b)) = ToSet(a) \ ToSet(b)
<1> DEFINE c == [txs |-> a, remove |-> ToSet(b)]
           r == Keeping!Fold(c, <<>>, a)
<1>1. c.txs = a /\ c.remove = ToSet(b)
  OBVIOUS
<1> HIDE DEF c
<1>2. TxDifference(a, b) = r
  <2> DEFINE D(R) == FoldLeft(LAMBDA keep, t : KeepUnless(R, keep, t), <<>>, a)
  <2>1. D(c.remove) = r
    BY Zenon DEF FoldLeft, MapThenFoldSet, Max, Keeping!Fold, Keeping!Highest
  <2>2. TxDifference(a, b) = D(ToSet(b))
    BY DEF TxDifference
  <2> HIDE DEF D
  <2> QED BY <1>1, <2>1, <2>2
<1>3. Filtered(c, 0, <<>>)
  <2>1. <<>> \in Seq(Tx) /\ ToSet(<<>>) = {} /\ 1..0 = {}
    BY DEF ToSet
  <2> QED BY <2>1 DEF Filtered
<1>4. ASSUME NEW i \in 1..Len(a), NEW x, Filtered(c, i - 1, x)
      PROVE  Filtered(c, i, KeepUnless(c.remove, x, a[i]))
  BY <1>1, <1>4, KeepUnlessFacts
<1>5. \A i \in 1..Len(a) : \A x : Filtered(c, i - 1, x) => Filtered(c, i, KeepUnless(c.remove, x, a[i]))
  BY <1>4
<1>6. Filtered(c, Len(a), r)
  BY <1>3, <1>5, Keeping!LoopRule
<1> HIDE DEF r
<1>7. \A t : t \in ToSet(a) <=> \E j \in 1..Len(a) : t = a[j]
  BY DEF ToSet
<1>8. r \in Seq(Tx) /\ \A t : t \in ToSet(r) <=> t \in ToSet(a) /\ t \notin ToSet(b)
  BY <1>1, <1>6, <1>7 DEF Filtered
<1> QED BY <1>2, <1>8

LEMMA ReinjectFacts ==
    ASSUME NEW b \in DOMAIN Block, NEW c \in DOMAIN Block
    PROVE  Reinject(b, c) \in Seq(Tx)
<1> DEFINE r == TxDifference(TxsOf(Fork(b, c)), TxsOf(Fork(c, b)))
<1>1. r \in Seq(Tx)
  <2>1. Fork(b, c) \in Seq(DOMAIN Block)
    BY ForkFacts
  <2>2. TxsOf(Fork(b, c)) \in Seq(Tx)
    BY <2>1, TxsOfFacts
  <2> QED BY <2>2, TxDifferenceFacts
<1>2. Reinject(b, c) = r \/ Reinject(b, c) = <<>>
  BY DEF Reinject
<1> HIDE DEF r
<1>3. <<>> \in Seq(Tx)
  OBVIOUS
<1> QED BY <1>1, <1>2, <1>3, Zenon

\* The transactions of the blocks of b that are not in the branch of c.
LEMMA ForkTxs ==
    ASSUME NEW b \in DOMAIN Block, NEW c \in DOMAIN Block
    PROVE  /\ TxsOf(Fork(b, c)) \in Seq(Tx)
           /\ \A t : t \in ToSet(TxsOf(Fork(b, c))) <=>
                  \E n \in Apart(BranchDown(b), BranchDown(c)) : t \in ToSet(Block[BranchDown(b)[n]].txs)
<1> DEFINE s == Fork(b, c)
           f == BranchDown(b)
           T == Apart(f, BranchDown(c))
<1>1. s \in Seq(DOMAIN Block) /\ \A x : x \in ToSet(s) <=> \E n \in T : x = f[n]
  BY ForkFacts
<1> HIDE DEF s, f, T
<1>2. /\ TxsOf(s) \in Seq(Tx)
      /\ \A t : t \in ToSet(TxsOf(s)) <=> \E x \in ToSet(s) : t \in ToSet(Block[x].txs)
  BY <1>1, TxsOfFacts
<1>3. \A t : (\E x \in ToSet(s) : t \in ToSet(Block[x].txs)) <=> \E n \in T : t \in ToSet(Block[f[n]].txs)
  BY <1>1
<1> QED BY <1>2, <1>3 DEF s, f, T

\* The transactions of the chain that ends in b.
LEMMA ChainTxs ==
    ASSUME NEW b \in DOMAIN Block, NEW t
    PROVE  t \in ToSet(TxsOf(Fork(b, Genesis))) <=>
               \E n \in 1..Block[b].number : t \in ToSet(Block[BranchDown(b)[n]].txs)
<1> DEFINE f == BranchDown(b)
           g == BranchDown(Genesis)
           N == Block[b].number
<1>1. Genesis \in DOMAIN Block /\ Block[Genesis].number = 0
  BY BlockAssumption
<1>2. IsBranch(f, b) /\ IsBranch(g, Genesis)
  BY <1>1, BranchDownFacts
<1>3. t \in ToSet(TxsOf(Fork(b, Genesis))) <=> \E n \in Apart(f, g) : t \in ToSet(Block[f[n]].txs)
  BY <1>1, ForkTxs
<1> HIDE DEF f, g
<1>4. f[0] = Genesis /\ g[0] = Genesis
  BY <1>2, BranchFacts
<1>5. N \in Nat /\ DOMAIN f = 0..N /\ DOMAIN g = 0..0
  BY <1>1, <1>2 DEF IsBranch
<1>6. Apart(f, g) = 1..N
  <2>1. \A n : n \in 1..N <=> n \in 0..N /\ n # 0
    BY <1>5
  <2>2. \A n : n \in 0..0 <=> n = 0
    OBVIOUS
  <2>3. \A n : n \in Apart(f, g) <=> n \in 0..N /\ n # 0
    BY <1>4, <1>5, <2>2 DEF Apart
  <2> QED BY <2>1, <2>3
<1> QED BY <1>3, <1>6 DEF f

\* A transaction of the chain that ends in b has a nonce that is used up.
LEMMA ChainNonces ==
    ASSUME NEW b \in DOMAIN Block, NEW t \in ToSet(TxsOf(Fork(b, Genesis)))
    PROVE  t \in Tx /\ t.nonce < Block[b].nonce[t.from]
<1> DEFINE f == BranchDown(b)
           N == Block[b].number
<1>1. IsBranch(f, b)
  BY BranchDownFacts
<1>2. PICK n \in 1..N : t \in ToSet(Block[f[n]].txs)
  BY ChainTxs
<1> HIDE DEF f
<1>3. N \in Nat /\ n \in 0..N
  BY <1>1 DEF IsBranch
<1>4. f[n] \in DOMAIN Block /\ f[n] # Genesis
  BY <1>1, <1>3, BranchFacts DEF IsBranch
<1>5. t \in Tx /\ t.nonce < Block[f[n]].nonce[t.from]
  BY <1>2, <1>4, BlockNonces
<1>6. t.from \in Addr /\ t.nonce \in Nat
  BY <1>5, TxFacts
<1>7. Block[f[n]].nonce[t.from] <= Block[b].nonce[t.from]
  BY <1>1, <1>3, <1>6, BranchFacts
<1>8. Block[f[n]].nonce[t.from] \in Nat /\ Block[b].nonce[t.from] \in Nat
  BY <1>4, <1>6, BlockAssumption
<1> QED BY <1>5, <1>6, <1>7, <1>8

\* A block has the chain of its parent below it.
LEMMA ChildBranch ==
    ASSUME NEW b \in DOMAIN Block, b # Genesis, NEW n \in 0..Block[Block[b].parent].number
    PROVE  BranchDown(b)[n] = BranchDown(Block[b].parent)[n]
<1> DEFINE h == Block[b].parent
           f == BranchDown(b)
           g == BranchDown(h)
           N == Block[h].number
           P == {k \in 0..N : f[k] = g[k]}
<1>1. h \in DOMAIN Block /\ N \in Nat /\ Block[b].number = N + 1
  BY ParentFacts
<1>2. IsBranch(f, b) /\ IsBranch(g, h)
  BY <1>1, BranchDownFacts
<1> HIDE DEF f, g
<1>3. \A k \in 0..N : k \in 0..(N + 1) /\ k # N + 1
  BY <1>1
<1>4. f[N + 1] = b /\ g[N] = h /\ \A k \in 0..N : f[k] = Block[f[k + 1]].parent
  BY <1>1, <1>2, <1>3 DEF IsBranch
<1>5. \A k \in 0..N : k # N => g[k] = Block[g[k + 1]].parent
  BY <1>2 DEF IsBranch
<1>6. \A k \in 0..N : k \in P
  <2>1. N \in 0..N
    BY <1>1
  <2>2. N \in P
    BY <1>4, <2>1
  <2>3. ASSUME NEW k \in 0..N, k # N, k + 1 \in P
        PROVE  k \in P
    BY <1>4, <1>5, <2>3
  <2> HIDE DEF P, N
  <2> QED BY <1>1, <2>2, <2>3, NatStepsDown
<1> QED BY <1>6 DEF f, g

\* Unless it is too deep, a reorganisation returns every transaction of the
\* old chain that is not in the new one.
LEMMA ReinjectAll ==
    ASSUME NEW h \in DOMAIN Block, NEW b \in DOMAIN Block, b # Genesis,
           Block[h].number - Block[b].number <= MaxReorgDepth,
           Block[b].number - Block[h].number <= MaxReorgDepth,
           NEW t \in ToSet(TxsOf(Fork(h, Genesis))), t \notin ToSet(TxsOf(Fork(b, Genesis)))
    PROVE  t \in ToSet(Reinject(h, b))
<1> DEFINE f == BranchDown(h)
           g == BranchDown(b)
           N == Block[h].number
           M == Block[b].number
<1>1. IsBranch(f, h) /\ IsBranch(g, b)
  BY BranchDownFacts
<1>2. PICK n \in 1..N : t \in ToSet(Block[f[n]].txs)
  BY ChainTxs
<1>3. \A m \in 1..M : t \notin ToSet(Block[g[m]].txs)
  BY ChainTxs
<1>4. N \in Nat /\ M \in Nat /\ DOMAIN f = 0..N /\ DOMAIN g = 0..M
  BY <1>1 DEF IsBranch
<1>5. f[0] = Genesis /\ g[0] = Genesis
  BY <1>1, BranchFacts
<1>6. n \in 0..N /\ (n \in 0..M => n \in 1..M)
  BY <1>4
<1>7. h # Block[b].parent
  <2>1. SUFFICES ASSUME h = Block[b].parent PROVE FALSE
    OBVIOUS
  <2>2. M = N + 1
    BY <2>1, ParentFacts
  <2>3. g[n] = f[n] /\ n \in 1..M
    BY <1>4, <1>6, <2>1, <2>2, ChildBranch
  <2> QED BY <1>2, <1>3, <2>3
<1> DEFINE x == TxsOf(Fork(h, b))
           y == TxsOf(Fork(b, h))
<1>8. Reinject(h, b) = TxDifference(x, y)
  <2>1. ~(N - M > MaxReorgDepth) /\ ~(-(N - M) > MaxReorgDepth)
    BY <1>4, ConfigAssumption
  <2> QED BY <1>7, <2>1 DEF Reinject
<1>9. /\ x \in Seq(Tx)
      /\ t \in ToSet(x) <=> \E m \in Apart(f, g) : t \in ToSet(Block[f[m]].txs)
      /\ t \in ToSet(y) <=> \E m \in Apart(g, f) : t \in ToSet(Block[g[m]].txs)
  BY ForkTxs
<1> HIDE DEF x, y, f, g
<1>10. t \in ToSet(x)
  <2>1. n \in Apart(f, g)
    BY <1>2, <1>3, <1>4, <1>6 DEF Apart
  <2> QED BY <1>2, <1>9, <2>1
<1>11. t \notin ToSet(y)
  <2>1. ASSUME NEW m \in Apart(g, f)
        PROVE  m \in 1..M
    <3>1. 0 \in 0..N /\ m \in 0..M
      BY <1>4 DEF Apart
    <3>2. m # 0
      BY <1>4, <1>5, <3>1 DEF Apart
    <3> QED BY <1>4, <3>1, <3>2
  <2> QED BY <1>3, <1>9, <2>1
<1>12. ToSet(TxDifference(x, y)) = ToSet(x) \ ToSet(y)
  BY <1>9, TxDifferenceFacts
<1> QED BY <1>8, <1>10, <1>11, <1>12

-----------------------------------------------------------------------------
(* The journal, a new pool, the price limit and the eviction *)

\* The pending transactions of an account, one after the other.
LEMMA PendingSeq ==
    ASSUME NEW p, Sound(p), NEW a
    PROVE  /\ ByNonce(Of(p.pending, a)) \in Seq(Tx)
           /\ ToSet(ByNonce(Of(p.pending, a))) = Of(p.pending, a)
<1> DEFINE list == Of(p.pending, a)
<1>1. list \in SUBSET Tx
  BY PoolFields DEF Of, Sound, Agree
<1>2. \A t, u \in list : t.nonce = u.nonce => t = u
  BY DEF Of, Sound, Agree, Unique
<1> HIDE DEF list
<1>3. (\A t \in list : t.nonce \in Nat) /\ IsFiniteSet(list)
  BY <1>1, TxFacts
<1>4. ByNonce(list) \in Seq(list) /\ ToSet(ByNonce(list)) = list
  BY <1>2, <1>3, ByNonceFacts
<1>5. ByNonce(list) \in Seq(Tx)
  BY <1>1, <1>4
<1> QED BY <1>4, <1>5 DEF list

WriteInv(c, i, txs) ==
    /\ txs \in Seq(Tx)
    /\ \A j \in 1..i : Accounts[j] \in c.locals => Of(c.all, Accounts[j]) \subseteq ToSet(txs)

Writing == INSTANCE Loops WITH Step <- LAMBDA c, txs, a : WriteAccount(c, txs, a), Inv <- WriteInv

LEMMA WriteAccountFacts ==
    ASSUME NEW p, Sound(p), NEW txs \in Seq(Tx), NEW a
    PROVE  LET r == WriteAccount(p, txs, a)
           IN  /\ r \in Seq(Tx) /\ ToSet(txs) \subseteq ToSet(r)
               /\ a \in p.locals => Of(p.all, a) \subseteq ToSet(r)
<1> DEFINE x == ByNonce(Of(p.pending, a))
           y == ByNonce(Of(p.queue, a))
           u == txs \o x
           r == u \o y
<1>1. CASE a \notin p.locals
  BY <1>1 DEF WriteAccount
<1>2. CASE a \in p.locals
  <2>1. WriteAccount(p, txs, a) = r
    BY <1>2 DEF WriteAccount
  <2>2. x \in Seq(Tx) /\ ToSet(x) = Of(p.pending, a) /\ y \in Seq(Tx) /\ ToSet(y) = Of(p.queue, a)
    <3>1. y \in Seq(Of(p.queue, a)) /\ ToSet(y) = Of(p.queue, a)
      BY QueuedFacts
    <3>2. Of(p.queue, a) \subseteq Tx
      BY PoolFields DEF Of, Sound, Agree
    <3> HIDE DEF x, y
    <3>3. y \in Seq(Tx)
      BY <3>1, <3>2
    <3>4. x \in Seq(Tx) /\ ToSet(x) = Of(p.pending, a)
      BY PendingSeq DEF x
    <3> QED BY <3>1, <3>3, <3>4
  <2> HIDE DEF x, y
  <2>3. u \in Seq(Tx) /\ ToSet(u) = ToSet(txs) \union ToSet(x)
    BY <2>2, ConcatToSet
  <2> HIDE DEF u
  <2>4. r \in Seq(Tx) /\ ToSet(r) = ToSet(u) \union ToSet(y)
    BY <2>2, <2>3, ConcatToSet
  <2> HIDE DEF r
  <2>5. Of(p.all, a) = Of(p.pending, a) \union Of(p.queue, a)
    BY DEF Of, Sound, Agree
  <2> QED BY <2>1, <2>2, <2>3, <2>4, <2>5
<1> QED BY <1>1, <1>2

\* All transactions of local accounts are written.
LEMMA LocalFacts ==
    ASSUME NEW p, Sound(p)
    PROVE  /\ local(p) \in Seq(Tx)
           /\ \A t \in p.all : t.from \in p.locals => t \in ToSet(local(p))
<1> DEFINE r == Writing!Fold(p, <<>>, Accounts)
<1>0. Accounts \in Seq(Addr) /\ DOMAIN Accounts = 1..Len(Accounts)
  BY TxAssumption
<1>1. local(p) = r
  BY Zenon DEF local, FoldLeft, MapThenFoldSet, Max, Writing!Fold, Writing!Highest
<1>2. WriteInv(p, 0, <<>>)
  BY DEF WriteInv
<1>3. ASSUME NEW i \in 1..Len(Accounts), NEW x, WriteInv(p, i - 1, x)
      PROVE  WriteInv(p, i, WriteAccount(p, x, Accounts[i]))
  <2> DEFINE y == WriteAccount(p, x, Accounts[i])
  <2>1. x \in Seq(Tx) /\ \A j \in 1..(i - 1) : Accounts[j] \in p.locals =>
                                                   Of(p.all, Accounts[j]) \subseteq ToSet(x)
    BY <1>3 DEF WriteInv
  <2>2. y \in Seq(Tx) /\ ToSet(x) \subseteq ToSet(y)
        /\ (Accounts[i] \in p.locals => Of(p.all, Accounts[i]) \subseteq ToSet(y))
    BY <2>1, WriteAccountFacts
  <2> HIDE DEF y
  <2>3. \A j \in 1..i : j = i \/ j \in 1..(i - 1)
    BY <1>0
  <2>4. \A j \in 1..i : Accounts[j] \in p.locals => Of(p.all, Accounts[j]) \subseteq ToSet(y)
    BY <2>1, <2>2, <2>3
  <2>5. WriteInv(p, i, y)
    BY <2>2, <2>4 DEF WriteInv
  <2> QED BY <2>5 DEF y
<1>4. \A i \in 1..Len(Accounts) : \A x : WriteInv(p, i - 1, x) => WriteInv(p, i, WriteAccount(p, x, Accounts[i]))
  BY <1>3
<1>5. WriteInv(p, Len(Accounts), r)
  BY <1>0, <1>2, <1>4, Writing!LoopRule
<1> HIDE DEF r
<1>6. ASSUME NEW t \in p.all, t.from \in p.locals
      PROVE  t \in ToSet(r)
  <2>1. t \in Tx
    BY PoolFields DEF Sound, Agree
  <2>2. PICK j \in 1..Len(Accounts) : Accounts[j] = t.from
    BY <1>0, <2>1, TxFacts DEF Addr, ToSet
  <2>3. t \in Of(p.all, Accounts[j])
    BY <2>2 DEF Of
  <2> QED BY <1>5, <1>6, <2>2, <2>3 DEF WriteInv
<1> QED BY <1>1, <1>5, <1>6 DEF WriteInv

\* Every transaction of a local account is journaled.
AllJournaled(p) == \A x \in p.all : x.from \in p.locals => x \in ToSet(p.journal)

\* What holds of the pool between two operations.
Good(p) ==
    /\ Sound(p) /\ Roomy(p) /\ Quota(p)
    /\ \A a \in Addr : Free(p, a) /\ AllValid(p, a)

\* What an operation, other than a new start, does for the local transactions
\* and for what can be executed.
Serves(p, q) == Stays(p, q) /\ Executes(p, q)

LEMMA GoodShed ==
    ASSUME NEW p, Good(p), NEW q, Sound(q), Shed(p, q)
    PROVE  /\ Good(q) /\ q.currentState = p.currentState /\ Journaled(p, q)
           /\ ToSet(p.journal) \subseteq ToSet(q.journal) /\ Serves(p, q)
<1>1. Sound(p) /\ Roomy(p) /\ Quota(p) /\ \A a \in Addr : Free(p, a) /\ AllValid(p, a)
  BY DEF Good
<1>2. Kept(p, q) /\ Left(p, q)
  BY ShedFacts
<1>3. Shrunk(p, q)
  BY <1>2, ShrunkFacts
<1>4. Quota(q)
  BY <1>1, <1>2, QuotaLeft
<1>5. Later(p, q, FALSE) /\ Journaled(p, q)
  BY <1>1, <1>3, LaterFacts
<1>6. \A a \in Addr : Free(q, a) /\ AllValid(q, a)
  BY <1>1, <1>2, AllValidFacts DEF Kept
<1>7. Serves(p, q)
  BY <1>2, <1>5 DEF Kept, Later, Serves
<1>8. Roomy(q) /\ q.currentState = p.currentState /\ ToSet(p.journal) \subseteq ToSet(q.journal)
  BY <1>1, <1>5 DEF Later
<1> QED BY <1>4, <1>5, <1>6, <1>7, <1>8 DEF Good

LEMMA GoodAdd ==
    ASSUME NEW p, Good(p), NEW txs \in Seq(Tx), NEW l \in BOOLEAN
    PROVE  LET r == addTxsLocked(p, txs, l)
           IN  /\ Good(r) /\ r.currentState = p.currentState
               /\ ~l \/ Len(txs) =< 1 => Journaled(p, r)
               /\ ToSet(p.journal) \subseteq ToSet(r.journal)
               /\ Serves(p, r)
<1> DEFINE r == addTxsLocked(p, txs, l)
<1>1. Sound(p) /\ Roomy(p) /\ Quota(p) /\ \A a \in Addr : Free(p, a) /\ AllValid(p, a)
  BY DEF Good
<1>2. /\ Later(p, r, l)
      /\ ~l \/ Len(txs) =< 1 => Journaled(p, r)
      /\ (\A a \in Addr : Free(p, a)) => \A a \in Addr : Free(r, a)
      /\ Quota(p) => Quota(r)
      /\ Executes(p, r)
  BY <1>1, AddTxsFacts
<1> HIDE DEF r
<1>3. Sound(r) /\ Roomy(r) /\ r.currentState = p.currentState /\ Stays(p, r) /\ NewValid(p, r)
      /\ ToSet(p.journal) \subseteq ToSet(r.journal)
  BY <1>1, <1>2 DEF Later
<1>4. \A a \in Addr : Free(r, a)
  BY <1>1, <1>2
<1>5. \A a \in Addr : AllValid(r, a)
  <2>1. \A t : ValidIn(r, t) <=> ValidIn(p, t)
    BY <1>3, SameValid
  <2> QED BY <1>1, <1>3, <2>1 DEF NewValid, AllValid
<1>6. Good(r)
  BY <1>1, <1>2, <1>3, <1>4, <1>5 DEF Good
<1>7. Serves(p, r)
  BY <1>2, <1>3 DEF Serves
<1> QED BY <1>2, <1>3, <1>6, <1>7 DEF r

\* What holds of a pool does not depend on its price limit and its journal.
LEMMA GoodSame ==
    ASSUME NEW p, Good(p), NEW q \in Pools, q.all = p.all, SameLists(p, q), SameHeap(p, q),
           q.pendingState = p.pendingState, q.currentState = p.currentState, q.locals = p.locals
    PROVE  Good(q) /\ Serves(p, q)
<1>1. Sound(p)
  BY DEF Good
<1>2. Sound(q)
  BY <1>1 DEF Sound, Agree, Priced, PricedFor, SameHeap, SameLists
<1>3. Roomy(q)
  BY DEF Good, Roomy
<1>4. Quota(q)
  BY DEF Good, Quota, PendingOf, SameLists
<1>5. \A a \in Addr : Free(q, a)
  BY DEF Good, Free, SameLists
<1>6. \A a \in Addr : AllValid(q, a)
  <2>1. \A t : ValidIn(q, t) <=> ValidIn(p, t)
    BY SameValid
  <2> QED BY <2>1 DEF Good, AllValid
<1>7. Stays(p, q)
  <2>1. Spares(p, q)
    BY SparesFacts
  <2> QED BY <2>1, StaysIfSpared
<1>8. Executes(p, q)
  BY SameExec DEF SameLists
<1> QED BY <1>2, <1>3, <1>4, <1>5, <1>6, <1>7, <1>8 DEF Good, Serves

LEMMA RotateFacts ==
    ASSUME NEW p, Good(p)
    PROVE  LET r == rotate(p)
           IN  /\ Good(r) /\ r.currentState = p.currentState /\ AllJournaled(r)
               /\ Serves(p, r) /\ r.all = p.all
<1> DEFINE j == local(p)
           r == SetBook(p, p.locals, j)
<1>1. Sound(p) /\ p \in Pools /\ p.locals \in SUBSET Addr
  BY PoolFields DEF Good, Sound, Agree
<1>2. j \in Seq(Tx) /\ \A t \in p.all : t.from \in p.locals => t \in ToSet(j)
  BY <1>1, LocalFacts
<1>3. rotate(p) = r
  BY <1>1 DEF rotate, SetBook, Pools
<1> HIDE DEF j
<1>4. /\ r \in Pools /\ r.all = p.all /\ r.locals = p.locals /\ r.journal = j
      /\ SameHeap(p, r) /\ SameLists(p, r) /\ r.pendingState = p.pendingState
      /\ r.currentState = p.currentState
  BY <1>1, <1>2, SetBookFacts
<1> HIDE DEF r
<1>5. Good(r) /\ Serves(p, r)
  BY <1>4, GoodSame
<1>6. AllJournaled(r)
  BY <1>2, <1>4 DEF AllJournaled
<1> QED BY <1>3, <1>4, <1>5, <1>6

\* A new pool holds what the journal has for it.
LEMMA NewTxPoolFacts ==
    ASSUME NEW j \in Seq(Tx), NEW b \in DOMAIN Block
    PROVE  LET r == NewTxPool(j, b)
           IN  /\ Good(r) /\ r.currentState = b /\ AllJournaled(r)
               /\ \A a \in Addr : Exec(r, a)
               /\ \A t \in ToSet(j) : ValidIn(r, t) => Holds(r, t)
<1> DEFINE e == [pending |-> {}, queue |-> {}, all |-> {}, items |-> <<>>,
                 stales |-> 0, pendingState |-> Block[b].nonce,
                 currentState |-> b, gasPrice |-> PriceLimit,
                 locals |-> {}, beats |-> <<>>, journal |-> j]
           n == <<>>
           x == reset(e, b, n)
           y == addTxsLocked(x, j, TRUE)
           r == rotate(y)
<1>1. NewTxPool(j, b) = r
  BY DEF NewTxPool
<1>2. Cardinality({}) = 0
  BY FS_EmptySet
<1>3. e \in Pools
  <2>1. Block[b].nonce \in [Addr -> Nat] /\ PriceLimit \in Nat
    BY BlockAssumption, ConfigAssumption
  <2>2. <<>> \in Seq(Tx) /\ <<>> \in Seq(Addr)
    OBVIOUS
  <2> QED BY <2>1, <2>2 DEF Pools
<1>4. Sound(e)
  <2>1. e.all = {} /\ e.items = <<>> /\ e.stales = 0 /\ Len(e.items) = 0
        /\ e.pending = {} /\ e.queue = {}
    OBVIOUS
  <2>2. Priced(e)
    BY <1>2, <2>1 DEF Priced, PricedFor
  <2> HIDE DEF e
  <2>3. Agree(e)
    BY <1>3, <2>1 DEF Agree, Unique
  <2> QED BY <2>2, <2>3 DEF Sound
<1>5. Roomy(e)
  BY <1>2, ConfigAssumption DEF Roomy
<1>6. n \in Seq(Tx) /\ n = <<>>
  OBVIOUS
<1>7. e.all = {} /\ e.pending = {} /\ e.pendingState = Block[b].nonce /\ e.currentState = b
  OBVIOUS
<1> HIDE DEF e, n
<1>8. ASSUME NEW a \in Addr
      PROVE  Exec(e, a)
  <2>1. e.pendingState[a] = StateNonce(e, a) /\ StateNonce(e, a) \in Nat
    BY <1>3, <1>7, StateNonceType DEF StateNonce
  <2> QED BY <1>7, <2>1 DEF Exec
<1>9. /\ Sound(x) /\ x.currentState = b /\ Roomy(x) /\ Quota(x)
      /\ (\A a \in Addr : Free(x, a)) /\ (\A a \in Addr : AllValid(x, a))
      /\ Executes(e, x) /\ x.all \subseteq e.all
  <2>1. /\ Sound(x) /\ x.currentState = b /\ (Roomy(e) => Roomy(x)) /\ Quota(x)
        /\ (\A a \in Addr : Free(x, a)) /\ (\A a \in Addr : AllValid(x, a))
        /\ n = <<>> => Executes(e, x) /\ x.all \subseteq e.all
    BY <1>4, <1>6, ResetFacts
  <2> HIDE DEF x
  <2>2. Roomy(x)
    BY <1>5, <2>1, Zenon
  <2>3. Executes(e, x) /\ x.all \subseteq e.all
    BY <1>6, <2>1, Zenon
  <2> QED BY <2>1, <2>2, <2>3, Zenon
<1> HIDE DEF x
<1>10. x.all = {} /\ Good(x) /\ \A a \in Addr : Exec(x, a)
  BY <1>7, <1>8, <1>9 DEF Good, Executes
<1>11. Good(y) /\ y.currentState = x.currentState /\ Serves(x, y)
  BY <1>10, GoodAdd
<1>12. \A i \in 1..Len(j) : Offered(x, TRUE, j[i]) => Holds(y, j[i])
  BY <1>9, AddTxsFacts
<1> HIDE DEF y
<1>13. /\ Good(r) /\ r.currentState = y.currentState /\ AllJournaled(r)
       /\ Serves(y, r) /\ r.all = y.all
  BY <1>11, RotateFacts
<1> HIDE DEF r
<1>14. \A a \in Addr : Exec(r, a)
  BY <1>10, <1>11, <1>13 DEF Serves, Executes
<1>15. ASSUME NEW t \in ToSet(j), ValidIn(r, t)
       PROVE  Holds(r, t)
  <2>1. PICK i \in 1..Len(j) : j[i] = t
    BY DEF ToSet
  <2>2. ValidIn(x, t) /\ AllLocal(x) /\ Overlapping(x.all, t) = {}
    <3>1. ValidIn(x, t)
      BY <1>11, <1>13, <1>15, SameValid
    <3> QED BY <1>10, <3>1 DEF AllLocal, Overlapping
  <2>3. Offered(x, TRUE, t)
    BY <2>2 DEF Offered
  <2>4. Offered(x, TRUE, j[i]) => Holds(y, j[i])
    BY <1>12, Zenon
  <2>5. Holds(y, t)
    BY <2>1, <2>3, <2>4
  <2>6. \A u : ValidIn(r, u) <=> ValidIn(y, u)
    BY <1>13, SameValid
  <2> QED BY <1>13, <2>5, <2>6 DEF Holds
<1> QED BY <1>1, <1>9, <1>11, <1>13, <1>14, <1>15

\* A higher price limit drops the remote transactions below it.
LEMMA SetGasPriceFacts ==
    ASSUME NEW p, Good(p), NEW price \in Nat
    PROVE  LET q == [p EXCEPT !.gasPrice = price]
               r == DropFound(q, CapPrice(q))
           IN  /\ Good(r) /\ r.currentState = p.currentState /\ Journaled(p, r)
               /\ ToSet(p.journal) \subseteq ToSet(r.journal) /\ Serves(p, r)
<1> DEFINE q == [p EXCEPT !.gasPrice = price]
           r == DropFound(q, CapPrice(q))
<1>1. Sound(p) /\ p \in Pools
  BY DEF Good, Sound, Agree
<1>2. /\ q \in Pools /\ q.all = p.all /\ SameLists(p, q) /\ SameHeap(p, q)
      /\ q.pendingState = p.pendingState /\ q.currentState = p.currentState
      /\ q.locals = p.locals /\ q.journal = p.journal
  BY <1>1 DEF Pools, SameLists, SameHeap
<1> HIDE DEF q
<1>3. Good(q) /\ Serves(p, q) /\ Sound(q)
  BY <1>2, GoodSame DEF Good
<1> DEFINE found == CapPrice(q)
<1>4. Found(q, found)
  BY <1>2, <1>3, CapPriceFacts DEF Sound
<1> HIDE DEF found
<1>5. Sound(r) /\ r.all = q.all \ ToSet(found.drop) /\ Left(q, r)
  BY <1>3, <1>4, DropFoundFacts DEF found
<1> HIDE DEF r
<1>6. Shed(q, r)
  <2>1. \A t \in ToSet(found.drop) : t.from \notin q.locals
    BY <1>4 DEF Found, Remote
  <2>2. Spares(q, r)
    BY <1>5, <2>1, SparesAllBut
  <2> QED BY <1>5, <2>2 DEF Shed
<1>7. /\ Good(r) /\ r.currentState = q.currentState /\ Journaled(q, r)
      /\ ToSet(q.journal) \subseteq ToSet(r.journal) /\ Serves(q, r)
  BY <1>3, <1>5, <1>6, GoodShed
<1>8. Journaled(p, r)
  BY <1>2, <1>7 DEF Journaled
<1>9. Stays(p, r)
  BY <1>2, <1>7 DEF Serves, Stays
<1>10. Executes(p, r)
  BY <1>3, <1>7, ExecFacts DEF Serves
<1> QED BY <1>2, <1>7, <1>8, <1>9, <1>10 DEF r, q, Serves

EvictInv(c, i, q) == Sound(q) /\ Shed(c.pool, q)

Evicting == INSTANCE Loops WITH Step <- LAMBDA c, q, a : EvictIn(c.accounts, q, a), Inv <- EvictInv

LEMMA EvictedFacts ==
    ASSUME NEW p, Sound(p), NEW A, A \intersect p.locals = {}
    PROVE  LET r == Evicted(p, A)
           IN  Sound(r) /\ Shed(p, r)
<1> DEFINE c == [pool |-> p, accounts |-> A]
           r == Evicting!Fold(c, p, Accounts)
<1>0. Accounts \in Seq(Addr)
  BY TxAssumption
<1>1. c.pool = p /\ c.accounts = A
  OBVIOUS
<1> HIDE DEF c
<1>2. Evicted(p, A) = r
  <2>1. Evicted(c.pool, c.accounts) = Evicting!Fold(c, c.pool, Accounts)
    BY Zenon DEF Evicted, FoldLeft, MapThenFoldSet, Max, Evicting!Fold, Evicting!Highest
  <2> QED BY <1>1, <2>1
<1>3. EvictInv(c, 0, p)
  BY <1>1, ShedFacts DEF EvictInv
<1>4. ASSUME NEW i \in 1..Len(Accounts), NEW q, EvictInv(c, i - 1, q)
      PROVE  EvictInv(c, i, EvictIn(c.accounts, q, Accounts[i]))
  <2> DEFINE a == Accounts[i]
             S == Of(q.queue, a)
             s == ByNonce(S)
             x == EvictIn(A, q, a)
             y == RemoveTxs(q, s, TRUE)
  <2>1. Sound(q) /\ Shed(p, q) /\ q.locals = p.locals
    BY <1>1, <1>4, ShedFacts DEF EvictInv
  <2>2. s \in Seq(S)
    BY <2>1, QueuedFacts
  <2>3. x = q \/ (a \in A /\ x = y)
    BY DEF EvictIn
  <2>4. a \in A => \A t \in S : t.from \notin q.locals
    BY <2>1 DEF Of
  <2> HIDE DEF S, s, x, a
  <2>5. a \in A => Sound(y) /\ Shed(q, y)
    BY <2>1, <2>2, <2>4, RemoveRemotes
  <2> HIDE DEF y
  <2>6. Sound(x) /\ Shed(q, x)
    BY <2>1, <2>3, <2>5, ShedFacts
  <2>7. Shed(p, x)
    BY <2>1, <2>6, ShedFacts
  <2> QED BY <1>1, <2>6, <2>7 DEF EvictInv, x, a
<1>5. \A i \in 1..Len(Accounts) : \A x : EvictInv(c, i - 1, x) => EvictInv(c, i, EvictIn(c.accounts, x, Accounts[i]))
  BY <1>4
<1>6. EvictInv(c, Len(Accounts), r)
  BY <1>0, <1>3, <1>5, Evicting!LoopRule
<1> HIDE DEF r
<1> QED BY <1>1, <1>2, <1>6 DEF EvictInv

-----------------------------------------------------------------------------
(* The theorems *)

\* The blocks that the pool and its loop refer to have been heads of the chain.
HeadsKnown ==
    /\ {pool.currentState, head, chainHead} \subseteq known
    /\ known \subseteq DOMAIN Block
    /\ Genesis \in known /\ chainHeadCh \subseteq known \ {Genesis}
    /\ Missing = {} => pool.currentState = head

\* The inductive invariant.
PoolInv == Good(pool) /\ HeadsKnown

\* What a step does to the journal: it keeps what it has and takes up what
\* comes in from local accounts, or it is written anew.
JournalStep ==
    \/ Journaled(pool, pool') /\ ToSet(pool.journal) \subseteq ToSet(pool'.journal)
    \/ AllJournaled(pool')

\* The pool q has the transactions of the journal of p, unless they are no
\* longer valid or another one with the nonce came first.
Reloads(p, q) == \A t \in ToSet(p.journal) : ValidIn(q, t) => Holds(q, t)

\* The loop receives a head event that takes transactions off the chain.
Returns == \E b \in chainHeadCh : HeadEvent(b) /\ Reinject(head, b) # <<>>

\* What a step does to the pool.
PoolAct ==
    /\ JournalStep
    /\ Stays(pool, pool') \/ Reloads(pool, pool')
    /\ Returns \/ Executes(pool, pool')

LEMMA PoolInit == Init => PoolInv
<1> SUFFICES ASSUME Init PROVE PoolInv
  OBVIOUS
<1> DEFINE n == <<>>
           r == NewTxPool(n, Genesis)
<1>1. Genesis \in DOMAIN Block /\ n \in Seq(Tx)
  BY BlockAssumption
<1>2. pool = r /\ head = Genesis /\ chainHead = Genesis /\ known = {Genesis} /\ chainHeadCh = {}
  BY DEF Init
<1> HIDE DEF n
<1>3. Good(r) /\ r.currentState = Genesis
  BY <1>1, NewTxPoolFacts
<1> HIDE DEF r
<1>4. HeadsKnown
  BY <1>1, <1>2, <1>3 DEF HeadsKnown
<1> QED BY <1>2, <1>3, <1>4 DEF PoolInv

\* A step of the pool that follows the same block as before.
SameState ==
    /\ pool'.currentState = pool.currentState
    /\ UNCHANGED <<head, chainHead, known, chainHeadCh>>

LEMMA SameStateFacts == HeadsKnown /\ SameState => HeadsKnown'
BY DEF HeadsKnown, SameState

LEMMA AddLocalStep ==
    ASSUME PoolInv, NEW t \in Submitted, AddLocal(t)
    PROVE  PoolInv' /\ PoolAct
<1> DEFINE s == <<t>>
           r == addTxsLocked(pool, s, TRUE)
<1>1. t \in Tx
  BY TxAssumption
<1>2. s \in Seq(Tx) /\ Len(s) = 1
  BY <1>1
<1>3. pool' = r /\ UNCHANGED <<head, chainHead, known, chainHeadCh>>
  BY DEF AddLocal
<1> HIDE DEF s
<1>4. Good(pool)
  BY DEF PoolInv
<1>5. /\ Good(r) /\ r.currentState = pool.currentState
      /\ Journaled(pool, r) /\ ToSet(pool.journal) \subseteq ToSet(r.journal)
      /\ Serves(pool, r)
  <2>1. /\ Good(r) /\ r.currentState = pool.currentState
        /\ ~TRUE \/ Len(s) =< 1 => Journaled(pool, r)
        /\ ToSet(pool.journal) \subseteq ToSet(r.journal)
        /\ Serves(pool, r)
    BY <1>2, <1>4, GoodAdd
  <2> HIDE DEF r
  <2> QED BY <1>2, <2>1
<1> HIDE DEF r
<1>6. SameState /\ Good(pool') /\ PoolAct
  BY <1>3, <1>5 DEF SameState, JournalStep, PoolAct, Serves
<1> QED BY <1>6, SameStateFacts DEF PoolInv

LEMMA AddRemotesStep ==
    ASSUME PoolInv, NEW txs \in Batches, AddRemotes(txs)
    PROVE  PoolInv' /\ PoolAct
<1> DEFINE r == addTxsLocked(pool, txs, FALSE)
<1>1. txs \in Seq(Tx)
  BY TxAssumption
<1>2. pool' = r /\ UNCHANGED <<head, chainHead, known, chainHeadCh>>
  BY DEF AddRemotes
<1>3. Good(pool)
  BY DEF PoolInv
<1>4. /\ Good(r) /\ r.currentState = pool.currentState
      /\ Journaled(pool, r) /\ ToSet(pool.journal) \subseteq ToSet(r.journal)
      /\ Serves(pool, r)
  BY <1>1, <1>3, GoodAdd
<1> HIDE DEF r
<1>5. SameState /\ Good(pool') /\ PoolAct
  BY <1>2, <1>4 DEF SameState, JournalStep, PoolAct, Serves
<1> QED BY <1>5, SameStateFacts DEF PoolInv

LEMMA SetGasPriceStep ==
    ASSUME PoolInv, NEW price \in Prices, SetGasPrice(price)
    PROVE  PoolInv' /\ PoolAct
<1> DEFINE q == [pool EXCEPT !.gasPrice = price]
           r == DropFound(q, CapPrice(q))
<1>1. price \in Nat
  BY TxAssumption
<1>2. pool' = r /\ UNCHANGED <<head, chainHead, known, chainHeadCh>>
  BY DEF SetGasPrice
<1>3. Good(pool)
  BY DEF PoolInv
<1>4. /\ Good(r) /\ r.currentState = pool.currentState /\ Journaled(pool, r)
      /\ ToSet(pool.journal) \subseteq ToSet(r.journal) /\ Serves(pool, r)
  BY <1>1, <1>3, SetGasPriceFacts
<1> HIDE DEF r
<1>5. SameState /\ Good(pool') /\ PoolAct
  BY <1>2, <1>4 DEF SameState, JournalStep, PoolAct, Serves
<1> QED BY <1>5, SameStateFacts DEF PoolInv

LEMMA EvictStep ==
    ASSUME PoolInv, Evict
    PROVE  PoolInv' /\ PoolAct
<1> DEFINE Old(n) == Addr \ (pool.locals \union ToSet(SubSeq(pool.beats, n + 1, Len(pool.beats))))
<1>0. PICK n : pool' = Evicted(pool, Old(n))
  BY DEF Evict
<1> DEFINE A == Old(n)
<1>1. pool' = Evicted(pool, A) /\ UNCHANGED <<head, chainHead, known, chainHeadCh>>
  BY <1>0 DEF Evict
<1>01. A \intersect pool.locals = {}
  OBVIOUS
<1> HIDE DEF A, Old
<1> DEFINE r == Evicted(pool, A)
<1>2. Good(pool) /\ Sound(pool)
  BY DEF PoolInv, Good
<1>3. Sound(r) /\ Shed(pool, r)
  BY <1>01, <1>2, EvictedFacts
<1> HIDE DEF r
<1>4. /\ Good(r) /\ r.currentState = pool.currentState /\ Journaled(pool, r)
      /\ ToSet(pool.journal) \subseteq ToSet(r.journal) /\ Serves(pool, r)
  BY <1>2, <1>3, GoodShed
<1>5. pool' = r
  BY <1>1 DEF r
<1>6. SameState /\ Good(pool') /\ PoolAct
  BY <1>1, <1>4, <1>5 DEF SameState, JournalStep, PoolAct, Serves
<1> QED BY <1>6, SameStateFacts DEF PoolInv

LEMMA RejournalStep ==
    ASSUME PoolInv, Rejournal
    PROVE  PoolInv' /\ PoolAct
<1> DEFINE r == rotate(pool)
<1>1. pool' = r /\ UNCHANGED <<head, chainHead, known, chainHeadCh>>
  BY DEF Rejournal
<1>2. Good(pool)
  BY DEF PoolInv
<1>3. Good(r) /\ r.currentState = pool.currentState /\ AllJournaled(r) /\ Serves(pool, r)
  BY <1>2, RotateFacts
<1> HIDE DEF r
<1>4. SameState /\ Good(pool') /\ PoolAct
  BY <1>1, <1>3 DEF SameState, JournalStep, PoolAct, Serves
<1> QED BY <1>4, SameStateFacts DEF PoolInv

\* A step may leave the pool alone.
LEMMA PoolUnchanged == UNCHANGED pool => PoolAct
<1> SUFFICES ASSUME pool' = pool
             PROVE  PoolAct
  OBVIOUS
<1>1. JournalStep
  BY DEF JournalStep, Journaled
<1>2. Stays(pool, pool)
  BY SparesFacts, StaysIfSpared
<1>3. Executes(pool, pool)
  BY ExecFacts
<1> QED BY <1>1, <1>2, <1>3 DEF PoolAct

LEMMA ChainHeadStep ==
    ASSUME PoolInv, NEW b \in DOMAIN Block, ChainHead(b)
    PROVE  PoolInv' /\ PoolAct
<1>1. /\ pool' = pool /\ head' = head /\ chainHead' = b /\ known' = known \union {b}
      /\ chainHeadCh' = chainHeadCh \union {b} /\ b \notin known
  BY DEF ChainHead
<1>2. HeadsKnown'
  BY <1>1 DEF HeadsKnown, PoolInv
<1> QED BY <1>1, <1>2, PoolUnchanged DEF PoolInv

LEMMA HeadEventStep ==
    ASSUME PoolInv, NEW b \in chainHeadCh, HeadEvent(b)
    PROVE  PoolInv' /\ PoolAct
<1> DEFINE s == Reinject(head, b)
           r == reset(pool, b, s)
<1>1. /\ pool' = r /\ head' = b
      /\ chainHeadCh' = chainHeadCh \ {b} /\ chainHead' = chainHead /\ known' = known
  BY DEF HeadEvent
<1>2. /\ known \subseteq DOMAIN Block
      /\ {pool.currentState, head, chainHead} \subseteq known /\ Genesis \in known
  BY DEF PoolInv, HeadsKnown
<1>3. b \in known \ {Genesis} /\ chainHeadCh \ {b} \subseteq known \ {Genesis}
  BY DEF PoolInv, HeadsKnown
<1>4. b \in DOMAIN Block /\ head \in DOMAIN Block
  BY <1>2, <1>3
<1>5. s \in Seq(Tx)
  BY <1>4, ReinjectFacts
<1> HIDE DEF s
<1>6. Sound(pool) /\ Roomy(pool)
  BY DEF PoolInv, Good
<1>7. /\ Sound(r) /\ r.currentState = b
      /\ ToSet(pool.journal) \subseteq ToSet(r.journal) /\ Journaled(pool, r)
      /\ Roomy(r) /\ Quota(r) /\ (\A a \in Addr : Free(r, a)) /\ (\A a \in Addr : AllValid(r, a))
      /\ Stays(pool, r) /\ (s = <<>> => Executes(pool, r))
  BY <1>4, <1>5, <1>6, ResetFacts
<1> HIDE DEF r
<1>8. Good(r)
  BY <1>7 DEF Good
<1>9. HeadsKnown'
  BY <1>1, <1>2, <1>3, <1>7 DEF HeadsKnown
<1>10. JournalStep
  BY <1>1, <1>7 DEF JournalStep
<1>11. Returns \/ s = <<>>
  BY DEF Returns, s
<1>12. PoolAct
  BY <1>1, <1>7, <1>10, <1>11 DEF PoolAct
<1> QED BY <1>1, <1>8, <1>9, <1>12 DEF PoolInv

LEMMA HeadEventFailsStep ==
    ASSUME PoolInv, NEW b \in chainHeadCh, HeadEventFails(b)
    PROVE  PoolInv' /\ PoolAct
<1>1. /\ b \in Missing /\ pool' = pool /\ head' = b
      /\ chainHeadCh' = chainHeadCh \ {b} /\ chainHead' = chainHead /\ known' = known
  BY DEF HeadEventFails
<1>2. HeadsKnown'
  BY <1>1 DEF HeadsKnown, PoolInv
<1> QED BY <1>1, <1>2, PoolUnchanged DEF PoolInv

LEMMA RestartStep ==
    ASSUME PoolInv, NEW b \in DOMAIN Block, Restart(b)
    PROVE  PoolInv' /\ PoolAct
<1> DEFINE r == NewTxPool(pool.journal, b)
<1>1. /\ pool' = r /\ head' = b /\ chainHeadCh' = {}
      /\ chainHead' = b /\ known' = {Genesis, b}
  BY DEF Restart
<1>2. Genesis \in DOMAIN Block
  BY BlockAssumption
<1>3. pool.journal \in Seq(Tx)
  BY PoolFields DEF PoolInv, Good, Sound, Agree
<1>4. /\ Good(r) /\ r.currentState = b /\ AllJournaled(r)
      /\ \A a \in Addr : Exec(r, a)
      /\ \A t \in ToSet(pool.journal) : ValidIn(r, t) => Holds(r, t)
  BY <1>3, NewTxPoolFacts
<1> HIDE DEF r
<1>5. HeadsKnown'
  BY <1>1, <1>2, <1>4 DEF HeadsKnown
<1>6. PoolAct
  BY <1>1, <1>4 DEF PoolAct, JournalStep, Reloads, Executes
<1> QED BY <1>1, <1>4, <1>5, <1>6 DEF PoolInv

LEMMA PoolStep == PoolInv /\ [Next]_vars => PoolInv' /\ PoolAct
<1> SUFFICES ASSUME PoolInv, [Next]_vars
             PROVE  PoolInv' /\ PoolAct
  OBVIOUS
<1>1. CASE UNCHANGED vars
  BY <1>1, PoolUnchanged DEF vars, PoolInv, HeadsKnown
<1>2. ASSUME NEW t \in Submitted, AddLocal(t)
      PROVE  PoolInv' /\ PoolAct
  BY <1>2, AddLocalStep
<1>3. ASSUME NEW txs \in Batches, AddRemotes(txs)
      PROVE  PoolInv' /\ PoolAct
  BY <1>3, AddRemotesStep
<1>4. ASSUME NEW price \in Prices, SetGasPrice(price)
      PROVE  PoolInv' /\ PoolAct
  BY <1>4, SetGasPriceStep
<1>5. ASSUME NEW b \in DOMAIN Block, ChainHead(b)
      PROVE  PoolInv' /\ PoolAct
  BY <1>5, ChainHeadStep
<1>6. CASE Evict
  BY <1>6, EvictStep
<1>7. CASE Rejournal
  BY <1>7, RejournalStep
<1>8. ASSUME NEW b \in chainHeadCh, HeadEvent(b)
      PROVE  PoolInv' /\ PoolAct
  BY <1>8, HeadEventStep
<1>9. ASSUME NEW b \in chainHeadCh, HeadEventFails(b)
      PROVE  PoolInv' /\ PoolAct
  BY <1>9, HeadEventFailsStep
<1>10. ASSUME NEW b \in DOMAIN Block, Restart(b)
       PROVE  PoolInv' /\ PoolAct
  BY <1>10, RestartStep
<1> QED BY <1>1, <1>2, <1>3, <1>4, <1>5, <1>6, <1>7, <1>8, <1>9, <1>10, Zenon DEF Next

LEMMA PoolInvariant == Spec => []PoolInv
<1>1. PoolInv /\ [Next]_vars => PoolInv'
  BY PoolStep
<1> QED BY PoolInit, <1>1, PTL DEF Spec

\* Every part of the pool keeps its type, the counter of stale entries of the
\* priced list is never taken below zero by Cap, Underpriced or Discard, and
\* the pool and its loop only follow blocks that have been heads of the chain.
THEOREM PoolTypes == Spec => []PoolTypeOK
<1>1. PoolInv => PoolTypeOK
  <2> SUFFICES ASSUME PoolInv PROVE PoolTypeOK
    OBVIOUS
  <2>1. pool \in Pools
    BY DEF PoolInv, Good, Sound, Agree
  <2>2. /\ pool.pending \in SUBSET Tx /\ pool.queue \in SUBSET Tx /\ pool.all \in SUBSET Tx
        /\ pool.items \in Seq(Tx) /\ pool.stales \in Nat /\ pool.pendingState \in [Addr -> Nat]
        /\ pool.locals \in SUBSET Addr /\ pool.beats \in Seq(Addr) /\ pool.journal \in Seq(Tx)
    BY <2>1, PoolFields
  <2>3. ToSet(pool.items) \subseteq Tx /\ ToSet(pool.beats) \subseteq Addr
        /\ ToSet(pool.journal) \subseteq Tx
    BY <2>2, ToSetFacts
  <2>4. HeadsKnown
    BY DEF PoolInv
  <2> QED BY <2>2, <2>3, <2>4 DEF PoolTypeOK, HeadsKnown
<1> QED BY <1>1, PoolInvariant, PTL

\* Between any two operations the lookup by hash finds exactly the pending and
\* the queued transactions, and no nonce of an account is taken twice, however
\* replacements, promotions, demotions and removals are interleaved.
THEOREM LookupAlwaysAgrees == Spec => []LookupAgrees
<1>1. PoolInv => LookupAgrees
  BY DEF PoolInv, Good, Sound, Agree, Unique, LookupAgrees
<1> QED BY <1>1, PoolInvariant, PTL

\* The priced list never loses the entry of a transaction of the pool, and its
\* counter is never below the number of stale entries: neither the lazy
\* removals nor the rebuilding of the heap lose count.
THEOREM PricedAlwaysComplete == Spec => []PricedComplete
<1>1. PoolInv => PricedComplete
  BY DEF PoolInv, Good, Sound, Priced, PricedFor, PricedComplete
<1> QED BY <1>1, PoolInvariant, PTL

\* The nonce that the pool gives out next is never that of a queued
\* transaction: whatever operation frees a nonce or moves one to the queue
\* also promotes what has become ready.
THEOREM NextNonceAlwaysFree == Spec => []NextNonceFree
<1>1. PoolInv => NextNonceFree
  <2> SUFFICES ASSUME PoolInv, NEW t \in pool.queue
               PROVE  t.nonce # pool.pendingState[t.from]
    BY DEF NextNonceFree
  <2>1. pool \in Pools /\ \A a \in Addr : Free(pool, a)
    BY DEF PoolInv, Good, Sound, Agree
  <2>2. t.from \in Addr
    BY <2>1, PoolFields, TxFacts
  <2> QED BY <2>1, <2>2 DEF Free
<1> QED BY <1>1, PoolInvariant, PTL

\* The pool stays within its limits: in total while nobody is local, and with
\* its executable transactions beyond the guaranteed slots of remote accounts.
THEOREM PoolAlwaysBounded == Spec => []PoolBounded
<1>1. PoolInv => PoolBounded
  BY DEF PoolInv, Good, Roomy, Quota, PendingOf, PoolBounded
<1> QED BY <1>1, PoolInvariant, PTL

\* What comes into the pool while its account is local is journaled by the
\* operation that takes it in, also when a reorganisation returns it, and the
\* journal keeps it as long as the pool does.
THEOREM LocalsAlwaysJournaled == Spec => LocalsJournaled
<1> DEFINE A == \A t \in pool'.all :
                    /\ t.from \in pool'.locals
                    /\ t \in pool.all => Contains(pool.journal, t)
                    => Contains(pool'.journal, t)
<1>1. ASSUME PoolInv, PoolInv', JournalStep
      PROVE  A
  <2>1. pool.journal \in Seq(Tx)
    BY <1>1, PoolFields DEF PoolInv, Good, Sound, Agree
  <2>2. pool'.journal \in Seq(Tx)
    BY <1>1, PoolFields DEF PoolInv, Good, Sound, Agree
  <2>3. ASSUME NEW t
        PROVE  /\ Contains(pool.journal, t) => t \in ToSet(pool.journal)
               /\ t \in ToSet(pool'.journal) => Contains(pool'.journal, t)
    BY <2>1, <2>2, ContainsFacts
  <2> QED BY <1>1, <2>3 DEF JournalStep, Journaled, AllJournaled
<1>2. PoolInv /\ PoolInv' /\ [Next]_vars => [A]_vars
  BY <1>1, PoolStep DEF PoolAct
<1>3. Spec => [][A]_vars
  BY <1>2, PoolInvariant, PTL DEF Spec
<1> QED BY <1>3 DEF LocalsJournaled

\* Could every transaction of the pool be mined, now or after others of its
\* account, in the state that the pool works with?
PoolValid ==
    \A t \in pool.all : t.nonce >= StateNonce(pool, t.from) /\ Payable(pool, t)

\* No operation leaves a transaction in the pool, not even in the queue, whose
\* nonce is used up or that its account cannot pay in the state of the pool's
\* head: add validates against the state that reset leaves behind, and reset
\* drops from both lists what the new state makes invalid.
THEOREM PoolAlwaysValid == Spec => []PoolValid
<1>1. PoolInv => PoolValid
  <2> SUFFICES ASSUME PoolInv, NEW t \in pool.all
               PROVE  t.nonce >= StateNonce(pool, t.from) /\ Payable(pool, t)
    BY DEF PoolValid
  <2>1. pool \in Pools /\ \A a \in Addr : AllValid(pool, a)
    BY DEF PoolInv, Good, Sound, Agree
  <2>2. t.from \in Addr
    BY <2>1, PoolFields, TxFacts
  <2> QED BY <2>1, <2>2 DEF AllValid, ValidIn
<1> QED BY <1>1, PoolInvariant, PTL

LEMMA ExecutableIs ==
    ASSUME NEW p \in Pools, NEW a \in Addr
    PROVE  Exec(p, a) <=>
               /\ {t.nonce : t \in Of(p.pending, a)} = StateNonce(p, a) .. (p.pendingState[a] - 1)
               /\ \A t \in Of(p.pending, a) : Payable(p, t)
<1>1. /\ StateNonce(p, a) \in Nat /\ p.pendingState[a] \in Nat
      /\ \A t \in p.pending : t.nonce \in Nat
  BY PoolFields, TxFacts, StateNonceType
<1> DEFINE N == {t.nonce : t \in Of(p.pending, a)}
           x == StateNonce(p, a)
           y == p.pendingState[a]
<1>2. N \subseteq Nat /\ x \in Nat /\ y \in Nat
  BY <1>1 DEF Of
<1>3. \A n : n \in N <=> \E t \in p.pending : t.from = a /\ t.nonce = n
  BY DEF Of
<1>4. (\A t \in Of(p.pending, a) : Payable(p, t)) <=> (\A t \in p.pending : t.from = a => Payable(p, t))
  BY DEF Of
<1>5. N = x .. (y - 1) <=> \A n \in Nat : n \in N <=> x <= n /\ n < y
  <2> HIDE DEF N, x, y
  <2>1. \A n \in Nat : n \in x .. (y - 1) <=> x <= n /\ n < y
    BY <1>2
  <2>2. x .. (y - 1) \subseteq Nat
    BY <1>2
  <2> QED BY <1>2, <2>1, <2>2
<1>6. Exec(p, a) <=> /\ \A n \in Nat : n \in N <=> x <= n /\ n < y
                     /\ \A t \in p.pending : t.from = a => Payable(p, t)
  <2> HIDE DEF N
  <2> QED BY <1>3 DEF Exec
<1> HIDE DEF N, x, y
<1>7. Exec(p, a) <=> N = x .. (y - 1) /\ \A t \in Of(p.pending, a) : Payable(p, t)
  BY <1>4, <1>5, <1>6
<1> QED BY <1>7 DEF N, x, y

LEMMA PendingExecutableIs ==
    ASSUME pool \in Pools
    PROVE  PendingExecutable <=> \A a \in Addr : Exec(pool, a)
BY ExecutableIs DEF PendingExecutable

\* As long as no reorganisation takes transactions off the chain, the pending
\* transactions of every account can be executed one after the other: neither
\* a replacement, an eviction, a limit, a new price, a new block, an event
\* that fails nor a restart leaves a gap or a transaction that cannot be paid.
\* What demoteUnexecutables does not look for after a reorganisation (run
\* txpool_reorg) is all that can go wrong.
THEOREM PendingAlwaysExecutable ==
    Spec /\ [][~Returns]_vars => []PendingExecutable
<1>1. Init => PendingExecutable
  <2> SUFFICES ASSUME Init PROVE PendingExecutable
    OBVIOUS
  <2> DEFINE n == <<>>
  <2>1. Genesis \in DOMAIN Block /\ n \in Seq(Tx)
    BY BlockAssumption
  <2>2. pool = NewTxPool(n, Genesis)
    BY DEF Init
  <2> HIDE DEF n
  <2>3. Good(pool) /\ \A a \in Addr : Exec(pool, a)
    BY <2>1, <2>2, NewTxPoolFacts
  <2> QED BY <2>3, PendingExecutableIs DEF Good, Sound, Agree
<1>2. PoolInv /\ PoolInv' /\ PendingExecutable /\ [Next]_vars /\ [~Returns]_vars => PendingExecutable'
  <2> SUFFICES ASSUME PoolInv, PoolInv', PendingExecutable, [Next]_vars, [~Returns]_vars
               PROVE  PendingExecutable'
    OBVIOUS
  <2>1. CASE UNCHANGED vars
    BY <2>1 DEF vars, PendingExecutable, StateNonce, Payable
  <2>2. CASE ~Returns
    <3>1. Executes(pool, pool')
      BY <2>2, PoolStep DEF PoolAct
    <3>2. pool \in Pools /\ pool' \in Pools
      BY DEF PoolInv, Good, Sound, Agree
    <3>3. \A a \in Addr : Exec(pool, a)
      BY <3>2, PendingExecutableIs
    <3>4. \A a \in Addr : Exec(pool', a)
      BY <3>1, <3>3 DEF Executes
    <3> QED BY <3>2, <3>4, ExecutableIs DEF PendingExecutable
  <2> QED BY <2>1, <2>2
<1> QED BY <1>1, <1>2, PoolInvariant, PTL DEF Spec

\* Of two transactions with the same nonce, one pays enough to replace the
\* other.
PricesApart ==
    \A t, u \in Tx : t.from = u.from /\ t.nonce = u.nonce /\ t # u => Outbids(t, u) \/ Outbids(u, t)

\* A journaled transaction of a local account survives every operation, a
\* reorganisation and a restart included, unless it is mined, can no longer be
\* paid or a dearer one has its nonce.  Only a restart needs PricesApart: it
\* loads the journal in the order written, where a transaction that left the
\* pool when its nonce was mined may stand before the one that has the nonce
\* after a reorganisation, at the same price or nearly so.
THEOREM LocalsAlwaysKept == PricesApart => (Spec => LocalsKept)
<1> SUFFICES ASSUME PricesApart
             PROVE  Spec => LocalsKept
  OBVIOUS
<1> DEFINE Gone(t) ==
               \/ t.nonce < Block[pool'.currentState].nonce[t.from]
               \/ t.cost > Block[pool'.currentState].balance[t.from]
               \/ t.gas > Block[pool'.currentState].gasLimit
           Kept1(t) ==
               \/ t \in pool'.all
               \/ t.nonce < Block[pool'.currentState].nonce[t.from]
               \/ t.cost > Block[pool'.currentState].balance[t.from]
               \/ t.gas > Block[pool'.currentState].gasLimit
               \/ \E u \in pool'.all : /\ u.from = t.from /\ u.nonce = t.nonce
                                       /\ u.price > t.price
           A == \A t \in pool.all \intersect ToSet(pool.journal) : t.from \in pool.locals => Kept1(t)
<1>1. ASSUME PoolInv, PoolInv', PoolAct
      PROVE  A
  <2> SUFFICES ASSUME NEW t \in pool.all, t \in ToSet(pool.journal), t.from \in pool.locals, ~Gone(t)
               PROVE  Kept1(t)
    OBVIOUS
  <2>1. pool \in Pools /\ pool' \in Pools
    BY <1>1 DEF PoolInv, Good, Sound, Agree
  <2>2. t \in Tx /\ pool'.all \in SUBSET Tx
    BY <2>1, PoolFields
  <2>3. ValidIn(pool', t)
    <3>1. /\ t.from \in Addr /\ t.nonce \in Nat /\ t.cost \in Nat /\ t.gas \in Nat
          /\ pool'.currentState \in DOMAIN Block
      BY <2>1, <2>2, TxAssumption DEF Pools
    <3>2. /\ Block[pool'.currentState].nonce[t.from] \in Nat
          /\ Block[pool'.currentState].balance[t.from] \in Nat
          /\ Block[pool'.currentState].gasLimit \in Nat
      BY <3>1, BlockAssumption
    <3> QED BY <3>1, <3>2 DEF ValidIn, StateNonce, Payable
  <2> HIDE DEF Gone
  <2>4. CASE Stays(pool, pool')
    <3>1. PICK u \in pool'.all : Succeeds(u, t)
      BY <2>3, <2>4 DEF Stays
    <3> QED BY <3>1 DEF Succeeds
  <2>5. CASE Reloads(pool, pool')
    <3>1. Holds(pool', t)
      BY <2>3, <2>5 DEF Reloads
    <3>2. PICK u \in pool'.all : Beats(u, t)
      BY <3>1 DEF Holds
    <3>3. CASE u = t
      BY <3>3
    <3>4. CASE u # t
      <4>1. u \in Tx /\ u.from = t.from /\ u.nonce = t.nonce /\ ~Outbids(t, u)
        BY <2>2, <3>2, <3>4 DEF Beats
      <4>2. Outbids(u, t)
        BY <2>2, <3>4, <4>1 DEF PricesApart
      <4>3. u.price > t.price
        BY <2>2, <4>1, <4>2, TxFacts DEF Outbids
      <4> QED BY <4>1, <4>3
    <3> QED BY <3>3, <3>4
  <2> QED BY <1>1, <2>4, <2>5 DEF PoolAct
<1>2. PoolInv /\ PoolInv' /\ [Next]_vars => [A]_vars
  BY <1>1, PoolStep
<1>3. Spec => [][A]_vars
  BY <1>2, PoolInvariant, PTL DEF Spec
<1> QED BY <1>3 DEF LocalsKept

\* The pool that a head event finds at the head of its loop has what the event
\* takes off the chain, if it is of a local account and valid.
LEMMA ReorgStep ==
    ASSUME PoolInv, HeadEvent(head'), pool.currentState = head, NEW t,
           t \in ToSet(TxsOf(Fork(head, Genesis))), t \notin ToSet(TxsOf(Fork(head', Genesis))),
           Block[head].number - Block[head'].number <= MaxReorgDepth,
           Block[head'].number - Block[head].number <= MaxReorgDepth,
           t.from \in pool.locals, ValidIn(pool', t)
    PROVE  \E u \in pool'.all : u.from = t.from /\ u.nonce = t.nonce
<1> DEFINE b == head'
           s == Reinject(head, b)
           r == reset(pool, b, s)
<1>1. b \in chainHeadCh /\ pool' = r /\ head' = b
  BY DEF HeadEvent
<1>2. known \subseteq DOMAIN Block /\ head \in known
  BY DEF PoolInv, HeadsKnown
<1>3. b \in known \ {Genesis}
  BY <1>1 DEF PoolInv, HeadsKnown
<1> HIDE DEF b
<1>4. b \in DOMAIN Block /\ head \in DOMAIN Block /\ b # Genesis
  BY <1>2, <1>3
<1>5. s \in Seq(Tx)
  BY <1>4, ReinjectFacts
<1>6. t \in ToSet(s)
  BY <1>1, <1>4, ReinjectAll
<1> HIDE DEF s
<1>7. Sound(pool) /\ pool \in Pools /\ \A a \in Addr : AllValid(pool, a)
  BY DEF PoolInv, Good, Sound, Agree
<1>8. Overlapping(pool.all, t) = {}
  <2>1. t \in Tx /\ t.nonce < Block[head].nonce[t.from]
    BY <1>4, ChainNonces
  <2>2. t.from \in Addr /\ t.nonce \in Nat
    BY <2>1, TxFacts
  <2>3. Block[head].nonce[t.from] \in Nat
    BY <1>4, <2>2, BlockAssumption
  <2>4. \A u \in pool.all : u.from = t.from => u.nonce >= Block[head].nonce[t.from]
    BY <1>7, <2>2 DEF AllValid, ValidIn, StateNonce
  <2>5. \A u \in pool.all : u.nonce \in Nat
    BY <1>7, PoolFields, TxFacts
  <2>6. \A u \in pool.all : u.from = t.from => u.nonce # t.nonce
    BY <2>1, <2>2, <2>3, <2>4, <2>5
  <2> QED BY <2>6 DEF Overlapping
<1>9. \A u \in ToSet(s) : /\ u.from \in pool.locals /\ ValidIn(r, u)
                          /\ Overlapping(pool.all, u) = {}
                          => Holds(r, u)
  BY <1>4, <1>5, <1>7, ResetFacts
<1> HIDE DEF r
<1>10. Holds(r, t)
  BY <1>1, <1>6, <1>8, <1>9
<1> QED BY <1>1, <1>10 DEF Holds, Beats

\* What a reorganisation takes off the chain comes back into the pool, as far
\* as it is of a local account and valid on the new branch, for any two
\* branches and whatever the pool holds.  It does as long as the pool follows
\* every head that its loop does: after an event that failed the pool may hold
\* another transaction with the nonce, which keeps the returning one out and
\* is then found not to be payable.
THEOREM ReorgAlwaysReturnsLocals == Missing = {} => (Spec => ReorgReturnsLocals)
<1> SUFFICES ASSUME Missing = {}
             PROVE  Spec => ReorgReturnsLocals
  OBVIOUS
<1> DEFINE old == ToSet(TxsOf(Fork(head, Genesis)))
           new == ToSet(TxsOf(Fork(head', Genesis)))
           far == {Block[head].number - Block[head'].number,
                   Block[head'].number - Block[head].number}
           Back(t) ==
               \/ t.from \notin pool.locals
               \/ t.nonce < Block[head'].nonce[t.from]
               \/ t.cost > Block[head'].balance[t.from]
               \/ t.gas > Block[head'].gasLimit
               \/ \E d \in far : d > MaxReorgDepth
               \/ \E u \in pool'.all : u.from = t.from /\ u.nonce = t.nonce
           A == head' # head /\ HeadEvent(head') => \A t \in old \ new : Back(t)
<1>1. ASSUME PoolInv, PoolInv'
      PROVE  A
  <2> SUFFICES ASSUME HeadEvent(head'), NEW t \in old \ new, ~Back(t)
               PROVE  FALSE
    OBVIOUS
  <2>1. pool.currentState = head /\ head \in DOMAIN Block
    BY <1>1 DEF PoolInv, HeadsKnown
  <2>2. pool'.currentState = head' /\ head' \in DOMAIN Block
    BY <1>1 DEF PoolInv, HeadsKnown
  <2>3. t \in old /\ t \notin new
    OBVIOUS
  <2>4. /\ t.from \in pool.locals
        /\ ~(t.nonce < Block[head'].nonce[t.from])
        /\ ~(t.cost > Block[head'].balance[t.from])
        /\ ~(t.gas > Block[head'].gasLimit)
        /\ ~(Block[head].number - Block[head'].number > MaxReorgDepth)
        /\ ~(Block[head'].number - Block[head].number > MaxReorgDepth)
        /\ ~\E u \in pool'.all : u.from = t.from /\ u.nonce = t.nonce
    OBVIOUS
  <2>5. t \in Tx
    BY <2>1, <2>3, ChainNonces
  <2> HIDE DEF old, new, Back
  <2>6. /\ Block[head].number \in Nat /\ Block[head'].number \in Nat /\ MaxReorgDepth \in Nat
        /\ Block[head].number - Block[head'].number <= MaxReorgDepth
        /\ Block[head'].number - Block[head].number <= MaxReorgDepth
    <3>1. Block[head].number \in Nat /\ Block[head'].number \in Nat /\ MaxReorgDepth \in Nat
      BY <2>1, <2>2, BlockAssumption, ConfigAssumption
    <3> QED BY <2>4, <3>1
  <2>7. ValidIn(pool', t)
    <3>1. t.from \in Addr /\ t.nonce \in Nat /\ t.cost \in Nat /\ t.gas \in Nat
      BY <2>5, TxAssumption
    <3>2. /\ Block[head'].nonce[t.from] \in Nat /\ Block[head'].balance[t.from] \in Nat
          /\ Block[head'].gasLimit \in Nat
      BY <2>2, <3>1, BlockAssumption
    <3>3. /\ t.nonce >= Block[head'].nonce[t.from] /\ t.cost <= Block[head'].balance[t.from]
          /\ t.gas <= Block[head'].gasLimit
      BY <2>4, <3>1, <3>2
    <3> QED BY <2>2, <3>3 DEF ValidIn, StateNonce, Payable
  <2> QED BY <1>1, <2>1, <2>3, <2>4, <2>6, <2>7, ReorgStep DEF old, new
<1>2. PoolInv /\ PoolInv' /\ [Next]_vars => [A]_vars
  BY <1>1
<1>3. Spec => [][A]_vars
  BY <1>2, PoolInvariant, PTL DEF Spec
<1> QED BY <1>3 DEF ReorgReturnsLocals
=============================================================================
