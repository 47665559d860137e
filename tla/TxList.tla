------------------------------- MODULE TxList -------------------------------
(***************************************************************************)
(* The containers of geth's transaction pool, core/tx_list.go.             *)
(*                                                                         *)
(* A transaction is a record with the fields from, nonce, price, cost and  *)
(* gas; two transactions are the same when they have the same hash, here:  *)
(* when the records are equal.  A txList (the transactions of one account  *)
(* by nonce) is a set of transactions with one member per nonce; the heap  *)
(* of nonces, the cache of Flatten, and the caps that let Filter return    *)
(* early are only ways to compute the same sets faster.                    *)
(*                                                                         *)
(* The priced list is kept exactly, with its stale entries: it is a        *)
(* sequence of transactions in the order in which its heap pops them, and  *)
(* the counter of the entries whose transaction has left the pool.         *)
(***************************************************************************)
EXTENDS Integers, Sequences, FiniteSets, FiniteSetsExt, SequencesExt

CONSTANTS
    Accounts,   \* the accounts, in the order in which the loops over maps of
                \* the pool visit them and in which ties of the heap are broken
    PriceBump   \* by how many per cent a replacement must pay more

Addr == ToSet(Accounts)

Of(list, a) == {t \in list : t.from = a}

\* The members of a set, one after the other, in a strict total order.
InOrder(S, Before(_, _)) ==
    [i \in 1 .. Cardinality(S) |->
        CHOOSE t \in S : Cardinality({u \in S : Before(u, t)}) = i - 1]

-----------------------------------------------------------------------------
(* txSortedMap and txList *)

ByNonce(list) == InOrder(list, LAMBDA s, t : s.nonce < t.nonce)

\* The transactions of a list that have the same account and nonce as t.
Overlapping(list, t) == {u \in list : u.from = t.from /\ u.nonce = t.nonce}

\* txList.Add: may t be put into the list, over the one with its nonce?
Accepts(list, t) ==
    \A old \in Overlapping(list, t) :
        /\ old.price < t.price
        /\ (old.price * (100 + PriceBump)) \div 100 =< t.price

\* What Forward, Cap, Filter and Ready take out of a list.
Forward(list, threshold) == {t \in list : t.nonce < threshold}

Cap(list, threshold) ==
    {t \in list :
        Cardinality({u \in list : u.nonce =< t.nonce}) > threshold}

\* The transactions of a strict list that a gap at the nonces of removed
\* leaves without a predecessor.
Invalids(list, removed) ==
    {t \in list : \E u \in removed : u.nonce < t.nonce}

\* Mutant: a run that begins exactly at start is not ready.
ReadyLate(list, start) ==
    {t \in list :
        LET lowest == Min({u.nonce : u \in list})
        IN  /\ lowest < start
            /\ \A n \in lowest .. t.nonce : \E u \in list : u.nonce = n}

\* The run of consecutive nonces from the lowest one, if that is not after
\* start.
Ready(list, start) ==
    {t \in list :
        LET lowest == Min({u.nonce : u \in list})
        IN  /\ lowest =< start
            /\ \A n \in lowest .. t.nonce : \E u \in list : u.nonce = n}

-----------------------------------------------------------------------------
(* txPricedList *)

RankOf(a) == CHOOSE i \in DOMAIN Accounts : Accounts[i] = a

\* priceHeap.Less, with ties between accounts broken by their order.
Less(s, t) ==
    \/ s.price < t.price
    \/ s.price = t.price /\ s.nonce > t.nonce
    \/ s.price = t.price /\ s.nonce = t.nonce /\ RankOf(s.from) < RankOf(t.from)

Push(items, t) ==
    InsertAt(items, Cardinality({i \in DOMAIN items : Less(items[i], t)}) + 1, t)

HeapOf(txs) == InOrder(txs, Less)

Put(p, t) == [p EXCEPT !.items = Push(@, t)]

\* A transaction has left the pool p: count its entry as stale, and rebuild
\* the heap when more than a quarter is.
Removed(p) ==
    IF p.stales + 1 =< Len(p.items) \div 4
      THEN [p EXCEPT !.stales = @ + 1]
      ELSE [p EXCEPT !.stales = 0, !.items = HeapOf(p.all)]

\* Mutant: nobody is exempt.
containsNone(p, t) == FALSE

\* accountSet.containsTx, of the local accounts.
containsTx(p, t) == t.from \in p.locals

\* A loop that pops entries has the entries it keeps, the counter of stale
\* ones, the live ones it took out, and how many more it looks for.
Sieve(p, left) == [items |-> <<>>, stales |-> p.stales, drop |-> <<>>, left |-> left]

Keep(acc, t) == [acc EXCEPT !.items = Append(@, t)]

PopStale(acc) == [acc EXCEPT !.stales = @ - 1]

\* Mutant: a live entry is counted as a stale one.
PopLiveCounted(acc, t) == [acc EXCEPT !.drop = Append(@, t), !.stales = @ - 1]

PopLive(acc, t) == [acc EXCEPT !.drop = Append(@, t)]

\* The pool p after the loop.
Sieved(p, acc) == [p EXCEPT !.items = acc.items, !.stales = acc.stales]

\* Cap, to the price that the pool asks for: the remote transactions below it
\* are popped and returned.  The loop ends at the first entry that is live and
\* dear enough.
CapStep(p, acc, t) ==
    IF acc.left = 0 THEN Keep(acc, t)
    ELSE IF t \notin p.all THEN PopStale(acc)
    ELSE IF t.price >= p.gasPrice THEN [Keep(acc, t) EXCEPT !.left = 0]
    ELSE IF containsTx(p, t) THEN Keep(acc, t)
    ELSE PopLive(acc, t)

CapPrice(p) == FoldLeft(LAMBDA acc, t : CapStep(p, acc, t), Sieve(p, 1), p.items)

\* Underpriced first pops the stale entries before the cheapest live one.
SkipStep(p, acc, t) ==
    IF acc.left = 0 THEN Keep(acc, t)
    ELSE IF t \notin p.all THEN PopStale(acc)
    ELSE [Keep(acc, t) EXCEPT !.left = 0]

SkipStale(p) ==
    Sieved(p, FoldLeft(LAMBDA acc, t : SkipStep(p, acc, t), Sieve(p, 1), p.items))

\* Underpriced, asked of a pool whose first entry is live.
Underpriced(p, t) ==
    /\ ~ containsTx(p, t)
    /\ p.items # <<>>
    /\ Head(p.items).price >= t.price

\* Discard: the cheapest remote transactions, as many as the loop looks for,
\* are popped and returned.
DiscardStep(p, acc, t) ==
    IF acc.left =< 0 THEN Keep(acc, t)
    ELSE IF t \notin p.all THEN PopStale(acc)
    ELSE IF containsTx(p, t) THEN Keep(acc, t)
    ELSE [PopLive(acc, t) EXCEPT !.left = @ - 1]

Discard(p, count) ==
    FoldLeft(LAMBDA acc, t : DiscardStep(p, acc, t), Sieve(p, count), p.items)

=============================================================================
