------------------------------- MODULE TxPool -------------------------------
(***************************************************************************)
(* The transaction pool of geth, core/tx_pool.go, with its journal on disk *)
(* (core/tx_journal.go).                                                   *)
(*                                                                         *)
(* Every public operation holds pool.mu from its first to its last step,   *)
(* so each is one action; the operators below are the methods they call,   *)
(* as functions from a pool (the record pool) to a pool.  What is          *)
(* concurrent is the chain: it moves on its own, and the pool hears of it  *)
(* later, through the channel chainHeadCh.                                 *)
(*                                                                         *)
(* A pool has the fields                                                   *)
(*   pending, queue   the executable and the future transactions           *)
(*   all              those that the lookup by hash finds                  *)
(*   items, stales    the priced list (see TxList)                         *)
(*   pendingState     the next nonce of every account                      *)
(*   currentState     the block whose state the pool validates against     *)
(*   gasPrice         the minimal price of a remote transaction            *)
(*   locals           the accounts that are exempt from the price rules    *)
(*   beats            the accounts that have a heartbeat, latest last      *)
(*   journal          the file of local transactions, in the order written *)
(*                    (only the first entry of a transaction has an effect *)
(*                    when the file is loaded, so only that one is kept)   *)
(***************************************************************************)
EXTENDS TxList

CONSTANTS
    Block,          \* the blocks, by name: records with the fields parent, number,
                    \* td, txs, nonce, balance and gasLimit, the last three
                    \* for the state after the block
    Genesis,        \* the name of the first block
    Tx,             \* the well-formed transactions
    Batches,        \* what peers send: sequences of transactions
    Submitted,      \* what the node's own users submit
    PriceLimit,     \* the configured minimal price
    Prices,         \* the prices SetGasPrice is called with
    AccountSlots, GlobalSlots, AccountQueue, GlobalQueue,
    MaxReorgDepth,  \* 64 in the code
    ChanSize,       \* bound: head events that may wait (10 in the code)
    Missing         \* the blocks whose state, or a block on the way to which, may be
                    \* missing from the database when the pool hears of them

VARIABLES
    pool,           \* the TxPool
    head,           \* the variable head of loop
    chainHead,      \* chain.CurrentBlock()
    known,          \* the blocks that have been the head since the start
    chainHeadCh     \* the head events the loop has not yet received

vars == <<pool, head, chainHead, known, chainHeadCh>>

ASSUME ConfigAssumption ==
    /\ AccountSlots \in Nat \ {0}
    /\ GlobalSlots \in Nat /\ AccountQueue \in Nat /\ GlobalQueue \in Nat
    /\ GlobalSlots + GlobalQueue > 0
    /\ PriceBump \in Nat \ {0} /\ PriceLimit \in Nat \ {0}
    /\ MaxReorgDepth \in Nat /\ ChanSize \in Nat \ {0}

\* The accounts are listed once each.  There are finitely many well-formed
\* transactions, because their size is limited.
ASSUME TxAssumption ==
    /\ Accounts \in Seq(Addr)
    /\ \A i, j \in DOMAIN Accounts : Accounts[i] = Accounts[j] => i = j
    /\ IsFiniteSet(Tx)
    /\ Tx \subseteq [from : Addr, nonce : Nat, price : Nat, cost : Nat, gas : Nat]
    /\ Batches \subseteq Seq(Tx) /\ Submitted \subseteq Tx /\ Prices \subseteq Nat

ASSUME BlockAssumption ==
    /\ Genesis \in DOMAIN Block /\ Block[Genesis].number = 0
    /\ \A b \in DOMAIN Block : /\ Block[b].parent \in DOMAIN Block
                              /\ Block[b].number \in Nat
                              /\ Block[b].txs \in Seq(Tx)
                              /\ Block[b].nonce \in [Addr -> Nat]
                              /\ Block[b].balance \in [Addr -> Nat]
                              /\ Block[b].gasLimit \in Nat /\ Block[b].td \in Nat

\* A block follows its parent and carries the next transactions of accounts.
ASSUME ChainAssumption ==
    \A b \in DOMAIN Block \ {Genesis} :
        LET par == Block[Block[b].parent]
        IN  /\ Block[b].number = par.number + 1
            /\ Block[b].td > par.td
            /\ \A i \in DOMAIN Block[b].txs :
                  LET t == Block[b].txs[i]
                      before == {j \in 1 .. (i - 1) : Block[b].txs[j].from = t.from}
                  IN  t.nonce = par.nonce[t.from] + Cardinality(before)
            /\ \A a \in Addr :
                  Block[b].nonce[a] = par.nonce[a] +
                      Cardinality({i \in DOMAIN Block[b].txs :
                                      Block[b].txs[i].from = a})

StateNonce(p, a) == Block[p.currentState].nonce[a]

\* May t be paid for, and does it fit into a block, in the current state?
Payable(p, t) ==
    /\ t.cost =< Block[p.currentState].balance[t.from]
    /\ t.gas =< Block[p.currentState].gasLimit

\* Mutant: the heap is told before the transaction has left the lookup.
ForgetLate(p, t) == [Removed(p) EXCEPT !.all = @ \ {t}]

\* pool.all.Remove and pool.priced.Removed, for one and for many.
Forget(p, t) == Removed([p EXCEPT !.all = @ \ {t}])

ForgetAll(p, txs) == FoldLeft(Forget, p, ByNonce(txs))

-----------------------------------------------------------------------------
(* Adding *)

\* The conditions of validateTx that depend on the pool.  Size, sign,
\* signature and intrinsic gas are properties of t alone: t is well formed.
validateTx(p, t, local) ==
    /\ local \/ t.from \in p.locals \/ t.price >= p.gasPrice
    /\ t.nonce >= StateNonce(p, t.from)
    /\ Payable(p, t)

\* t is known by its hash and its price from now on.
Enlist(p, t) ==
    IF t \in p.all THEN p ELSE Put([p EXCEPT !.all = @ \union {t}], t)

\* Mutant: the transaction that t replaces is not forgotten.
enqueueTxOnly(p, t) ==
    IF ~ Accepts(p.queue, t) THEN p
    ELSE Enlist([p EXCEPT !.queue = (@ \ Overlapping(@, t)) \union {t}], t)

\* Insert t into the queue, unless the one there is better.  A transaction
\* that comes from pending is already known.
enqueueTx(p, t) ==
    IF ~ Accepts(p.queue, t) THEN p
    ELSE Enlist(ForgetAll([p EXCEPT !.queue = (@ \ Overlapping(@, t)) \union {t}],
                          Overlapping(p.queue, t)), t)

EnqueueTxs(p, txs) == FoldLeft(enqueueTx, p, ByNonce(txs))

\* A local transaction is appended to the journal.  The file may hold it
\* twice, but load drops the second copy as known: the model keeps the first.
journalTx(p, t) ==
    IF t.from \in p.locals /\ ~ Contains(p.journal, t)
      THEN [p EXCEPT !.journal = Append(@, t)]
      ELSE p

\* An account without pending transactions has no heartbeat.
DropBeat(p, a) ==
    IF Of(p.pending, a) = {} THEN [p EXCEPT !.beats = RemoveFirst(@, a)] ELSE p

\* txList.Remove on the pending transactions of an account: those behind t go
\* back to the queue, and the account's next nonce is that of t again.
RemovePending(p, t) ==
    LET gone     == Overlapping(p.pending, t)
        invalids == Invalids(Of(p.pending, t.from), gone)
    IN  [EnqueueTxs(DropBeat([p EXCEPT !.pending = @ \ (gone \union invalids)], t.from),
                    invalids)
           EXCEPT !.pendingState[t.from] = IF @ > t.nonce THEN t.nonce ELSE @]

RemoveFromLists(p, t) ==
    IF Overlapping(p.pending, t) # {} THEN RemovePending(p, t)
    ELSE [p EXCEPT !.queue = @ \ Overlapping(@, t)]

\* Remove t from the pool; the lists find it by its nonce.
removeTx(p, t, outofbound) ==
    IF t \notin p.all THEN p
    ELSE RemoveFromLists(IF outofbound THEN Forget(p, t) ELSE [p EXCEPT !.all = @ \ {t}], t)

RemoveTxs(p, txs, outofbound) ==
    FoldLeft(LAMBDA q, t : removeTx(q, t, outofbound), p, txs)

\* Mutant: one transaction too few makes room.
OverflowOff(p) == Cardinality(p.all) - (GlobalSlots + GlobalQueue)

\* By how many transactions the pool is too large to take one more.
Overflow(p) == Cardinality(p.all) - (GlobalSlots + GlobalQueue - 1)

\* What a loop over the priced list took out leaves the pool.
DropFound(p, found) == RemoveTxs(Sieved(p, found), found.drop, FALSE)

\* The cheapest remote transactions make room.
Displace(p) == [ok |-> TRUE, pool |-> DropFound(p, Discard(p, Overflow(p)))]

OutbidBy(p, t) == IF Underpriced(p, t) THEN [ok |-> FALSE, pool |-> p] ELSE Displace(p)

\* When the pool is full a remote transaction must pay more than the cheapest
\* one.
MakeRoom(p, t, local) ==
    IF Cardinality(p.all) < GlobalSlots + GlobalQueue THEN [ok |-> TRUE, pool |-> p]
    ELSE IF local \/ containsTx(p, t) THEN Displace(p)
    ELSE OutbidBy(SkipStale(p), t)

\* t takes the place of a pending transaction.
ReplacePending(p, t) ==
    IF ~ Accepts(p.pending, t) THEN p
    ELSE journalTx(Enlist(ForgetAll(
            [p EXCEPT !.pending = (@ \ Overlapping(@, t)) \union {t}],
            Overlapping(p.pending, t)), t), t)

MarkLocal(p, t, local) == IF local THEN [p EXCEPT !.locals = @ \union {t.from}] ELSE p

\* add, once there is room: the pool after it, and whether a transaction came
\* in that did not replace one, after which the callers look for transactions
\* to promote.
Insert(room, p, t, local) ==
    IF ~ room THEN [pool |-> p, dirty |-> FALSE]
    ELSE IF Overlapping(p.pending, t) # {}
      THEN [pool |-> ReplacePending(p, t), dirty |-> FALSE]
    ELSE IF ~ Accepts(p.queue, t) THEN [pool |-> p, dirty |-> FALSE]
    ELSE [pool |-> journalTx(MarkLocal(enqueueTx(p, t), t, local), t),
          dirty |-> Overlapping(p.queue, t) = {}]

InsertInto(made, t, local) == Insert(made.ok, made.pool, t, local)

add(p, t, local) ==
    IF t \in p.all \/ ~ validateTx(p, t, local) THEN [pool |-> p, dirty |-> FALSE]
    ELSE InsertInto(MakeRoom(p, t, local), t, local)

-----------------------------------------------------------------------------
(* Promoting *)

\* A transaction of the queue becomes executable, unless a better one is.
promoteTx(p, t) ==
    LET old == Overlapping(p.pending, t)
    IN  IF ~ Accepts(p.pending, t) THEN Forget(p, t)
        ELSE [ForgetAll([p EXCEPT !.pending = (@ \ old) \union {t}], old)
                EXCEPT !.beats = Append(RemoveFirst(@, t.from), t.from),
                       !.pendingState[t.from] = t.nonce + 1]

\* The part of promoteExecutables about one account: drop what is too old, ...
DropOld(p, a) ==
    LET old == Forward(Of(p.queue, a), StateNonce(p, a))
    IN  ForgetAll([p EXCEPT !.queue = @ \ old], old)

\* ... what cannot be paid, ...
DropUnpayable(p, a) ==
    LET drops == {t \in Of(p.queue, a) : ~ Payable(p, t)}
    IN  ForgetAll([p EXCEPT !.queue = @ \ drops], drops)

\* ... promote what is ready, ...
PromoteReady(p, a) ==
    LET ready == Ready(Of(p.queue, a), p.pendingState[a])
    IN  FoldLeft(promoteTx, [p EXCEPT !.queue = @ \ ready], ByNonce(ready))

\* ... and cap the rest of a remote account.
CapQueue(p, a) ==
    LET late == Cap(Of(p.queue, a), AccountQueue)
    IN  IF a \in p.locals THEN p ELSE ForgetAll([p EXCEPT !.queue = @ \ late], late)

promoteAccount(p, a) == CapQueue(PromoteReady(DropUnpayable(DropOld(p, a), a), a), a)

\* An account loses its last pending transactions, and their nonces.
CutPending(p, a, drops) ==
    ForgetAll([p EXCEPT !.pending = @ \ drops,
                        !.pendingState[a] = Min({@} \union {t.nonce : t \in drops})],
              drops)

PendingOf(p, a) == Cardinality(Of(p.pending, a))

CutLast(rounds, p, a) ==
    CutPending(p, a, Cap(Of(p.pending, a), PendingOf(p, a) - rounds))

CutRounds(p, offenders, rounds) ==
    IF rounds =< 0 THEN p
    ELSE FoldLeft(LAMBDA q, a : CutLast(rounds, q, a), p, offenders)

\* Each account of offenders loses its pending transactions of highest nonce,
\* as many rounds of one each as bring it to the threshold or the whole pool
\* to GlobalSlots.
Equalize(p, offenders, threshold) ==
    LET m    == Len(offenders)
        over == Cardinality(p.pending) - GlobalSlots
        size == PendingOf(p, offenders[m])
    IN  CutRounds(p, offenders, Min({(over + m - 1) \div m, size - threshold}))

\* The accounts in the spam order: remote, over their guaranteed slots, the
\* largest first.
Larger(p, a, b) ==
    \/ PendingOf(p, a) > PendingOf(p, b)
    \/ PendingOf(p, a) = PendingOf(p, b) /\ RankOf(a) < RankOf(b)

Spammers(p) ==
    InOrder({a \in Addr \ p.locals : PendingOf(p, a) > AccountSlots},
            LAMBDA a, b : Larger(p, a, b))

\* If too many transactions are pending, the largest accounts are cut to the
\* size of the next one, and in the end all to AccountSlots.
CutFirst(p, spam, q, k) ==
    Equalize(q, SubSeq(spam, 1, k),
             IF k = Len(spam) THEN AccountSlots ELSE PendingOf(p, spam[k + 1]))

CutSpammers(p, spam) ==
    FoldLeft(LAMBDA q, k : CutFirst(p, spam, q, k), p, [k \in DOMAIN spam |-> k])

LimitPending(p) == CutSpammers(p, Spammers(p))

\* An account loses its n queued transactions of highest nonce, or all.
DropQueued(p, txs, n) ==
    RemoveTxs(p, IF n = Len(txs) THEN txs
                 ELSE Reverse(SubSeq(txs, Len(txs) - n + 1, Len(txs))), TRUE)

\* If too many are queued, remote accounts lose theirs: the one with the
\* latest heartbeat first, those without any last.
Excess(p) == Cardinality(p.queue) - GlobalQueue

LimitAccount(accounts, p, a) ==
    IF a \notin accounts \/ Excess(p) =< 0 THEN p
    ELSE DropQueued(p, ByNonce(Of(p.queue, a)),
                    Min({Cardinality(Of(p.queue, a)), Excess(p)}))

LimitAccounts(p, accounts, order) ==
    FoldLeft(LAMBDA q, a : LimitAccount(accounts, q, a), p, Reverse(order))

LimitQueue(p) ==
    LET beating == ToSet(p.beats)
    IN  LimitAccounts(LimitAccounts(p, beating \ p.locals, p.beats),
                      Addr \ (beating \union p.locals), Accounts)

PromoteIn(accounts, p, a) == IF a \in accounts THEN promoteAccount(p, a) ELSE p

promoteExecutables(p, accounts) ==
    LimitQueue(LimitPending(
        FoldLeft(LAMBDA q, a : PromoteIn(accounts, q, a), p, Accounts)))

\* The result of add for t, with what came of the transactions before it.
AfterAdd(acc, result, t) ==
    [pool |-> result.pool,
     dirty |-> acc.dirty \union (IF result.dirty THEN {t.from} ELSE {})]

PromoteDirty(acc) ==
    IF acc.dirty = {} THEN acc.pool ELSE promoteExecutables(acc.pool, acc.dirty)

AddStep(local, acc, t) == AfterAdd(acc, add(acc.pool, t, local), t)

addTxsLocked(p, txs, local) ==
    PromoteDirty(FoldLeft(LAMBDA acc, t : AddStep(local, acc, t),
                          [pool |-> p, dirty |-> {}], txs))

-----------------------------------------------------------------------------
(* Following the chain *)

\* Mutant: a gap at the front is not looked for.
GappedNever(list, nonce) == {}

\* If the transaction with the state's nonce is missing, all have to wait.
Gapped(list, nonce) == IF \E t \in list : t.nonce = nonce THEN {} ELSE list

\* The part of demoteUnexecutables about one account: drop what is mined, ...
DropMined(p, a) ==
    LET old == Forward(Of(p.pending, a), StateNonce(p, a))
    IN  ForgetAll([p EXCEPT !.pending = @ \ old], old)

\* ... drop what cannot be paid, and move what comes after it to the queue, ...
DemoteUnpayable(p, a) ==
    LET drops    == {t \in Of(p.pending, a) : ~ Payable(p, t)}
        invalids == Invalids(Of(p.pending, a) \ drops, drops)
    IN  EnqueueTxs(ForgetAll([p EXCEPT !.pending = @ \ (drops \union invalids)], drops),
                   invalids)

\* ... and move all of it if there is a gap in front.
DemoteGapped(p, a) ==
    LET gapped == Gapped(Of(p.pending, a), StateNonce(p, a))
    IN  EnqueueTxs([p EXCEPT !.pending = @ \ gapped], gapped)

demote(p, a) ==
    IF Of(p.pending, a) = {} THEN p
    ELSE DropBeat(DemoteGapped(DemoteUnpayable(DropMined(p, a), a), a), a)

demoteUnexecutables(p) == FoldLeft(demote, p, Accounts)

\* The blocks from b down to the one at the lowest number.
BranchDown(b) ==
    LET down[n \in 0 .. Block[b].number] ==
            IF n = Block[b].number THEN b ELSE Block[down[n + 1]].parent
    IN  down

\* The blocks of the chain that ends in b that are not in the one of c, the
\* last one first.
Fork(b, c) ==
    LET own   == BranchDown(b)
        other == BranchDown(c)
        Apart(n) == n \notin DOMAIN other \/ own[n] # other[n]
        numbers == {n \in DOMAIN own : Apart(n)}
    IN  [i \in 1 .. Cardinality(numbers) |-> own[Block[b].number - i + 1]]

WithTxs(txs, b) == txs \o Block[b].txs

TxsOf(blocks) == FoldLeft(WithTxs, <<>>, blocks)

\* Mutant: nothing of the abandoned branch is put back.
ReinjectNothing(oldHead, newHead) == <<>>

\* types.TxDifference
KeepUnless(remove, keep, t) == IF t \in remove THEN keep ELSE Append(keep, t)

TxDifference(a, b) == FoldLeft(LAMBDA keep, t : KeepUnless(ToSet(b), keep, t), <<>>, a)

\* What a step of the head from one block to the other takes from the chain.
Reinject(oldHead, newHead) ==
    LET depth == Block[oldHead].number - Block[newHead].number
    IN  IF \/ oldHead = Block[newHead].parent
           \/ depth > MaxReorgDepth \/ -depth > MaxReorgDepth
          THEN <<>>
          ELSE TxDifference(TxsOf(Fork(oldHead, newHead)), TxsOf(Fork(newHead, oldHead)))

\* The next nonce of an account with pending transactions follows them.
UpdateNonces(p) ==
    [p EXCEPT !.pendingState = [a \in Addr |->
        IF Of(p.pending, a) = {} THEN @[a]
        ELSE Max({t.nonce : t \in Of(p.pending, a)}) + 1]]

PromoteAll(p) == promoteExecutables(p, {t.from : t \in p.queue})

\* reset, once the states and the transactions to reinject have been found.
reset(p, newHead, reinject) ==
    PromoteAll(UpdateNonces(demoteUnexecutables(addTxsLocked(
        [p EXCEPT !.currentState = newHead, !.pendingState = Block[newHead].nonce],
        reinject, FALSE))))

-----------------------------------------------------------------------------
(* The journal, and a new pool *)

\* The transactions of local accounts, as rotate writes them to a new file.
WriteAccount(p, txs, a) ==
    IF a \in p.locals THEN txs \o ByNonce(Of(p.pending, a)) \o ByNonce(Of(p.queue, a))
    ELSE txs

\* Mutant: only the executable ones are written.
localPending(p) == FoldLeft(LAMBDA txs, a : WriteAccount([p EXCEPT !.queue = {}], txs, a),
                            <<>>, Accounts)

local(p) == FoldLeft(LAMBDA txs, a : WriteAccount(p, txs, a), <<>>, Accounts)

rotate(p) == [p EXCEPT !.journal = local(p)]

\* NewTxPool on the file journal, with the chain at block b.  While the file
\* is loaded nothing is written to it; then it is rotated.
NewTxPool(journal, b) ==
    LET empty == [pending |-> {}, queue |-> {}, all |-> {}, items |-> <<>>,
                  stales |-> 0, pendingState |-> Block[b].nonce,
                  currentState |-> b, gasPrice |-> PriceLimit,
                  locals |-> {}, beats |-> <<>>, journal |-> journal]
        loaded == addTxsLocked(reset(empty, b, <<>>), journal, TRUE)
    IN  rotate(loaded)

Init ==
    /\ pool = NewTxPool(<<>>, Genesis)
    /\ head = Genesis
    /\ chainHead = Genesis
    /\ known = {Genesis}
    /\ chainHeadCh = {}

AddLocal(t) ==
    /\ pool' = addTxsLocked(pool, <<t>>, TRUE)
    /\ UNCHANGED <<head, chainHead, known, chainHeadCh>>

AddRemotes(txs) ==
    /\ pool' = addTxsLocked(pool, txs, FALSE)
    /\ UNCHANGED <<head, chainHead, known, chainHeadCh>>

SetGasPrice(price) ==
    /\ LET priced == [pool EXCEPT !.gasPrice = price]
       IN  pool' = DropFound(priced, CapPrice(priced))
    /\ UNCHANGED <<head, chainHead, known, chainHeadCh>>

EvictIn(accounts, p, a) ==
    IF a \in accounts THEN RemoveTxs(p, ByNonce(Of(p.queue, a)), TRUE) ELSE p

Evicted(p, accounts) == FoldLeft(LAMBDA q, a : EvictIn(accounts, q, a), p, Accounts)

\* The eviction tick of loop: the first n heartbeats are older than the
\* lifetime, and so is that of an account that never had one.
Evict ==
    /\ \E n \in 0 .. Len(pool.beats) :
          LET young == ToSet(SubSeq(pool.beats, n + 1, Len(pool.beats)))
              old   == Addr \ (pool.locals \union young)
          IN  pool' = Evicted(pool, old)
    /\ UNCHANGED <<head, chainHead, known, chainHeadCh>>

\* The journal tick of loop.
Rejournal ==
    /\ pool' = rotate(pool)
    /\ UNCHANGED <<head, chainHead, known, chainHeadCh>>

\* The chain moves to a new block that is not lighter, and announces it.
\* Blocks that are imported together are announced by the last one.  The
\* importer and the miner post their events outside all locks, so one event
\* may overtake another.
ChainHead(b) ==
    /\ b \notin known
    /\ Block[b].td >= Block[chainHead].td
    /\ Cardinality(chainHeadCh) < ChanSize
    /\ chainHead' = b
    /\ known' = known \union {b}
    /\ chainHeadCh' = chainHeadCh \union {b}
    /\ UNCHANGED <<pool, head>>

\* loop receives the event of the head b.
HeadEvent(b) ==
    /\ b \in chainHeadCh
    /\ pool' = reset(pool, b, Reinject(head, b))
    /\ head' = b
    /\ chainHeadCh' = chainHeadCh \ {b}
    /\ UNCHANGED <<chainHead, known>>

\* The same, but a block of the old or new branch or the state of the new
\* head is not in the database: reset returns early.
HeadEventFails(b) ==
    /\ b \in chainHeadCh \intersect Missing
    /\ head' = b
    /\ chainHeadCh' = chainHeadCh \ {b}
    /\ UNCHANGED <<pool, chainHead, known>>

\* repair goes back from the head b to a block whose state is on disk, which
\* may be any.
Repaired(b) == {BranchDown(b)[n] : n \in DOMAIN BranchDown(b)}

\* The node stops, without any warning, and starts again at block b: the
\* journal and the chain up to b are on disk, everything else is gone.
Restart(b) ==
    /\ b \in Repaired(chainHead)
    /\ pool' = NewTxPool(pool.journal, b)
    /\ head' = b
    /\ chainHead' = b
    /\ known' = {Genesis, b}
    /\ chainHeadCh' = {}

Next ==
    \/ \E t \in Submitted : AddLocal(t)
    \/ \E txs \in Batches : AddRemotes(txs)
    \/ \E price \in Prices : SetGasPrice(price)
    \/ Evict
    \/ Rejournal
    \/ \E b \in DOMAIN Block : ChainHead(b)
    \/ \E b \in chainHeadCh : HeadEvent(b)
    \/ \E b \in chainHeadCh : HeadEventFails(b)
    \/ \E b \in DOMAIN Block : Restart(b)

Spec == Init /\ [][Next]_vars

-----------------------------------------------------------------------------
(* What must hold *)

\* Every part of the pool has its type, the counter of stale entries of the
\* priced list is never taken below zero, and the pool follows known blocks.
PoolTypeOK ==
    /\ pool.pending \subseteq Tx /\ pool.queue \subseteq Tx /\ pool.all \subseteq Tx
    /\ ToSet(pool.items) \subseteq Tx
    /\ pool.stales \in Nat
    /\ pool.pendingState \in [Addr -> Nat]
    /\ pool.locals \subseteq Addr
    /\ ToSet(pool.beats) \subseteq Addr
    /\ ToSet(pool.journal) \subseteq Tx
    /\ {pool.currentState, head, chainHead} \subseteq known
    /\ known \subseteq DOMAIN Block

\* The lookup by hash finds exactly the transactions of the two lists, and no
\* nonce of an account is taken twice: removeTx finds a transaction by its
\* nonce, and looks among the pending ones first.
LookupAgrees ==
    /\ pool.all = pool.pending \union pool.queue
    /\ \A t, u \in pool.all : t.from = u.from /\ t.nonce = u.nonce => t = u

\* The pending transactions of an account are those from the nonce of the
\* state, without a gap, up to the nonce the pool would give out next: the
\* miner can execute all of them, in order.
PendingExecutable ==
    \A a \in Addr :
        /\ {t.nonce : t \in Of(pool.pending, a)} =
              StateNonce(pool, a) .. (pool.pendingState[a] - 1)
        /\ \A t \in Of(pool.pending, a) : Payable(pool, t)

\* The nonce that SendTransaction takes from the pool is not that of a
\* transaction that waits in the queue.
NextNonceFree ==
    \A t \in pool.queue : t.nonce # pool.pendingState[t.from]

\* The priced list has an entry for every transaction of the pool, however
\* many of its entries are stale, and counts at least the stale ones.
PricedComplete ==
    /\ pool.all \subseteq ToSet(pool.items)
    /\ Len(pool.items) - Cardinality(pool.all) =< pool.stales

\* Remote transactions do not fill the pool: not in total as long as nobody
\* is local, and not with executable ones beyond the guaranteed slots.
PoolBounded ==
    /\ pool.locals = {} => Cardinality(pool.all) =< GlobalSlots + GlobalQueue
    /\ Cardinality(pool.pending) > GlobalSlots =>
          \A a \in Addr \ pool.locals :
              Cardinality(Of(pool.pending, a)) =< AccountSlots

\* A journaled transaction of a local account leaves the pool only when it is
\* mined, can no longer be paid, or a dearer one takes its nonce.  No price
\* limit, full pool, eviction, reorganisation or restart drops it.
LocalsKept ==
    [][\A t \in pool.all \intersect ToSet(pool.journal) :
          t.from \in pool.locals =>
              \/ t \in pool'.all
              \/ t.nonce < Block[pool'.currentState].nonce[t.from]
              \/ t.cost > Block[pool'.currentState].balance[t.from]
              \/ t.gas > Block[pool'.currentState].gasLimit
              \/ \E u \in pool'.all : /\ u.from = t.from /\ u.nonce = t.nonce
                                      /\ u.price > t.price]_vars

\* What comes into the pool while its account is local is in the journal, and
\* stays there as long as it is in the pool.
LocalsJournaled ==
    [][\A t \in pool'.all :
          /\ t.from \in pool'.locals
          /\ t \in pool.all => Contains(pool.journal, t)
          => Contains(pool'.journal, t)]_vars

\* A transaction of a local account that a reorganisation takes off the chain
\* is in the pool again, unless it is on the new branch as well or no longer
\* valid, or the new head is too far from the old one.
ReorgReturnsLocals ==
    [][head' # head /\ HeadEvent(head') =>
          LET old == ToSet(TxsOf(Fork(head, Genesis)))
              new == ToSet(TxsOf(Fork(head', Genesis)))
              far == {Block[head].number - Block[head'].number,
                      Block[head'].number - Block[head].number}
          IN  \A t \in old \ new :
                  \/ t.from \notin pool.locals
                  \/ t.nonce < Block[head'].nonce[t.from]
                  \/ t.cost > Block[head'].balance[t.from]
                  \/ t.gas > Block[head'].gasLimit
                  \/ \E d \in far : d > MaxReorgDepth
                  \/ \E u \in pool'.all : u.from = t.from /\ u.nonce = t.nonce]_vars

=============================================================================
