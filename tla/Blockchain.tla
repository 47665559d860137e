----------------------------- MODULE Blockchain -----------------------------
(***************************************************************************)
(* The block chain of a geth node (core/blockchain.go): which of the known *)
(* blocks is the head, which block has a number, where a transaction is    *)
(* found, and what of it survives a restart.                               *)
(*                                                                         *)
(* Two goroutines write.  The importer runs insertChain, which holds       *)
(* chainmu, and the miner's resultLoop (miner/worker.go) does not: both    *)
(* call WriteBlockWithState, which holds mu.  While one is inside, the     *)
(* other still reads CurrentBlock, and the process may die between any two *)
(* writes to the database.  A step is one such write.                      *)
(*                                                                         *)
(* Blocks arrive with valid headers.  A chain is shorter than              *)
(* triesInMemory (128), so that states leave the memory only with the      *)
(* process, and no two blocks have the same state.                         *)
(***************************************************************************)
EXTENDS Integers, SequencesExt, FiniteSets

CONSTANTS
    Blocks,     \* all blocks that anybody makes
    Genesis,    \* the block every chain starts with
    Line,       \* Line[b]: the chain of b, from Genesis to b
    Td,         \* Td[b]: the total difficulty of the chain of b
    Body,       \* Body[b]: the transactions of b
    Own,        \* the blocks that this node's miner seals
    Bad,        \* the blocks whose execution fails
    Imports,    \* the sequences of blocks that peers deliver
    Archive,    \* cacheConfig.Disabled: every state goes to disk at once
    NoBlock     \* nil

TriesInMemory == 128

ASSUME TreeAssumption ==
    /\ Genesis \in Blocks /\ Line[Genesis] = <<Genesis>>
    /\ NoBlock \notin Blocks
    /\ Own \cap Bad = {} /\ Own \cup Bad \subseteq Blocks \ {Genesis}
    /\ Line \in [Blocks -> Seq(Blocks)]
    /\ Td \in [Blocks -> Nat]
    /\ \A b \in Blocks : Len(Line[b]) <= TriesInMemory
    /\ \A b \in Blocks \ {Genesis} :
        /\ Len(Line[b]) > 1
        /\ Line[b] = Append(Line[Line[b][Len(Line[b]) - 1]], b)
        /\ Td[b] > Td[Line[b][Len(Line[b]) - 1]]

\* A transaction has a nonce: no chain contains it twice.
ASSUME BodyAssumption ==
    /\ Body[Genesis] = {}
    /\ \A b \in Blocks : \A i, j \in DOMAIN Line[b] :
        i # j => Body[Line[b][i]] \cap Body[Line[b][j]] = {}

\* The importer delivers linked sequences and no block of this node's own.
ASSUME ImportsAssumption ==
    /\ Archive \in BOOLEAN
    /\ \A chain \in Imports :
        /\ chain \in Seq(Blocks \ (Own \cup {Genesis})) /\ chain # <<>>
        /\ \A i \in 2..Len(chain) :
            Line[chain[i]] = Append(Line[chain[i - 1]], chain[i])

VARIABLES
    db,         \* the database
    current,    \* currentBlock: what CurrentBlock returns
    cache,      \* the blocks whose state is in memory only
    frames,     \* the calls of insertChain: the last one runs
    tasks,      \* pendingTasks: the blocks that are being sealed
    write,      \* the call of WriteBlockWithState that holds mu
    pending,    \* the head events that PostChainEvents is about to send
    announced,  \* the heads that subscribers know of
    aborted,    \* the blocks that became the head in an import that failed
    stopped,    \* Stop has been called
    unclean,    \* a process has ended inside a write, or while the state of
                \* its head was not on disk
    torn        \* ... between the two writes of insert, below the head

vars == <<db, current, cache, frames, tasks, write, pending, announced,
          aborted, stopped, unclean, torn>>

Txs == UNION {Body[b] : b \in Blocks}
Number(b) == Len(Line[b]) - 1
Numbers == {Number(b) : b \in Blocks}
Parent(b) == Line[b][Len(Line[b]) - 1]
NoWrite == [by |-> "nobody"]

Init ==
    /\ db = [blocks   |-> {Genesis},
             canon    |-> [n \in Numbers |-> IF n = 0 THEN Genesis ELSE NoBlock],
             head     |-> Genesis,
             lookup   |-> [t \in Txs |-> NoBlock],
             receipts |-> {Genesis},
             states   |-> {Genesis}]
    /\ current = Genesis
    /\ cache = {}
    /\ frames = <<>>
    /\ tasks = {}
    /\ write = NoWrite
    /\ pending = {}
    /\ announced = {Genesis}
    /\ aborted = {}
    /\ stopped = FALSE
    /\ unclean = FALSE
    /\ torn = FALSE

HasState(b) == b \in db.states \cup cache
HasBlockAndState(b) == b \in db.blocks /\ HasState(b)

\* The call of insertChain that runs.
Top == frames[Len(frames)]
SetTop(frame) == [frames EXCEPT ![Len(frames)] = frame]

-----------------------------------------------------------------------------
(* WriteBlockWithState and reorg, inside mu. *)

\* Whether b becomes the head: the heavier block, then the lower one, then the
\* own one, then the toss of a coin.
MayWin(b) ==
    IF Td[b] # Td[current] THEN {Td[b] > Td[current]}
    ELSE IF Number(b) # Number(current) THEN {Number(b) < Number(current)}
    ELSE IF current \in Own THEN {FALSE}
    ELSE IF b \in Own THEN {TRUE} ELSE BOOLEAN

\* Where reorg finds the common block, walking down both chains.
CommonBlock(old, new) ==
    Max({i \in DOMAIN Line[new] : i \in DOMAIN Line[old] /\ Line[old][i] = Line[new][i]})

\* Mutant: only the new head is inserted.
NewChainHeadOnly(old, new) == <<new>>
\* The blocks that reorg inserts, in their order.
NewChain(old, new) == SubSeq(Line[new], CommonBlock(old, new) + 1, Len(Line[new]))

BodiesOf(bs) == UNION {Body[b] : b \in bs}

\* Mutant: the difference is taken the wrong way round.
TxDifferenceSwapped(old, new) ==
    BodiesOf(ToSet(NewChain(old, new))) \ BodiesOf(ToSet(NewChain(new, old)))
\* The transactions that only the abandoned blocks have.
TxDifference(old, new) ==
    BodiesOf(ToSet(NewChain(new, old))) \ BodiesOf(ToSet(NewChain(old, new)))

WriteTxLookupEntries(lookup, b) ==
    [t \in Txs |-> IF t \in Body[b] THEN b ELSE lookup[t]]

\* The call takes mu, stores the block with its difficulty and its state, and
\* decides whether it becomes the head.  A head whose parent is not the head
\* so far needs a reorg.
WriteBlock(by, b) ==
    /\ write = NoWrite
    /\ \E wins \in MayWin(b) :
        LET reorg == wins /\ Parent(b) # current IN
        write' = [by |-> by, block |-> b, old |-> current, wins |-> wins,
                  step |-> IF reorg THEN "canon" ELSE "batch", batched |-> FALSE,
                  todo |-> IF reorg THEN NewChain(current, b) ELSE <<>>]
    /\ db' = [db EXCEPT !.blocks = @ \cup {b},
                        !.states = IF Archive THEN @ \cup {b} ELSE @]
    /\ cache' = IF Archive THEN cache ELSE cache \cup {b}

\* insert, in two writes: the block gets its number, ...
InsertCanon ==
    /\ write # NoWrite /\ write.step = "canon"
    /\ LET b == Head(write.todo) IN
        db' = [db EXCEPT !.canon[Number(b)] = b]
    /\ write' = [write EXCEPT !.step = "head"]
    /\ UNCHANGED <<current, cache, frames, tasks, pending, announced, aborted, stopped, unclean, torn>>

\* Mutant: a sealed block that needs a reorg is not announced.
MinedHeadInLine(won) ==
    IF won /\ Parent(write.block) = write.old THEN {write.block} ELSE {}
\* The head event that resultLoop posts for its block.
MinedHead(won) == IF won THEN {write.block} ELSE {}

\* The call returns its status: the miner posts the head event of its block,
\* the importer keeps the block for the end of its batch.
Return(won) ==
    /\ write' = NoWrite
    /\ IF write.by = "miner"
       THEN /\ pending' = pending \cup MinedHead(won)
            /\ UNCHANGED frames
       ELSE /\ frames' = SetTop([Top EXCEPT !.at = @ + 1, !.doing = "next",
                    !.lastCanon = IF won THEN write.block ELSE @])
            /\ UNCHANGED pending

\* ... and becomes the head.  After the batch the call is over.
InsertHead ==
    /\ write # NoWrite /\ write.step = "head"
    /\ db' = [db EXCEPT !.head = Head(write.todo)]
    /\ current' = Head(write.todo)
    /\ \/ write.batched /\ Return(TRUE)
       \/ /\ ~write.batched
          /\ write' = [write EXCEPT !.step = "lookup"]
          /\ UNCHANGED <<frames, pending>>
    /\ UNCHANGED <<cache, tasks, announced, aborted, stopped, unclean, torn>>

\* Mutant: the loop runs once more.
AfterLookupLate(todo) == IF todo # <<>> THEN "canon" ELSE "delete"
AfterLookup(todo) == IF Tail(todo) # <<>> THEN "canon" ELSE "delete"

\* reorg, after each insert: the lookup entries of the inserted block.
ReorgLookup ==
    /\ write # NoWrite /\ write.step = "lookup"
    /\ db' = [db EXCEPT !.lookup = WriteTxLookupEntries(@, Head(write.todo))]
    /\ write' = [write EXCEPT !.todo = Tail(@),
                                 !.step = AfterLookup(write.todo)]
    /\ UNCHANGED <<current, cache, frames, tasks, pending, announced, aborted, stopped, unclean, torn>>

\* reorg, at its end: the lookup entries of transactions that got lost.
ReorgDelete ==
    /\ write # NoWrite /\ write.step = "delete"
    /\ db' = [db EXCEPT !.lookup = [t \in Txs |->
                IF t \in TxDifference(write.old, write.block) THEN NoBlock ELSE @[t]]]
    /\ write' = [write EXCEPT !.step = "batch"]
    /\ UNCHANGED <<current, cache, frames, tasks, pending, announced, aborted, stopped, unclean, torn>>

\* The batch: the receipts and, for a new head, its lookup entries.  A block
\* on a side chain is done with it.
WriteBatch ==
    /\ write # NoWrite /\ write.step = "batch"
    /\ db' = [db EXCEPT !.receipts = @ \cup {write.block},
                        !.lookup = IF write.wins
                                   THEN WriteTxLookupEntries(@, write.block) ELSE @]
    /\ \/ ~write.wins /\ Return(FALSE)
       \/ /\ write.wins
          /\ write' = [write EXCEPT !.step = "canon", !.batched = TRUE,
                                    !.todo = <<write.block>>]
          /\ UNCHANGED <<frames, pending>>
    /\ UNCHANGED <<current, cache, tasks, announced, aborted, stopped, unclean, torn>>

WriteStep == InsertCanon \/ InsertHead \/ ReorgLookup \/ ReorgDelete \/ WriteBatch

-----------------------------------------------------------------------------
(* The importer: insertChain and InsertChain. *)

Frame(chain) ==
    [chain |-> chain, at |-> 1, doing |-> "next", lastCanon |-> NoBlock, heads |-> {}]

Block == Top.chain[Top.at]

\* After Stop, procInterrupt ends the call before its first block.
InsertChain(chain) ==
    /\ frames = <<>> /\ ~stopped
    /\ frames' = <<Frame(chain)>>
    /\ UNCHANGED <<db, current, cache, tasks, write, pending, announced, aborted, stopped, unclean, torn>>

\* The importer runs unless it is inside WriteBlockWithState.
Importing(doing) ==
    /\ frames # <<>> /\ Top.doing = doing /\ Top.at <= Len(Top.chain)
    /\ write = NoWrite \/ write.by # "importer"

\* Block and state are known and the head is not below: nothing to do.
SkipKnown ==
    /\ Importing("next")
    /\ HasBlockAndState(Block) /\ Number(current) >= Number(Block)
    /\ frames' = SetTop([Top EXCEPT !.at = @ + 1])
    /\ UNCHANGED <<db, current, cache, tasks, write, pending, announced, aborted, stopped, unclean, torn>>

\* The block is new and its parent's state is there, or it is known but the
\* head was rolled back below it.
Accept ==
    /\ Importing("next")
    /\ IF HasBlockAndState(Block) THEN Number(current) < Number(Block)
       ELSE HasBlockAndState(Parent(Block))
    /\ frames' = SetTop([Top EXCEPT !.doing = "process"])
    /\ UNCHANGED <<db, current, cache, tasks, write, pending, announced, aborted, stopped, unclean, torn>>

PrunedAncestor ==
    /\ Importing("next")
    /\ ~HasBlockAndState(Block)
    /\ Parent(Block) \in db.blocks /\ ~HasState(Parent(Block))

\* Mutant: a block as heavy as the head or up to one heavier is set aside.
LosesToHeadLate(b) == Td[current] + 1 >= Td[b]
LosesToHead(b) == Td[current] > Td[b]

\* The parent's state is not there and the head is heavier: the block is
\* stored without being executed.
WriteBlockWithoutState ==
    /\ PrunedAncestor /\ LosesToHead(Block)
    /\ db' = [db EXCEPT !.blocks = @ \cup {Block}]
    /\ frames' = SetTop([Top EXCEPT !.at = @ + 1])
    /\ UNCHANGED <<current, cache, tasks, write, pending, announced, aborted, stopped, unclean, torn>>

\* Otherwise its ancestors without a state are imported first, in a call of
\* its own.
ImportWinner ==
    /\ PrunedAncestor /\ ~LosesToHead(Block)
    /\ LET from == Max({i \in 1..Number(Block) : HasState(Line[Block][i])})
       IN frames' = Append(SetTop([Top EXCEPT !.doing = "process"]),
                           Frame(SubSeq(Line[Block], from + 1, Number(Block))))
    /\ UNCHANGED <<db, current, cache, tasks, write, pending, announced, aborted, stopped, unclean, torn>>

\* The block is executed on its parent's state and written.
Process ==
    /\ Importing("process")
    /\ Block \notin Bad /\ HasState(Parent(Block))
    /\ WriteBlock("importer", Block)
    /\ UNCHANGED <<current, frames, tasks, pending, announced, aborted, stopped, unclean, torn>>

\* The parent is unknown, or the execution fails: all calls return, with the
\* events of the last one, which has no event of a new head.
ImportFails ==
    /\ \/ Importing("next") /\ ~HasBlockAndState(Block) /\ Parent(Block) \notin db.blocks
       \/ Importing("process") /\ Block \in Bad
    /\ frames' = <<>>
    /\ pending' = pending \cup Top.heads
    /\ aborted' = aborted \cup ({frames[i].lastCanon : i \in DOMAIN frames} \ {NoBlock})
    /\ UNCHANGED <<db, current, cache, tasks, write, announced, stopped, unclean, torn>>

\* The end of a batch: one event for the last new head, if it is still the
\* head.  The caller of the batch goes on with these events only.
ImportEnds ==
    /\ frames # <<>> /\ Top.at > Len(Top.chain)
    /\ LET heads == Top.heads \cup ({Top.lastCanon} \cap {current}) IN
        IF Len(frames) = 1
        THEN frames' = <<>> /\ pending' = pending \cup heads
        ELSE /\ frames' = [i \in 1..(Len(frames) - 1) |->
                    IF i < Len(frames) - 1 THEN frames[i]
                    ELSE [frames[i] EXCEPT !.heads = heads]]
             /\ UNCHANGED pending
    /\ UNCHANGED <<db, current, cache, tasks, write, announced, aborted, stopped, unclean, torn>>

\* PostChainEvents, outside of all locks.  Stop ends all subscriptions.
PostHeadEvent(b) ==
    /\ b \in pending
    /\ pending' = pending \ {b}
    /\ announced' = IF stopped THEN announced ELSE announced \cup {b}
    /\ UNCHANGED <<db, current, cache, frames, tasks, write, aborted, stopped, unclean, torn>>

ImportStep ==
    \/ \E chain \in Imports : InsertChain(chain)
    \/ SkipKnown \/ Accept \/ WriteBlockWithoutState \/ ImportWinner \/ Process
    \/ ImportFails \/ ImportEnds
    \/ \E b \in pending : PostHeadEvent(b)

-----------------------------------------------------------------------------
(* The miner. *)

\* The worker starts to seal a block on what is the head at this moment.
CommitNewWork(b) ==
    /\ b \notin tasks \cup db.blocks
    /\ Parent(b) = current /\ HasState(current)
    /\ tasks' = tasks \cup {b}
    /\ UNCHANGED <<db, current, cache, frames, write, pending, announced, aborted, stopped, unclean, torn>>

\* resultLoop: a sealed block, however late, is written.
Sealed(b) ==
    /\ b \in tasks
    /\ WriteBlock("miner", b)
    /\ tasks' = tasks \ {b}
    /\ UNCHANGED <<current, frames, pending, announced, aborted, stopped, unclean, torn>>

-----------------------------------------------------------------------------
(* The end of the process and its next start. *)

\* repair: the last block of the stored head's chain whose state is on disk.
RepairedHead(disk) ==
    LET line == Line[disk.head]
    IN line[Max({i \in DOMAIN line : line[i] \in disk.states})]

\* NewBlockChain on the given database; the subscribers start from its head.
LoadLastState(disk) ==
    /\ db' = disk
    /\ current' = RepairedHead(disk)
    /\ cache' = {}
    /\ frames' = <<>>
    /\ tasks' = {}
    /\ write' = NoWrite
    /\ pending' = {}
    /\ announced' = {current'}
    /\ aborted' = {}

\* Stop waits for the writers inside and ends the import.  Unless states go to
\* disk anyway, those of the head and of the block before it are saved; nobody
\* reads the others again.  The miner is stopped later, so that a sealed block
\* may still be written.
Stop ==
    /\ ~stopped /\ write = NoWrite
    /\ frames = <<>> \/ (Len(frames) = 1 /\ Top.doing = "next")
    /\ LET saved == {db.canon[Number(current) - offset] :
                        offset \in {o \in {0, 1} : Number(current) > o}}
       IN db' = [db EXCEPT !.states = IF Archive THEN @ ELSE @ \cup (saved \cap cache)]
    /\ frames' = <<>> /\ pending' = {} /\ stopped' = TRUE
    /\ UNCHANGED <<current, cache, tasks, write, announced, aborted, unclean, torn>>

\* The process ends, after Stop or without it; what is in the database stays.
Restart ==
    /\ LoadLastState(db)
    /\ stopped' = FALSE
    /\ unclean' = (unclean \/ write # NoWrite \/ current \notin db.states)
    /\ torn' = (torn \/ (/\ write # NoWrite /\ write.step = "head"
                         /\ Number(Head(write.todo)) <= Number(db.head)))

Next ==
    \/ WriteStep
    \/ ImportStep
    \/ \E b \in Own : CommitNewWork(b) \/ Sealed(b)
    \/ Stop
    \/ Restart

Spec == Init /\ [][Next]_vars

-----------------------------------------------------------------------------
(* Properties. *)

\* Every part of the state has its type, calls of insertChain are inside their
\* batches, and a write has blocks to insert exactly while it inserts.
ChainTypeOK ==
    /\ db.blocks \subseteq Blocks /\ db.receipts \subseteq db.blocks
    /\ db.states \subseteq db.blocks /\ cache \subseteq db.blocks
    /\ db.canon \in [Numbers -> Blocks \cup {NoBlock}]
    /\ db.lookup \in [Txs -> Blocks \cup {NoBlock}]
    /\ db.head \in db.blocks /\ current \in db.blocks
    /\ \A i \in DOMAIN frames :
        /\ frames[i].at \in 1..(Len(frames[i].chain) + 1)
        /\ frames[i].lastCanon \in db.blocks \cup {NoBlock}
    /\ tasks \subseteq Own \ db.blocks
    /\ pending \cup announced \cup aborted \subseteq db.blocks
    /\ stopped => frames = <<>>
    /\ write # NoWrite =>
        /\ write.block \in db.blocks
        /\ (write.todo # <<>>) <=> (write.step \in {"canon", "head", "lookup"})
        /\ write.by = "importer" => frames # <<>> /\ write.block = Block

\* GetBlockByNumber walks the chain of the head: the number index is linked
\* from the genesis block to CurrentBlock, during a reorg, after it and after
\* a crash, except between the two writes of one insert; and the state of the
\* head is there whenever no writer is inside.
CanonLinked ==
    /\ ~torn /\ (write # NoWrite => write.step # "head") =>
        \A n \in 0..Number(current) : db.canon[n] = Line[current][n + 1]
    /\ write = NoWrite => HasState(current)

\* When no writer is inside, GetTransactionReceipt finds exactly the
\* transactions of the head's chain, and their receipts.  An unclean end may
\* leave entries behind, but no receipt of the head's chain is missing on a
\* node that keeps states in memory.
IndexExact ==
    write = NoWrite =>
        /\ ~unclean => \A t \in Txs :
            db.lookup[t] = IF \E b \in ToSet(Line[current]) : t \in Body[b]
                           THEN CHOOSE b \in ToSet(Line[current]) : t \in Body[b]
                           ELSE NoBlock
        /\ ~unclean \/ ~Archive => ToSet(Line[current]) \subseteq db.receipts

\* No known block is heavier than the head, although the importer compares
\* with a head that the miner may be replacing: a block that was set aside or
\* skipped never was the better one.  A restart that rolls the head back may
\* leave heavier blocks behind, be it after a crash or because a block was
\* sealed after Stop had saved its states.
HeadHeaviest ==
    write = NoWrite /\ ~unclean => \A b \in db.blocks : Td[b] <= Td[current]

\* The transaction pool and the miner follow ChainHeadEvent: when nobody works
\* and no event is on its way, the head has been announced, whoever of
\* importer and miner wrote last.  An import that fails after it made progress
\* leaves its head unannounced.
HeadAnnounced ==
    (~stopped /\ write = NoWrite /\ frames = <<>> /\ pending = {}) =>
        current \in announced \cup aborted

=============================================================================
