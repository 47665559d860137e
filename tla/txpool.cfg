\* Three accounts, two branches of the chain, and a pool of two executable
\* and two queued transactions; head events overtake each other.
SPECIFICATION Spec
CONSTANTS
    ann = ann
    bob = bob
    cat = cat
    MinedPrice = 3
    Accounts <- MCAccounts
    PriceBump = 10
    Block <- MCBlock
    Genesis = "g"
    Tx <- MCTx
    Batches <- MCBatches
    Submitted <- MCSubmitted
    PriceLimit = 1
    Prices = {1, 3}
    AccountSlots = 1
    GlobalSlots = 2
    AccountQueue = 1
    GlobalQueue = 2
    MaxReorgDepth = 64
    ChanSize = 2
    Missing = {"y"}
INVARIANTS
    PoolTypeOK
    LookupAgrees
    PendingExecutable
    NextNonceFree
    PricedComplete
    PoolBounded
PROPERTIES
    LocalsKept
    LocalsJournaled
    ReorgReturnsLocals
