\* The same, but the second transaction of the branch that is abandoned pays
\* less than the first, and the pool may ask for more than it pays; head events
\* come one by one and no state is missing.
SPECIFICATION Spec
CONSTANTS
    ann = ann
    bob = bob
    cat = cat
    MinedPrice = 1
    Accounts <- MCAccounts
    PriceBump = 10
    Block <- MCBlock
    Genesis = "g"
    Tx <- MCTx
    Batches <- MCBatches
    Submitted <- MCSubmitted
    PriceLimit = 1
    Prices = {1, 2}
    AccountSlots = 1
    GlobalSlots = 2
    AccountQueue = 1
    GlobalQueue = 2
    MaxReorgDepth = 64
    ChanSize = 1
    Missing = {}
INVARIANT
    PendingExecutable
