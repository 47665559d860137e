\* Two branches, an importer, a miner, crashes and restarts.
SPECIFICATION Spec
CONSTANTS
    Blocks <- MCBlocks
    Genesis = "g"
    Line <- MCLine
    Td <- MCTd
    Body <- MCBody
    Own = {"m2"}
    Bad = {"x3"}
    Imports <- MCImports
    Archive = FALSE
    NoBlock = NoBlock
INVARIANTS
    ChainTypeOK
    CanonLinked
    IndexExact
    HeadHeaviest
    HeadAnnounced
