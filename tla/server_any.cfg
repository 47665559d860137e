\* Torn, lost, failing and late: whatever can go wrong.
SPECIFICATION ServerSpec
CONSTANTS
    Users <- MCUsers
    Cars <- MCCars
    NbAccounts = 2
    MaxChunk = 5
    ShortReads = TRUE
    MayFail = TRUE
    MayTimeOut = TRUE
    AwaitCars = FALSE
    Ids = 2
    MaxMessages = 2
INVARIANTS
    ServerTypeOK
    MinedInOrder
    SameContract
    RecordsTrue
PROPERTIES
    DiesOnlyEarly
\* The users may have nothing more to send.
CHECK_DEADLOCK FALSE
