\* Nothing fails and the users start when the contracts have been deployed.
SPECIFICATION ServerSpec
CONSTANTS
    Users <- MCUsers
    Cars <- MCCars
    NbAccounts = 2
    MaxChunk = 5
    ShortReads = FALSE
    MayFail = FALSE
    MayTimeOut = FALSE
    AwaitCars = TRUE
    Ids = 2
    MaxMessages = 2
INVARIANT
    RightContract
\* The users may have nothing more to send.
CHECK_DEADLOCK FALSE
