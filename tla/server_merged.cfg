\* The users start when the contracts have been deployed and do not wait for
\* the server: messages are merged and torn, but nothing fails.
SPECIFICATION FairServerSpec
CONSTANTS
    Users <- MCUsers
    Cars <- MCOneCar
    NbAccounts = 2
    MaxChunk = 5
    ShortReads = FALSE
    MayFail = FALSE
    MayTimeOut = FALSE
    AwaitCars = TRUE
    Ids = 2
    MaxMessages = 4
INVARIANTS
    LossBounded
PROPERTIES
    NoEndIgnored
    EndRecorded
\* The users may have nothing more to send.
CHECK_DEADLOCK FALSE
