\* Too few cars, any geometry, rides of any length.
SPECIFICATION FairSpec
CONSTANTS
    NbBlockCarUser = 3
    NbBlockCar = 1
    StartWork <- MCStartWork
    EndWork <- MCEndWork
    HoursPerDay = 4
    LastDay = 1
    MaxWait = 1
    SentinelInReach = TRUE
    RidesFitInAnHour = FALSE
INVARIANTS
    TypeOK
    CarListsAgree
    RidesWellFormed
PROPERTIES
    ImplementsRideLog
    CarsComeBack
\* stopSim pauses the simulation and an error ends it.
CHECK_DEADLOCK FALSE
