\* A car for every user, rides of any length.
SPECIFICATION Spec
CONSTANTS
    NbBlockCarUser = 3
    NbBlockCar = 3
    StartWork <- MCStartWork
    EndWork <- MCEndWork
    HoursPerDay = 4
    LastDay = 1
    MaxWait = 1
    SentinelInReach = FALSE
    RidesFitInAnHour = FALSE
INVARIANTS
    OneCarPerUser
    NoError
\* stopSim pauses the simulation and an error ends it.
CHECK_DEADLOCK FALSE
