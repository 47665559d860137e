\* More users than cars.
SPECIFICATION Spec
CONSTANTS
    NbBlockCarUser = 4
    NbBlockCar = 1
    StartWork <- MCStartWork
    EndWork <- MCEndWork
    HoursPerDay = 4
    LastDay = 1
    MaxWait = 1
    SentinelInReach = FALSE
    RidesFitInAnHour = TRUE
INVARIANT
    NoError
\* stopSim pauses the simulation and an error ends it.
CHECK_DEADLOCK FALSE
