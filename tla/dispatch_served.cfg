\* A car for every user, rides that fit in an hour, two days.
SPECIFICATION FairSpec
CONSTANTS
    NbBlockCarUser = 2
    NbBlockCar = 2
    StartWork <- MCStartWork
    EndWork <- MCEndWork
    HoursPerDay = 4
    LastDay = 2
    MaxWait = 1
    SentinelInReach = FALSE
    RidesFitInAnHour = TRUE
INVARIANT
    DestinationRecorded
PROPERTIES
    EndHourAfterRide
    UsersServed
\* stopSim pauses the simulation and an error ends it.
CHECK_DEADLOCK FALSE
