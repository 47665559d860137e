\* One person (people do not interact), all times, one reset a day.
SPECIFICATION Spec
CONSTANTS
    NbPeople = 1
    CyclesPerHour = 2
    ResetPeriod = 48
    ClockPeriod = 48
    WorkStarts <- MCWorkStarts
    LunchStarts <- MCLunchStarts
    ReworkStarts <- MCReworkStarts
    DinnerStarts <- MCDinnerStarts
    WorkEnds <- MCWorkEnds
INVARIANTS
    PeopleTypeOK
    GoesWhereItShould
    DayIsLived
