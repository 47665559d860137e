\* Two people with a car each, two stops, one road, hours of one cycle.
SPECIFICATION FairSpec
CONSTANTS
    NbPeople = 2
    NbStops = 2
    NbBuildings = 2
    NbRoads = 1
    Hours = 4
    Minutes = 1
    Rows <- MCRows
    BuildingsFor <- MCBuildingsFor
    Homes = {1}
    NearestStop <- MCNearestStop
    HasCar = {1, 2}
    HasBike = {2}
INVARIANTS
    TypeOK
    WaitsOrRidesOnce
    NotOvercounted
PROPERTIES
    LetOffAtNearestStop
    TripsEnd
