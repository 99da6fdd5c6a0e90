SPECIFICATION FairSpec
CHECK_DEADLOCK FALSE
CONSTANTS
    Routes <- MCRoutes
    Offsets <- MCOffsets
    Sea <- MCSea
    los_radius = 4
    los_capture_radius = 2
    capture_radius = 3
    desired_speed = 2
INVARIANTS
    TypeOK
    EveryWaypointVisited
    KeepsToLeg
PROPERTIES
    ReachesDestination
