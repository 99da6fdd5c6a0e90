SPECIFICATION Spec
CONSTANTS
    SlotCounts = {2, 3}
    Places = {0, 2, 5, 6, 8}
    MaxClusters = 2
    Scenes <- MCScenes
    p_radius = 2
    speed_threhold = 1
    max_speed = 3
    max_acceleration = 3
    safe_distance = 9
    Radii = {TRUE, FALSE}
    VesselAt = 2
    VesselSpeed = 1
INVARIANTS
    TypeOK
    NoDuplicates
PROPERTIES
    CoastsOnce
    PictureComplete
    ContinuingTargetStays
