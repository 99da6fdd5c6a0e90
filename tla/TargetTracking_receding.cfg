SPECIFICATION Spec
CONSTANTS
    SlotCounts = {3}
    Places = {0, 1, 2, 3, 4}
    MaxClusters = 2
    Scenes <- MCScenes
    p_radius = 1
    speed_threhold = 1
    max_speed = 3
    max_acceleration = 3
    safe_distance = 1
    Radii = {TRUE}
    VesselAt = 2
    VesselSpeed = 1
INVARIANTS
    RecedingIsSafe
