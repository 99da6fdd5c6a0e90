SPECIFICATION FairSpec
CONSTANTS
    TestModes = {"SIMULATION_DP", "SIMULATION_LOS", "SIMULATION_FRENET", "SIMULATION_AVOIDANCE",
                 "EXPERIMENT_DP", "EXPERIMENT_LOS", "EXPERIMENT_AVOIDANCE"}
INVARIANTS
    TypeOK
    StartOrder
    RouteCaptured
    StateHasFix
    CommandsGrounded
PROPERTIES
    WashedOut
    ThreadsStart
