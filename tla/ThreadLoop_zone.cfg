SPECIFICATION Spec
CONSTANTS
    TestModes = {"EXPERIMENT_DP", "EXPERIMENT_LOS", "EXPERIMENT_FRENET", "EXPERIMENT_AVOIDANCE"}
INVARIANTS
    StateInPlanningZone
