SPECIFICATION Spec
CONSTANTS
    TestModes = {"SIMULATION_DP", "SIMULATION_LOS", "SIMULATION_FRENET", "SIMULATION_AVOIDANCE"}
INVARIANTS
    GridSpeedPositive
