SPECIFICATION Spec
CONSTANTS
  Programs <- MCAll
  Typed <- MCTyped
  InputFails = TRUE
  MaxKeys = 2
  MaxMessages = 12
INVARIANTS TypeOK BlockCanLift SimulationFollowsGripper
PROPERTIES GateSound OnlySimulatedPoses SimulatesPlan
CHECK_DEADLOCK FALSE
