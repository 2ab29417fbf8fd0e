SPECIFICATION ReflectorSpec
CONSTANTS
  LoadFaults = {"memory", "names"}
  EarlyStop = TRUE
CHECK_DEADLOCK FALSE
PROPERTY StopEnds
