SPECIFICATION ReflectorSpec
CONSTANTS
  LoadFaults = {"memory", "names"}
  EarlyStop = FALSE
CHECK_DEADLOCK FALSE
INVARIANTS ReflectorType UnloadedLeavesNothing LoopHoldsNothing
PROPERTY StopEnds
