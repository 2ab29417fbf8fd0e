SPECIFICATION ReflectorSpec
CONSTANTS
  LoadFaults = {}
  EarlyStop = FALSE
CHECK_DEADLOCK FALSE
INVARIANT NoBlockIsFreedTwice
