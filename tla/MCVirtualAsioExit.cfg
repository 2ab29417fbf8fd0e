SPECIFICATION Spec
CONSTANTS
  Nil = Nil
  Pairs = {p1, p2}
  Threads = {t1, t2}
  Faults = FALSE
  SlowThreads = FALSE
  ReleaseRunning = TRUE
CHECK_DEADLOCK FALSE
SYMMETRY Symmetry
INVARIANT ExitStops
