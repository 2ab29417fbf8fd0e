SPECIFICATION Spec
CONSTANTS
  Nil = Nil
  Pairs = {p1, p2}
  Threads = {t1}
  Faults = TRUE
  SlowThreads = TRUE
  ReleaseRunning = FALSE
CHECK_DEADLOCK FALSE
SYMMETRY Symmetry
INVARIANTS
  AsioTypeOK
  SignalsOnlyHeldEvents
  StopHandshake
  DisposedMeansQuiet
