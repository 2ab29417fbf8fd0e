SPECIFICATION Spec
CONSTANTS
  Clients = {c1, c2}
  Workers = {w1, w2}
  Blocks = {b1, b2}
  Control = control
  Nil = Nil
  IdLimit = 4
  MaxRequests = 3
  ResourceFaults = TRUE
  ControlCloses = TRUE
  DataCloses = FALSE
SYMMETRY Symmetry
INVARIANTS
  TypeOK
  LocksHeldOnlyInside
  ServiceIrpAccounted
