SPECIFICATION Spec
CONSTANTS
  Clients = {c1}
  Workers = {w1}
  Blocks = {b1}
  Control = control
  Nil = Nil
  IdLimit = 4
  MaxRequests = 1
  ResourceFaults = TRUE
  ControlCloses = TRUE
  DataCloses = FALSE
SYMMETRY Symmetry
INVARIANTS
  NoDoubleCompletion
