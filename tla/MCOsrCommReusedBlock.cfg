SPECIFICATION Spec
CONSTANTS
  Clients = {c1, c2}
  Workers = {w1}
  Blocks = {b1, b2}
  Control = control
  Nil = Nil
  IdLimit = 4
  MaxRequests = 2
  ResourceFaults = FALSE
  ControlCloses = FALSE
  DataCloses = TRUE
SYMMETRY Symmetry
INVARIANTS
  DeliversWhatItRemoved
