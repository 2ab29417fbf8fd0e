SPECIFICATION Spec
CONSTANTS
  Clients = {c1, c2}
  Workers = {w1, w2}
  Blocks = {b1, b2}
  Control = control
  Nil = Nil
  IdLimit = 4
  MaxRequests = 2
  ResourceFaults = FALSE
  ControlCloses = TRUE
  DataCloses = TRUE
SYMMETRY Symmetry
INVARIANTS
  NoMissedRendezvous
PROPERTY CompletedOnce
