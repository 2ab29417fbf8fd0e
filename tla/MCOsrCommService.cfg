SPECIFICATION FairSpec
CONSTANTS
  Clients = {c1, c2}
  Workers = {w1, w2}
  Blocks = {b1, b2}
  Control = control
  Nil = Nil
  IdLimit = 4
  MaxRequests = 4
  ResourceFaults = FALSE
  ControlCloses = FALSE
  DataCloses = FALSE
INVARIANT EveryRequestHasOnePlace
PROPERTIES
  PromiseKept
  EveryCallReturns
