SPECIFICATION HybridSpec
CONSTANTS
  Windows = {w1}
  Programs = {p1}
  Apps = {w1, p1}
  Handles = {h1}
  Buffers = {b1}
  None = None
  Ops <- AllOps
  ClientOps <- RacingOps
  Faults = {"memory", "bus", "start"}
  MaxResets = 0
  MaxListed = 1
  InlineBus = TRUE
INVARIANTS HybridType IsochRecordsAreLive CromMatchesTheBus EveryBlockHasOneOwner
PROPERTIES EveryCallReturns RemovalEnds
