SPECIFICATION KmdfSpec
CONSTANTS
  Apps = {a1, a2}
  Handles = {h1, h2}
  Buffers = {b1, b2}
  None = None
  Ops <- AddressTableOps
  Faults = {"memory", "bus", "start", "generation", "notify"}
  MaxResets = 1
  InlineBus = TRUE
INVARIANTS AddressListIsTheBusLedger EveryBlockHasOneOwner GenerationIsCurrent
PROPERTIES NoRequestSleepsThroughAReset ImplementsTable
