SPECIFICATION KmdfSpec
CONSTANTS
  Apps = {a1, a2}
  Handles = {h1, h2}
  Buffers = {b1, b2}
  None = None
  Ops <- AddressTableOps
  Faults = {"send"}
  MaxResets = 1
  InlineBus = TRUE
INVARIANTS EveryBlockHasOneOwner
