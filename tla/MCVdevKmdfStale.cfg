SPECIFICATION KmdfSpec
CONSTANTS
  Apps = {a1, a2}
  Handles = {h1}
  Buffers = {b1}
  None = None
  Ops <- AddressTableOps
  Faults = {}
  MaxResets = 2
  InlineBus = TRUE
INVARIANTS CountFollowsEveryReset
