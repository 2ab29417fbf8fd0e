SPECIFICATION KmdfSpec
CONSTANTS
  Apps = {a1, a2}
  Handles = {h1}
  Buffers = {b1}
  None = None
  Ops <- AddressTableOps
  Faults = {"memory", "bus", "start", "generation", "item", "send", "notify"}
  MaxResets = 3
  InlineBus = FALSE
INVARIANTS KmdfType GenerationIsCurrent
SYMMETRY Symmetry
