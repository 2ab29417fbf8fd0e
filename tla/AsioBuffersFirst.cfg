SPECIFICATION Spec
CONSTANTS
  Nil = Nil
  MaxChannels = 3
INVARIANT FirstHalfLoops
