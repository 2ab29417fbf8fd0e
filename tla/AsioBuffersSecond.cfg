SPECIFICATION Spec
CONSTANTS
  Nil = Nil
  MaxChannels = 2
INVARIANT SecondHalfLoops
