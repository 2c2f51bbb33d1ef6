CONSTANTS
  k1 = k1  k2 = k2  k3 = k3  k4 = k4
  Tasks = {k1, k2, k3, k4}
  Rounds = 2
  Size = 3
  CountMax = 7
  IgnoreResult = FALSE
SPECIFICATION ProgramFairSpec
INVARIANTS
  PassTogether
  NobodyStranded
  ReturnsLast
PROPERTIES
  WaitReturns
  Implements
