CONSTANTS
  p1 = p1  p2 = p2
  Thieves = {p1, p2}
  Capacity = 1
  Pushes = 4
  SizeMax = 15
  PopFresh = FALSE
SPECIFICATION Spec
SYMMETRY Symmetry
INVARIANTS
  TakenOnce
  PopFindsElement
PROPERTY Implements
