CONSTANTS
  p1 = p1  p2 = p2  w1 = w1  w2 = w2  Consumer = Consumer  None = None
  Producers = {p1, p2}
  Workers = {w1, w2}
  Pushes = 2
  Pops = 5
  CountMax = 15
SPECIFICATION Spec
CHECK_DEADLOCK FALSE
INVARIANT OneThread
