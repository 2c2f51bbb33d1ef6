CONSTANTS
  m = m  t1 = t1  t2 = t2  a = a  b = b  f1 = f1  f2 = f2  f3 = f3
  Threads = {m, t1, t2}
  External = {m}
  Pools = {a, b}
  Fibers = {f1, f3}
  Home <- HomeOf
  Slots = 5
  MaxStarts = 4
  MaxSpawned = 1
  None = None
SPECIFICATION Spec
CHECK_DEADLOCK FALSE
SYMMETRY Symmetry
INVARIANTS
  IndexIsOwn
  ThisFiberIsMe
  LoopIsOwn
  DispatchersDieOnce
  FiberInOnePlace
