CONSTANTS
  m = m  w1 = w1  w2 = w2  f1 = f1  f2 = f2  f3 = f3  f4 = f4  k1 = k1  k2 = k2  k3 = k3
  Workers = {m, w1, w2}
  Fibers = {f1, f2}
  Initial = {f1, f2}
  MaxFibers = 2
  Tasks = {k1, k2, k3}
  Track = FALSE
  Main = m
  NoFiber = NoFiber
  NoTask = NoTask
SPECIFICATION Spec
SYMMETRY Symmetry
INVARIANTS
  TypeOK
  ExclusiveRun
  NoDuplicate
  StatusKnown
  TaskConserved
  ExitDrains
  LeakOnlyBlocked
