CONSTANTS
  k1 = k1  k2 = k2  k3 = k3  c1 = c1  c2 = c2  None = None  Main = Main
  Tasks = {k1, k2, k3}
  Parents = {k1}
  Nested = {k2}
  Stopper = k3
  Rounds = 2
  Fibers = 3
  Consumers = {c1, c2}
  CountMax = 7
SPECIFICATION MainFairSpec
CONSTRAINT Timely
INVARIANTS
  WaitsForAllUntilHasty
  UnblocksOnceUntilHasty
  PendingExact
  NothingLeftBehind
  SleepsForAReason
PROPERTIES
  WaitReturns
  JoinReturns
