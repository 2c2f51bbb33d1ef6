CONSTANTS
  f1 = f1  f2 = f2  f3 = f3  f4 = f4
  Fibers = {f1, f2, f3, f4}
  TryLockers = {f3, f4}
SPECIFICATION FairSpec
CHECK_DEADLOCK FALSE
INVARIANTS
  MutualExclusion
  OneEntryPerCall
  OwnerWillWake
PROPERTIES
  Implements
  WaiterWoken
  LockProgress
