---------------------------- MODULE MCFiberPool ----------------------------
(* FiberPool on a handful of threads, fibers and tasks for TLC. *)
EXTENDS FiberPool, TLC

CONSTANTS m, w1, w2, f1, f2, f3, f4, k1, k2, k3

Symmetry ==
  Permutations(Initial) \cup Permutations(Fibers \ Initial)
    \cup Permutations(Tasks) \cup Permutations(Workers \ {Main})
=============================================================================
