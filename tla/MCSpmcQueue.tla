---------------------------- MODULE MCSpmcQueue -----------------------------
(* SpmcQueue with two thieves for TLC. *)
EXTENDS SpmcQueue, TLC

CONSTANTS p1, p2

Symmetry == Permutations(Thieves)
=============================================================================
