------------------------------ MODULE MCWorkers ------------------------------
(* Workers for TLC: two pools, as in main.cpp:251-265. *)
EXTENDS Workers, TLC

CONSTANTS m, t1, t2, a, b, f1, f2, f3

HomeOf == [f \in Fibers |-> IF f = f3 THEN b ELSE a]
Symmetry == Permutations(Threads \ External)
=============================================================================
