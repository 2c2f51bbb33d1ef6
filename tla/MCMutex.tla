------------------------------ MODULE MCMutex ------------------------------
(* Mutex on a handful of fibers for TLC. *)
EXTENDS Mutex

CONSTANTS f1, f2, f3, f4
=============================================================================
