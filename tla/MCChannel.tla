----------------------------- MODULE MCChannel ------------------------------
(* Channel with a few fibers and two dispatchers for TLC. *)
EXTENDS Channel

CONSTANTS p1, p2, w1, w2
=============================================================================
