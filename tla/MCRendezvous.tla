---------------------------- MODULE MCRendezvous ----------------------------
(* Rendezvous with four tasks for TLC. *)
EXTENDS Rendezvous

CONSTANTS k1, k2, k3, k4
=============================================================================
