---------------------------- MODULE MCMainPoolB -----------------------------
(* MainPoolB with a few tasks and consumers for TLC. *)
EXTENDS MainPoolB

CONSTANTS k1, k2, k3, c1, c2

\* The properties that depend on the program's order claim nothing after a hasty reset or
\* a late start, so that TLC need not go on from there.
Timely == ~hasty /\ ~late
=============================================================================
