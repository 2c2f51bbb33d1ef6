------------------------------- MODULE Barrier ------------------------------
(***************************************************************************)
(* np::barrier (synchronization/barrier.cpp): a barrier of size n opens    *)
(* for n + 1 fibers, one of which finds the other n in its list.  It must  *)
(* be reset, when all have passed, before it is used again.  Rendezvous    *)
(* says when the fibers arrive, and who resets it.                         *)
(***************************************************************************)
EXTENDS Naturals, FiniteSets

CONSTANTS
  Fibers,   \* the fibers that call wait, once between two resets
  Size,     \* of the barrier
  CountMax  \* the largest size_t

VARIABLES
  waiting,         \* _waiting
  list,            \* _waiting_fibers
  woken,           \* the fibers unblock was called for that have not left block yet
  pc               \* of a fiber: its place

vars == <<waiting, list, woken, pc>>

Minus(n) == (n + CountMax) % (CountMax + 1)
Goto(f, from, to) == pc[f] = from /\ pc' = [pc EXCEPT ![f] = to]

Init ==
  /\ waiting = Size /\ list = {} /\ woken = {}
  /\ pc = [f \in Fibers |-> "work"]

-----------------------------------------------------------------------------
(* Faulty variants of the steps below, which the properties at the end of  *)
(* the module must catch.  Next uses none of them.                         *)

\* The last arrival does not wait until the others are in the list.
SeeSome(f) ==
  /\ Goto(f, "look", "open")
  /\ UNCHANGED <<waiting, list, woken>>

\* The last arrival wakes one fiber.
OpenOne(f) ==
  /\ \E g \in list : /\ list' = list \ {g} /\ woken' = woken \cup {g}
                     /\ Goto(f, "open", "passed")
  /\ UNCHANGED waiting

-----------------------------------------------------------------------------
\* if (--_waiting == 0)
Arrive(f) ==
  /\ Goto(f, "work", IF Minus(waiting) = 0 THEN "look" ELSE "enqueue")
  /\ waiting' = Minus(waiting)
  /\ UNCHANGED <<list, woken>>

\* The loop that yields until _size fibers are in the list.
SeeAll(f) ==
  /\ Cardinality(list) = Size /\ Goto(f, "look", "open")
  /\ UNCHANGED <<waiting, list, woken>>

\* One fiber of the list is unblocked, or none is left.
Open(f) ==
  /\ \/ \E g \in list : /\ list' = list \ {g} /\ woken' = woken \cup {g}
                        /\ pc[f] = "open" /\ UNCHANGED pc
     \/ list = {} /\ Goto(f, "open", "passed") /\ UNCHANGED <<list, woken>>
  /\ UNCHANGED waiting

Enqueue(f) ==
  /\ Goto(f, "enqueue", "block")
  /\ list' = list \cup {f}
  /\ UNCHANGED <<waiting, woken>>

\* block and with it wait returns.
Resume(f) ==
  /\ f \in woken /\ Goto(f, "block", "passed")
  /\ woken' = woken \ {f}
  /\ UNCHANGED <<waiting, list>>

Reset ==
  /\ \A f \in Fibers : pc[f] = "passed"
  /\ waiting' = Size
  /\ pc' = [f \in Fibers |-> "work"]
  /\ UNCHANGED <<list, woken>>

-----------------------------------------------------------------------------
Step(f) == Arrive(f) \/ SeeAll(f) \/ Open(f) \/ Enqueue(f) \/ Resume(f)

-----------------------------------------------------------------------------
\* No fiber passes the barrier before all have arrived at it.
PassTogether ==
  (\E f \in Fibers : pc[f] = "passed") => \A f \in Fibers : pc[f] # "work"

\* A fiber that has blocked is in the list or has been unblocked; when the barrier is
\* reset nobody is in the list (barrier.cpp:16, the assert of reset), nor still to be
\* resumed.
NobodyStranded ==
  /\ \A f \in Fibers : pc[f] = "block" => f \in list \cup woken
  /\ (\A f \in Fibers : pc[f] = "passed") => list = {} /\ woken = {}
  /\ \A f \in Fibers : pc[f] = "open" => \A g \in Fibers : pc[g] # "enqueue"
=============================================================================
