---------------------------- MODULE OneWayBarrier ---------------------------
(***************************************************************************)
(* np::one_way_barrier (synchronization/one_way_barrier.cpp): a fiber      *)
(* starts Size tasks that decrease the barrier when they are through, and  *)
(* waits for them; it may then reset the barrier and start over.           *)
(***************************************************************************)
EXTENDS Naturals, FiniteSets

CONSTANTS
  Tasks,    \* the tasks, which are started once in every round
  Rounds    \* bound on the number of waits, with a reset after each but the last

ASSUME ConstantsAssumption ==
  IsFiniteSet(Tasks) /\ Tasks # {} /\ Rounds \in Nat

VARIABLES
  size, fiber,      \* _size; whether _fiber is set
  pc,               \* of a task
  waiter, round,    \* the waiter's place, and how often it has waited
  unblocked         \* how often unblock was called and block has not returned

vars == <<size, fiber, pc, waiter, round, unblocked>>

Goto(k, from, to) == pc[k] = from /\ pc' = [pc EXCEPT ![k] = to]
WaiterGoto(from, to) == waiter = from /\ waiter' = to

Init ==
  /\ size = Cardinality(Tasks) /\ fiber = FALSE
  /\ pc = [k \in Tasks |-> "new"]
  /\ waiter = "body" /\ round = 1 /\ unblocked = 0

-----------------------------------------------------------------------------
(* Faulty variants of the steps below, which the properties at the end of  *)
(* the module must catch.  Next uses none of them.                         *)

\* Off by one: the last task but one takes itself for the last, too.
DecreaseEarly(k) ==
  /\ Goto(k, "work", IF size - 1 <= 1 THEN "look" ELSE "ended")
  /\ size' = size - 1
  /\ UNCHANGED <<fiber, waiter, round, unblocked>>

\* The last task does not wait for the waiter.
SeeNobody(k) ==
  /\ Goto(k, "look", IF fiber THEN "unblock" ELSE "ended")
  /\ UNCHANGED <<size, fiber, waiter, round, unblocked>>

-----------------------------------------------------------------------------
(* The waiter *)

Push(k) ==
  /\ waiter = "body" /\ Goto(k, "new", "work")
  /\ UNCHANGED <<size, fiber, waiter, round, unblocked>>

StoreFiber ==
  /\ \A k \in Tasks : pc[k] # "new"
  /\ WaiterGoto("body", "block")
  /\ fiber' = TRUE
  /\ UNCHANGED <<size, pc, round, unblocked>>

\* block and with it wait returns.
Resume ==
  /\ unblocked > 0 /\ WaiterGoto("block", "returned")
  /\ unblocked' = unblocked - 1
  /\ UNCHANGED <<size, fiber, pc, round>>

\* The tasks of the next round are new ones.
Reset ==
  /\ round < Rounds /\ WaiterGoto("returned", "body")
  /\ size' = Cardinality(Tasks) /\ fiber' = FALSE
  /\ pc' = [k \in Tasks |-> IF pc[k] = "ended" THEN "new" ELSE pc[k]]
  /\ round' = round + 1
  /\ UNCHANGED unblocked

-----------------------------------------------------------------------------
(* A task *)

\* if (--_size == 0)
Decrease(k) ==
  /\ Goto(k, "work", IF size - 1 = 0 THEN "look" ELSE "ended")
  /\ size' = size - 1
  /\ UNCHANGED <<fiber, waiter, round, unblocked>>

\* The loop that yields until there is a waiter.
SeeWaiter(k) ==
  /\ fiber /\ Goto(k, "look", "unblock")
  /\ UNCHANGED <<size, fiber, waiter, round, unblocked>>

Unblock(k) ==
  /\ Goto(k, "unblock", "ended")
  /\ unblocked' = unblocked + 1
  /\ UNCHANGED <<size, fiber, waiter, round>>

-----------------------------------------------------------------------------
WaiterStep == StoreFiber \/ Resume
TaskStep(k) == Decrease(k) \/ SeeWaiter(k) \/ Unblock(k)

Finished == round = Rounds /\ waiter = "returned" /\ UNCHANGED vars

Next ==
  \/ WaiterStep \/ Reset \/ Finished
  \/ \E k \in Tasks : Push(k) \/ TaskStep(k)

Spec == Init /\ [][Next]_vars

-----------------------------------------------------------------------------
\* When wait returns, every task has done its work and none will touch the barrier
\* again, so that the waiter may reset it, or let it go out of scope as main_fiber
\* does (main.cpp:173-180).
ReturnsLast == waiter = "returned" => \A k \in Tasks : pc[k] = "ended"

\* unblock is called once in every round, and only once _fiber is set.
UnblockedOnce ==
  /\ unblocked <= 1 /\ (unblocked > 0 => waiter = "block")
  /\ \A k, l \in Tasks : pc[k] \in {"look", "unblock"} /\ pc[l] \in {"look", "unblock"}
                           => k = l

\* wait returns, even if every task has decreased the barrier before.
WaitReturns == waiter = "block" ~> waiter = "returned"
=============================================================================
