------------------------------ MODULE Counter -------------------------------
(***************************************************************************)
(* np::counter (synchronization/counter.hpp, counter.cpp) with the calls   *)
(* the pool makes on it: push increases it, a fiber calls done when its    *)
(* function has returned.  One fiber pushes tasks, waits for them, resets  *)
(* the counter and starts over.  The pool is taken at its contract: a      *)
(* queued task runs when a fiber is free for it, and block returns once    *)
(* unblock has been called.  ++_done == _size is evaluated from left to    *)
(* right.                                                                  *)
(***************************************************************************)
EXTENDS Naturals, FiniteSets

CONSTANTS
  Tasks,      \* the functions that may be pushed with the counter, once each
  Parents,    \* those that themselves push tasks with the counter
  Rounds,     \* bound on the number of waits, with a reset after each but the last
  Fibers      \* the number of fibers of the pool, the waiter's included

ASSUME ConstantsAssumption ==
  /\ IsFiniteSet(Tasks) /\ Parents \subseteq Tasks
  /\ Rounds \in Nat /\ Fibers \in Nat

VARIABLES
  size, done, fiber,   \* _size, _done; whether _fiber is set
  pc, reg,             \* of a task: its place, and the counter value it has read
  waiter, round,       \* the waiter's place, and how often it has waited
  unblocked,           \* how often unblock was called and block has not returned
  hasty                \* history: reset has been called while a task was in done

counter == <<size, done, fiber>>
vars == <<counter, pc, reg, waiter, round, unblocked, hasty>>

Goto(k, from, to) == pc[k] = from /\ pc' = [pc EXCEPT ![k] = to]
WaiterGoto(from, to) == waiter = from /\ waiter' = to

\* The tasks that occupy a fiber.
Started == {k \in Tasks : pc[k] \notin {"new", "queued", "ended"}}

Init ==
  /\ size = 0 /\ done = 0 /\ fiber = FALSE
  /\ pc = [k \in Tasks |-> "new"] /\ reg = [k \in Tasks |-> 0]
  /\ waiter = "body" /\ round = 1 /\ unblocked = 0
  /\ hasty = FALSE

-----------------------------------------------------------------------------
(* Faulty variants of the steps below, one for each property at the end of *)
(* the module, which must catch it.  Next uses none of them.               *)

\* A task's push does not increase the counter.
PushUncounted(p, k) ==
  /\ p \in Parents /\ pc[p] = "run"
  /\ Goto(k, "new", "queued")
  /\ UNCHANGED <<counter, reg, waiter, round, unblocked, hasty>>

\* done does not wait for the waiter.
SeeNobody(k) ==
  /\ Goto(k, "done", "count")
  /\ UNCHANGED <<counter, reg, waiter, round, unblocked, hasty>>

\* _done++ == _size
ComparePrevious(k) ==
  /\ Goto(k, "compare", IF reg[k] - 1 = size THEN "unblock" ELSE "ended")
  /\ UNCHANGED <<counter, reg, waiter, round, unblocked, hasty>>

-----------------------------------------------------------------------------
(* The waiter *)

Push(k) ==
  /\ waiter = "body" /\ Goto(k, "new", "queued")
  /\ size' = size + 1
  /\ UNCHANGED <<done, fiber, reg, waiter, round, unblocked, hasty>>

\* With nothing to wait for, wait returns at once.
Wait ==
  /\ WaiterGoto("body", IF size = 0 THEN "returned" ELSE "store")
  /\ UNCHANGED <<counter, pc, reg, round, unblocked, hasty>>

StoreFiber ==
  /\ WaiterGoto("store", "block")
  /\ fiber' = TRUE
  /\ UNCHANGED <<size, done, pc, reg, round, unblocked, hasty>>

\* block and with it wait returns.
Resume ==
  /\ unblocked > 0 /\ WaiterGoto("block", "returned")
  /\ unblocked' = unblocked - 1
  /\ UNCHANGED <<counter, pc, reg, round, hasty>>

\* Nothing keeps the waiter from resetting the counter before the last tasks have left
\* done: wait returns as soon as one of them has called unblock.
Reset ==
  /\ round < Rounds /\ WaiterGoto("returned", "body")
  /\ size' = 0 /\ done' = 0 /\ fiber' = FALSE
  /\ round' = round + 1
  /\ hasty' = (hasty \/ \E k \in Tasks : pc[k] \notin {"new", "ended"})
  /\ UNCHANGED <<pc, reg, unblocked>>

-----------------------------------------------------------------------------
(* A task *)

Start(k) ==
  /\ Cardinality(Started) + 1 < Fibers /\ Goto(k, "queued", "run")
  /\ UNCHANGED <<counter, reg, waiter, round, unblocked, hasty>>

PushFrom(p, k) ==
  /\ p \in Parents /\ pc[p] = "run"
  /\ Goto(k, "new", "queued")
  /\ size' = size + 1
  /\ UNCHANGED <<done, fiber, reg, waiter, round, unblocked, hasty>>

\* The function has returned: fiber::execute calls done.
Return(k) ==
  /\ Goto(k, "run", "done")
  /\ UNCHANGED <<counter, reg, waiter, round, unblocked, hasty>>

\* The loop of done_impl that yields until there is a waiter.
SeeWaiter(k) ==
  /\ fiber /\ Goto(k, "done", "count")
  /\ UNCHANGED <<counter, reg, waiter, round, unblocked, hasty>>

Increment(k) ==
  /\ Goto(k, "count", "compare")
  /\ done' = done + 1
  /\ reg' = [reg EXCEPT ![k] = done + 1]
  /\ UNCHANGED <<size, fiber, waiter, round, unblocked, hasty>>

Compare(k) ==
  /\ Goto(k, "compare", IF reg[k] = size THEN "unblock" ELSE "ended")
  /\ UNCHANGED <<counter, reg, waiter, round, unblocked, hasty>>

Unblock(k) ==
  /\ Goto(k, "unblock", "ended")
  /\ unblocked' = unblocked + 1
  /\ UNCHANGED <<counter, reg, waiter, round, hasty>>

-----------------------------------------------------------------------------
WaiterStep == StoreFiber \/ Resume

TaskStep(k) ==
  \/ Start(k) \/ Return(k) \/ SeeWaiter(k) \/ Increment(k) \/ Compare(k)
  \/ Unblock(k)

\* Nothing is left to do.
Finished ==
  /\ waiter = "returned" /\ \A k \in Tasks : pc[k] \in {"new", "ended"}
  /\ UNCHANGED vars

Next ==
  \/ Wait \/ WaiterStep \/ Reset \/ Finished
  \/ \E k \in Tasks : Push(k) \/ TaskStep(k) \/ \E p \in Tasks : PushFrom(p, k)

Spec == Init /\ [][Next]_vars

-----------------------------------------------------------------------------
\* Every variable has its type.
TypeOK ==
  /\ size \in Nat /\ done \in Nat /\ fiber \in BOOLEAN
  /\ pc \in [Tasks -> {"new", "queued", "run", "done", "count", "compare",
                       "unblock", "ended"}]
  /\ reg \in [Tasks -> Nat]
  /\ waiter \in {"body", "store", "block", "returned"}
  /\ round \in Nat /\ unblocked \in Nat /\ hasty \in BOOLEAN

Counted(k) == pc[k] \in {"compare", "unblock", "ended"}

\* When wait returns, every task pushed so far has returned, those pushed by tasks
\* included (main.cpp:193: wait, then an assert that everything has been counted).
WaitReturnsDone ==
  waiter = "returned" => \A k \in Tasks : pc[k] = "new" \/ Counted(k)

\* The waiter is unblocked once, and only while it waits: an unblock at any other time
\* puts a running fiber into the pool's queue, where the dispatcher takes it for one that
\* is "yet in the process of yielding" (fiber_pool.hpp:487).
UnblockedOnlyWaiting ==
  /\ unblocked <= 1
  /\ unblocked > 0 => waiter = "block"

\* The waiter is unblocked when all tasks pushed so far have returned, which is what it
\* waits for ("counter.wait(); assert(executor_count == max_iters * 2)", main.cpp:202).
UnblockedWhenDone ==
  unblocked > 0 => /\ waiter = "block"
                   /\ \A k \in Tasks : pc[k] = "new" \/ Counted(k)

\* WaitReturnsDone and UnblockedOnlyWaiting hold until a reset finds a task in done; in particular up to the first reset.
WaitsForAllUntilHasty == hasty \/ WaitReturnsDone
UnblocksOnceUntilHasty == hasty \/ UnblockedOnlyWaiting

\* Until then wait returns, with no more than one fiber beside the waiter's to run the
\* tasks.
WaitReturns == waiter = "block" ~> waiter = "returned" \/ hasty
=============================================================================
