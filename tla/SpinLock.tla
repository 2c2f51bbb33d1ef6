------------------------------ MODULE SpinLock ------------------------------
(***************************************************************************)
(* np::spinlock (synchronization/spinlock.hpp).  The clock is not modelled *)
(* any further than that it may have passed the deadline of lock at any    *)
(* look at it.                                                             *)
(***************************************************************************)
EXTENDS Naturals

CONSTANTS
  Threads,        \* that use the lock
  IgnoreResult    \* whether callers take the lock for theirs when lock timed out,
                  \* as f1_spinlock and f2_spinlock do (main.cpp:92)

VARIABLES
  lock,   \* _lock
  pc      \* of a thread: its place

vars == <<lock, pc>>

Goto(p, from, to) == pc[p] = from /\ pc' = [pc EXCEPT ![p] = to]

Init == lock = FALSE /\ pc = [p \in Threads |-> "idle"]

-----------------------------------------------------------------------------
(* Faulty variants of the steps below, which the properties at the end of  *)
(* the module must catch.  Next uses none of them.                         *)

\* try_lock stores without looking at what it has replaced.
TryByStore(p) ==
  /\ Goto(p, "try", "locked")
  /\ lock' = TRUE

-----------------------------------------------------------------------------
CallLock(p) == Goto(p, "idle", "exchange") /\ UNCHANGED lock

\* _lock.exchange(true)
Exchange(p) ==
  /\ Goto(p, "exchange", IF lock THEN "spin" ELSE "locked")
  /\ lock' = TRUE

\* The inner loop sees the lock free,
SpinSeesFree(p) ==
  /\ ~lock /\ Goto(p, "spin", "exchange")
  /\ UNCHANGED lock

\* or taken, and then looks at the clock.
SpinTimesOut(p) ==
  /\ lock /\ Goto(p, "spin", IF IgnoreResult THEN "locked" ELSE "idle")
  /\ UNCHANGED lock

\* try_lock
TryLoad(p) ==
  /\ Goto(p, "idle", IF lock THEN "idle" ELSE "try")
  /\ UNCHANGED lock

TryExchange(p) ==
  /\ Goto(p, "try", IF lock THEN "idle" ELSE "locked")
  /\ lock' = TRUE

Unlock(p) ==
  /\ Goto(p, "locked", "idle")
  /\ lock' = FALSE

-----------------------------------------------------------------------------
\* What a thread does once it has called lock or try_lock.
Step(p) == Exchange(p) \/ SpinSeesFree(p) \/ TryExchange(p) \/ Unlock(p)

Next ==
  \E p \in Threads : CallLock(p) \/ TryLoad(p) \/ SpinTimesOut(p) \/ Step(p)

Spec == Init /\ [][Next]_vars

-----------------------------------------------------------------------------
Holders == {p \in Threads : pc[p] = "locked"}

\* The assert of unlock: "Can't unlock a non-locked mutex" (spinlock.hpp:72).
UnlockFindsLocked == Holders # {} => lock

Contract == INSTANCE AbstractLock WITH
  Fibers <- Threads, owners <- Holders, asleep <- {}

\* One owner at a time, with lock, its timeout and try_lock in any order.
Implements == Contract!Spec
=============================================================================
