--------------------------- MODULE TaskScheduler ---------------------------
(***************************************************************************)
(* What the fiber pool promises the code that uses it, with no fibers, no  *)
(* queues and no dispatcher: a pushed task is pending until one of the     *)
(* worker threads runs it; it runs on one thread at a time; it may yield,  *)
(* or park itself until somebody wakes it; it finishes exactly once.       *)
(* The synchronization primitives are written against this contract, and   *)
(* FiberPool is shown to implement it.                                     *)
(***************************************************************************)
EXTENDS Naturals, FiniteSets

CONSTANTS
  Workers,   \* the threads that run tasks
  Tasks      \* the functions handed to push

VARIABLE phase

Phases == {"new", "pending", "running", "parked", "done"}

TypeOK == phase \in [Tasks -> Phases]

Init == phase = [k \in Tasks |-> "new"]

Move(k, from, to) ==
  /\ phase[k] = from
  /\ phase' = [phase EXCEPT ![k] = to]

Running == {k \in Tasks : phase[k] = "running"}

\* fiber_pool::push: the task is in the pool's hands.
Push(k) == Move(k, "new", "pending")

\* A dispatcher resumes the fiber of the task: there is a thread to run it.
Run(k) ==
  /\ Cardinality(Running) < Cardinality(Workers)
  /\ Move(k, "pending", "running")

\* this_fiber::yield
Yield(k) == Move(k, "running", "pending")

\* The task has put its fiber where a waker can find it.
Park(k) == Move(k, "running", "parked")

\* fiber_pool_base::unblock
Wake(k) == Move(k, "parked", "pending")

Finish(k) == Move(k, "running", "done")

Next ==
  \E k \in Tasks :
    Push(k) \/ Run(k) \/ Yield(k) \/ Park(k) \/ Wake(k) \/ Finish(k)

Spec == Init /\ [][Next]_phase
=============================================================================
