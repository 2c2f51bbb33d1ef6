------------------------------- MODULE Channel ------------------------------
(***************************************************************************)
(* np::channel (ext/channel.hpp) over np::event (synchronization/          *)
(* event.cpp): any number of producers and one consumer.                   *)
(*                                                                         *)
(* notify unblocks the consumer's fiber again and again, whether it is     *)
(* blocked or not, so that fiber goes through the dispatchers of the pool  *)
(* (pool/fiber_pool.hpp), as in FiberPool but with any number of entries   *)
(* of it in _awaiting_fibers, and through the waiting list of the mutex,   *)
(* whose lock tries again whoever woke it.  Towards the producers the      *)
(* mutex is taken at its contract (AbstractLock).                          *)
(***************************************************************************)
EXTENDS Naturals, FiniteSets

CONSTANTS
  Producers,   \* the fibers that push
  Consumer,    \* the fiber that pops
  Workers,     \* the threads whose dispatchers may take the consumer
  None,        \* no fiber
  Pushes,      \* bound on the number of pushes by one producer
  Pops,        \* bound on the number of pops
  CountMax     \* the largest uint32_t

ASSUME ConstantsAssumption ==
  /\ IsFiniteSet(Producers) /\ Consumer \notin Producers /\ None \notin Producers
  /\ Consumer # None /\ Pushes \in Nat /\ Pops \in Nat /\ CountMax \in Nat
  /\ Workers # {}

VARIABLES
  owner,            \* of _mutex
  listed,           \* how often the consumer is in the waiting list of _mutex
  pending,          \* _pending
  queued,           \* the number of values in _queue
  awaiter,          \* whether _awaiter is set
  pc, pushed,       \* of a producer: its place, and how often it has pushed
  popped,           \* how often the consumer has popped
  entries,          \* how often the consumer is in _awaiting_fibers
  exec,             \* its _execution_status
  at,               \* of a worker: its place in the dispatcher, "on" the consumer's stack
  blocking          \* the consumer is in block, and still on its thread

channel == <<pending, queued, awaiter, pushed, popped>>
pool    == <<entries, exec, at, blocking>>
vars    == <<owner, listed, pc, channel, pool>>

Fibers == Producers \cup {Consumer}
Plus(n) == (n + 1) % (CountMax + 1)
Minus(n) == (n + CountMax) % (CountMax + 1)
Goto(f, from, to) == pc[f] = from /\ pc' = [pc EXCEPT ![f] = to]
\* Two dispatchers have resumed the consumer.  What its stack holds is undefined
\* from here on: the consumer and the dispatchers stop in the model.
Torn ==
  \E v, w \in Workers : v # w /\ at[v] \in {"on", "back"} /\ at[w] \in {"on", "back"}

\* A dispatcher has resumed the consumer, which is not leaving again.
Runs == ~Torn /\ ~blocking /\ \E w \in Workers : at[w] = "on"

Turn(w, from, to) == ~Torn /\ at[w] = from /\ at' = [at EXCEPT ![w] = to]

Init ==
  /\ owner = None /\ listed = 0
  /\ pending = 0 /\ queued = 0 /\ awaiter = FALSE
  /\ pc = [f \in Fibers |-> "idle"]
  /\ pushed = [p \in Producers |-> 0] /\ popped = 0
  /\ entries = 0 /\ exec = "executing" /\ blocking = FALSE
  /\ \E w \in Workers : at = [v \in Workers |-> IF v = w THEN "on" ELSE "loop"]

-----------------------------------------------------------------------------
(* Faulty variants of the steps below, which the properties at the end of  *)
(* the module must catch.  Next uses none of them.                         *)

\* push_blocking does not notify.
NotifyNobody(p) ==
  /\ Goto(p, "notify", "push unlock")
  /\ UNCHANGED <<owner, listed, channel, pool>>

-----------------------------------------------------------------------------
(* _mutex *)

\* lock returns.
Lock(f) ==
  /\ f = Consumer => Runs
  /\ owner = None /\ owner' = f
  /\ \/ Goto(f, "push lock", "count") \/ Goto(f, "pop lock", "look")
     \/ Goto(f, "wait lock", "take")
  /\ UNCHANGED <<listed, channel, pool>>

\* lock finds the mutex taken: the consumer enters the list and blocks, and is in the
\* list twice if somebody else's unblock made it try again.
Enlist ==
  /\ Runs /\ pc[Consumer] \in {"pop lock", "wait lock"} /\ owner # None
  /\ listed' = listed + 1
  /\ blocking' = TRUE
  /\ UNCHANGED <<owner, pc, channel, entries, exec, at>>

\* unlock unblocks the fibers in the list.
Unlock ==
  /\ owner' = None /\ listed' = 0
  /\ entries' = entries + listed

-----------------------------------------------------------------------------
(* push and pop, which count nothing and may be mixed with the others *)

Push(p) ==
  /\ pushed[p] < Pushes /\ pc[p] = "idle"
  /\ queued' = queued + 1
  /\ pushed' = [pushed EXCEPT ![p] = @ + 1]
  /\ UNCHANGED <<owner, listed, pc, pending, awaiter, popped, pool>>

Pop ==
  /\ Runs /\ popped < Pops /\ pc[Consumer] = "idle" /\ queued > 0
  /\ queued' = queued - 1
  /\ popped' = popped + 1
  /\ UNCHANGED <<owner, listed, pc, pending, awaiter, pushed, pool>>

-----------------------------------------------------------------------------
(* push_blocking *)

Enqueue(p) ==
  /\ pushed[p] < Pushes /\ Goto(p, "idle", "push lock")
  /\ queued' = queued + 1
  /\ pushed' = [pushed EXCEPT ![p] = @ + 1]
  /\ UNCHANGED <<owner, listed, pending, awaiter, popped, pool>>

Count(p) ==
  /\ Goto(p, "count", "notify")
  /\ pending' = Plus(pending)
  /\ UNCHANGED <<owner, listed, queued, awaiter, pushed, popped, pool>>

\* event::notify leaves _awaiter set.
Notify(p) ==
  /\ Goto(p, "notify", "push unlock")
  /\ entries' = IF awaiter THEN entries + 1 ELSE entries
  /\ UNCHANGED <<owner, listed, channel, exec, at, blocking>>

PushUnlock(p) ==
  /\ Goto(p, "push unlock", "idle")
  /\ Unlock
  /\ UNCHANGED <<channel, exec, at, blocking>>

-----------------------------------------------------------------------------
(* pop_blocking *)

CallPop ==
  /\ Runs /\ popped < Pops /\ Goto(Consumer, "idle", "pop lock")
  /\ UNCHANGED <<owner, listed, channel, pool>>

SeePending ==
  /\ Runs /\ pending # 0 /\ Goto(Consumer, "look", "take")
  /\ UNCHANGED <<owner, listed, channel, pool>>

\* event::wait sets _awaiter, unlocks and blocks; resumed by whatever unblock, it locks.
Wait ==
  /\ Runs /\ pending = 0 /\ Goto(Consumer, "look", "wait lock")
  /\ awaiter' = TRUE
  /\ Unlock
  /\ blocking' = TRUE
  /\ UNCHANGED <<pending, queued, pushed, popped, exec, at>>

Take ==
  /\ Runs /\ Goto(Consumer, "take", "dequeue")
  /\ pending' = Minus(pending)
  /\ Unlock
  /\ UNCHANGED <<queued, awaiter, pushed, popped, exec, at, blocking>>

Dequeue ==
  /\ Runs /\ Goto(Consumer, "dequeue", "idle")
  /\ queued' = IF queued = 0 THEN 0 ELSE queued - 1
  /\ popped' = popped + 1
  /\ UNCHANGED <<owner, listed, pending, awaiter, pushed, pool>>

-----------------------------------------------------------------------------
(* The consumer in block and in the dispatchers of the pool *)

\* block: the thread leaves the consumer's stack.
Block(w) ==
  /\ blocking /\ Turn(w, "on", "back")
  /\ blocking' = FALSE
  /\ UNCHANGED <<owner, listed, pc, channel, entries, exec>>

Release(w) ==
  /\ Turn(w, "back", "loop")
  /\ exec' = "ready"
  /\ UNCHANGED <<owner, listed, pc, channel, entries, blocking>>

Poll(w) ==
  /\ entries > 0 /\ Turn(w, "loop", "check")
  /\ entries' = entries - 1
  /\ UNCHANGED <<owner, listed, pc, channel, exec, blocking>>

Check(w) ==
  /\ Turn(w, "check", IF exec = "ready" THEN "dispatch" ELSE "requeue")
  /\ UNCHANGED <<owner, listed, pc, channel, entries, exec, blocking>>

Requeue(w) ==
  /\ Turn(w, "requeue", "loop")
  /\ entries' = entries + 1
  /\ UNCHANGED <<owner, listed, pc, channel, exec, blocking>>

Dispatch(w) ==
  /\ Turn(w, "dispatch", "on")
  /\ exec' = "executing"
  /\ UNCHANGED <<owner, listed, pc, channel, entries, blocking>>

-----------------------------------------------------------------------------
ProducerStep(p) == Count(p) \/ Notify(p) \/ PushUnlock(p)
ConsumerStep == Enlist \/ SeePending \/ Wait \/ Take \/ Dequeue
WorkerStep(w) ==
  Block(w) \/ Release(w) \/ Poll(w) \/ Check(w) \/ Requeue(w) \/ Dispatch(w)

Next ==
  \/ CallPop \/ Pop \/ ConsumerStep
  \/ \E p \in Producers : Push(p) \/ Enqueue(p) \/ ProducerStep(p)
  \/ \E f \in Fibers : Lock(f)
  \/ \E w \in Workers : WorkerStep(w)

Spec == Init /\ [][Next]_vars

FairSpec ==
  /\ Spec
  /\ WF_vars(ConsumerStep)
  /\ \A p \in Producers : WF_vars(ProducerStep(p))
  /\ \A f \in Fibers : SF_vars(Lock(f))
  /\ \A w \in Workers : WF_vars(WorkerStep(w))

-----------------------------------------------------------------------------
\* Nothing is lost: pop_blocking returns when a counted value is pending, whichever of
\* the queued unblocks resume the consumer, as long as no two of them do so at once.
ValuesArePopped ==
  (pc[Consumer] # "idle" /\ pending > 0) ~> (pc[Consumer] = "idle" \/ Torn)

\* pop_blocking has something to decrease: "there is no worries that someone could beat
\* us and decrease _pending" (channel.hpp:65).
TakesWhatIsPending == pc[Consumer] = "take" => pending > 0

\* The dispatchers never resume a fiber that another thread is still on: "Maybe this
\* fiber is yet in the process of yielding, we don't want to execute it if that is the
\* case" (fiber_pool.hpp:487).
OneThread == ~Torn
=============================================================================
