------------------------------- MODULE Workers -------------------------------
(***************************************************************************)
(* The threads of a process that runs several pools (pool/fiber_pool.hpp,  *)
(* fiber_pool.cpp) and the switches between their dispatchers and fibers   *)
(* (core/fiber_base.hpp, fiber_base.cpp, fiber.hpp, fiber.cpp): the worker *)
(* ids, the static tables they index, the contexts, and fibers that leave  *)
(* the pool they were created by.                                          *)
(*                                                                         *)
(* What a pool does between two switches is FiberPool's matter and coarse  *)
(* here: queues are sets and tasks are always at hand.  An OS thread and a *)
(* call of worker_thread on it bear the same name, but a thread executes   *)
(* whatever it was switched to.  A slot of _thread_ids is only ever given  *)
(* the id of the thread that writes it or none, so a scan is one step.     *)
(***************************************************************************)
EXTENDS Integers

CONSTANTS
  Threads,    \* the values of std::thread::id
  External,   \* the threads that are not created by a pool, main among them
  Pools,
  Fibers,
  Home,       \* the pool that creates a fiber
  Slots,      \* the values of a uint8_t and the elements of a table: 256
  MaxStarts,  \* bound on the worker ids that are handed out
  MaxSpawned, \* bound on the threads that a start creates
  None

ASSUME WorkersAssumption ==
  /\ External \subseteq Threads /\ Home \in [Fibers -> Pools]
  /\ Slots \in Nat /\ MaxStarts \in Nat /\ MaxSpawned \in Nat
  /\ None \notin Threads \cup Fibers \cup Pools
  /\ Threads \cap Fibers = {}

\* The ids must not reach the width of the counter: at Slots it reads zero again.
ASSUME FewStarts == MaxStarts < Slots

VARIABLES
  started,     \* the worker ids handed out; _fiber_worker_id is what fits its width
  threadIds,   \* _thread_ids
  running,     \* _running_fibers; None for the slot's own dispatcher
  dispatcher,  \* _dispatcher_fibers: what has become of the fiber in the slot
  slotPool,    \* the _fiber_pool of that dispatcher
  loop,        \* its _ctx: the call of worker_thread that is suspended in it
  phase,       \* of a pool object
  up,          \* of a pool: _running
  left,        \* of a pool: the threads start has yet to create
  withMain,    \* of a pool: _with_main_thread
  mainSlot,    \* of a pool: _main_worker_id
  owner,       \* of a pool: the thread that started it
  free,        \* of a pool: _fibers
  awaiting,    \* of a pool: _awaiting_fibers
  waiting,     \* the fibers in the waiting list of some mutex, counter or event
  blocking,    \* those of them that have not called block yet
  status,      \* of a fiber: _status
  ready,       \* of a fiber: whether its _execution_status is ready
  fiberPool,   \* of a fiber: _fiber_pool
  former,      \* of a fiber: _former_ctx, as the slot of the dispatcher
  saved,       \* of a fiber: _ctx, as the fiber whose execution is suspended in it
  pc,          \* of a thread
  pool, slot,  \* of a call of worker_thread: this and idx
  fiber,       \* of a call of worker_thread: its local variable
  code         \* of a thread: the call of worker_thread or the fiber it executes

tables == <<started, threadIds, running, dispatcher, slotPool, loop>>
pools == <<phase, up, left, withMain, mainSlot, owner>>
queues == <<free, awaiting, waiting>>
fibers == <<blocking, status, ready, fiberPool, former, saved>>
threads == <<pc, pool, slot, fiber, code>>
vars == <<tables, pools, queues, fibers, threads>>

Ids == 0 .. Slots - 1

Init ==
  /\ started = 0
  /\ threadIds = [i \in Ids |-> None] /\ running = [i \in Ids |-> None]
  /\ dispatcher = [i \in Ids |-> "none"] /\ slotPool = [i \in Ids |-> None]
  /\ loop = [i \in Ids |-> None]
  /\ phase = [p \in Pools |-> "new"] /\ up = [p \in Pools |-> FALSE]
  /\ left = [p \in Pools |-> 0] /\ withMain = [p \in Pools |-> FALSE]
  /\ mainSlot = [p \in Pools |-> 0] /\ owner = [p \in Pools |-> None]
  /\ free = [p \in Pools |-> {f \in Fibers : Home[f] = p}]
  /\ awaiting = [p \in Pools |-> {}] /\ waiting = {} /\ blocking = {}
  /\ status = [f \in Fibers |-> "initialized"] /\ ready = [f \in Fibers |-> TRUE]
  /\ fiberPool = [f \in Fibers |-> None] /\ former = [f \in Fibers |-> 0]
  /\ saved = [f \in Fibers |-> f]
  /\ pc = [t \in Threads |-> IF t \in External THEN "outside" ELSE "absent"]
  /\ pool = [t \in Threads |-> None] /\ slot = [t \in Threads |-> 0]
  /\ fiber = [t \in Threads |-> None] /\ code = [t \in Threads |-> t]

-----------------------------------------------------------------------------
(* thread_index and what is found through it *)

_fiber_worker_id == started % Slots

\* The slots below the counter that hold the thread's id; thread_index returns the first
\* and aborts the process if there is none.
SlotsOf(u) == {i \in Ids : i < _fiber_worker_id /\ threadIds[i] = u}
ThreadIndex(u) == CHOOSE i \in SlotsOf(u) : \A j \in SlotsOf(u) : i <= j

\* this_fiber::instance(), and this_fiber::fiber_pool(); a slot that never ran a fiber has
\* its dispatcher for one.
ThisFiber(u) == running[ThreadIndex(u)]
ThisPool(u) ==
  IF ThisFiber(u) = None THEN slotPool[ThreadIndex(u)] ELSE fiberPool[ThisFiber(u)]

\* Faulty variant: the id of a thread that leaves is not erased.
KeepId(i) == UNCHANGED threadIds

\* The clean up of a slot: its thread id is erased, and its dispatcher deleted, which had
\* better not have happened before.
Erase(i) == threadIds' = [threadIds EXCEPT ![i] = None]
Delete(i) ==
  dispatcher' = [dispatcher EXCEPT ![i] = IF @ = "alive" THEN "deleted" ELSE "twice"]

-----------------------------------------------------------------------------
(* Faulty variants of the steps below, which a property at the end of the  *)
(* module must catch.  Next uses none of them.                             *)

\* The destructor cleans up the main thread's slot in any case.
CleanUpAnyway(p) == Erase(mainSlot[p]) /\ Delete(mainSlot[p])

\* A fiber that is still on its way to block is resumed.
ResumableAnyway(t, f) == f \in awaiting[pool[t]]

\* A fiber keeps the pool, or the dispatcher, it was first resumed by.
SwitchKeepingPool(t, f) ==
  /\ former' = [former EXCEPT ![f] = slot[t]]
  /\ fiberPool' = [fiberPool EXCEPT ![f] = IF @ = None THEN pool[t] ELSE @]
  /\ status' = [status EXCEPT ![f] = "running"]
  /\ loop' = [loop EXCEPT ![slot[t]] = t]

SwitchKeepingFormer(t, f) ==
  /\ former' = [former EXCEPT ![f] = IF fiberPool[f] = None THEN slot[t] ELSE @]
  /\ fiberPool' = [fiberPool EXCEPT ![f] = pool[t]]
  /\ status' = [status EXCEPT ![f] = "running"]
  /\ loop' = [loop EXCEPT ![slot[t]] = t]

-----------------------------------------------------------------------------
(* Starting a pool *)

\* A thread becomes the main thread of one pool at a time: "Only one pool can own the main
\* thread" (fiber_pool.hpp:326), which start itself does not check.
Unregistered(u) == \A i \in Ids : threadIds[i] # u

Start(u, p, n, main) ==
  /\ n > 0 \/ main
  /\ pc[u] = "outside" /\ phase[p] = "new" /\ (main => Unregistered(u))
  /\ phase' = [phase EXCEPT ![p] = "starting"] /\ up' = [up EXCEPT ![p] = TRUE]
  /\ left' = [left EXCEPT ![p] = n]
  /\ withMain' = [withMain EXCEPT ![p] = main] /\ owner' = [owner EXCEPT ![p] = u]
  /\ pc' = [pc EXCEPT ![u] = "starting"]
  /\ UNCHANGED <<tables, mainSlot, queues, fibers, pool, slot, fiber, code>>

\* _fiber_worker_id++ and the slot it gives; the slot is nobody else's, so its entries are
\* written in the same step.
TakeId(p) ==
  /\ started < MaxStarts
  /\ started' = started + 1
  /\ dispatcher' = [dispatcher EXCEPT ![_fiber_worker_id] = "alive"]
  /\ slotPool' = [slotPool EXCEPT ![_fiber_worker_id] = p]
  /\ running' = [running EXCEPT ![_fiber_worker_id] = None]

\* A call of worker_thread on thread t.
Call(t, p) ==
  /\ pc' = [pc EXCEPT ![t] = "born"]
  /\ pool' = [pool EXCEPT ![t] = p] /\ slot' = [slot EXCEPT ![t] = _fiber_worker_id]

\* The thread gets an id that no thread has, perhaps one a joined thread had.
Spawn(u, p, t) ==
  /\ pc[u] = "starting" /\ owner[p] = u /\ phase[p] = "starting" /\ left[p] > 0
  /\ pc[t] = "absent"
  /\ TakeId(p) /\ Call(t, p)
  /\ left' = [left EXCEPT ![p] = @ - 1]
  /\ UNCHANGED <<threadIds, loop, phase, up, withMain, mainSlot, owner, queues, fibers, fiber, code>>

Spawned(u, p) ==
  /\ pc[u] = "starting" /\ owner[p] = u /\ phase[p] = "starting" /\ left[p] = 0
  /\ TakeId(p)
  /\ mainSlot' = [mainSlot EXCEPT ![p] = _fiber_worker_id]
  /\ phase' = [phase EXCEPT ![p] = "started"]
  /\ IF withMain[p] THEN Call(u, p)
     ELSE pc' = [pc EXCEPT ![u] = "outside"] /\ UNCHANGED <<pool, slot>>
  /\ UNCHANGED <<threadIds, loop, up, left, withMain, owner, queues, fibers, fiber, code>>

Register(t) ==
  /\ pc[t] = "born"
  /\ threadIds' = [threadIds EXCEPT ![slot[t]] = t]
  /\ pc' = [pc EXCEPT ![t] = "loop"]
  /\ UNCHANGED <<started, running, dispatcher, slotPool, loop, pools, queues, fibers, pool, slot, fiber, code>>

\* No worker passes the barrier of start before all have registered.
BarrierOpen(p) ==
  /\ left[p] = 0 /\ (withMain[p] => phase[p] = "started")
  /\ \A t \in Threads : pool[t] = p => pc[t] # "born"

\* enable_main_thread_calls_here: the owner of a pool it is no worker of gets the pool's
\* last slot; the assert of line 326 is the caller's obligation.
Enable(u, p) ==
  /\ pc[u] = "outside" /\ owner[p] = u /\ phase[p] = "started" /\ ~withMain[p]
  /\ Unregistered(u)
  /\ threadIds' = [threadIds EXCEPT ![mainSlot[p]] = u]
  /\ UNCHANGED <<started, running, dispatcher, slotPool, loop, pools, queues, fibers, threads>>

-----------------------------------------------------------------------------
(* Ending a pool *)

End(p) ==
  /\ phase[p] \in {"starting", "started"} /\ up[p]
  /\ up' = [up EXCEPT ![p] = FALSE]
  /\ UNCHANGED <<tables, phase, left, withMain, mainSlot, owner, queues, fibers, threads>>

\* A worker leaves its loop, and with it worker_thread.
Exit(u) ==
  /\ code[u] \in Threads /\ pc[code[u]] = "loop" /\ BarrierOpen(pool[code[u]])
  /\ LET t == code[u] IN
     /\ awaiting[pool[t]] = {} /\ ~up[pool[t]]
     /\ Erase(slot[t]) /\ Delete(slot[t])
     /\ pc' = [pc EXCEPT ![t] = IF t \in External THEN "outside" ELSE "exited"]
  /\ UNCHANGED <<started, running, slotPool, loop, pools, queues, fibers, pool, slot, fiber, code>>

\* The threads that start created for the pool are joined and their ids are free again.
Join(u, p) ==
  /\ pc[u] = "outside" /\ owner[p] = u /\ phase[p] = "started"
  /\ \A t \in Threads \ External : pool[t] = p => pc[t] \in {"absent", "exited"}
  /\ phase' = [phase EXCEPT ![p] = "joined"]
  /\ pc' = [t \in Threads |-> IF t \notin External /\ pool[t] = p THEN "absent" ELSE pc[t]]
  /\ UNCHANGED <<tables, up, left, withMain, mainSlot, owner, queues, fibers, pool, slot, fiber, code>>

\* The main thread's slot, unless the main thread has cleaned it up as a worker.
CleanUp(p) ==
  IF withMain[p] THEN UNCHANGED <<threadIds, dispatcher>>
                 ELSE Erase(mainSlot[p]) /\ Delete(mainSlot[p])

\* The destructor.  Its caller sees to it that nothing will unblock a fiber into the pool.
Destroy(u, p) ==
  /\ pc[u] = "outside" /\ owner[p] = u /\ phase[p] = "joined"
  /\ \A f \in waiting : fiberPool[f] # p
  /\ free' = [free EXCEPT ![p] = {}]
  /\ phase' = [phase EXCEPT ![p] = "gone"]
  /\ CleanUp(p)
  /\ UNCHANGED <<started, running, slotPool, loop, up, left, withMain, mainSlot, owner,
                 awaiting, waiting, fibers, threads>>

-----------------------------------------------------------------------------
(* The dispatcher *)

\* A free fiber is bound to a task: by push, or by a dispatcher that has found a task.
Reset(p, f) ==
  /\ phase[p] # "gone" /\ f \in free[p]
  /\ free' = [free EXCEPT ![p] = @ \ {f}]
  /\ awaiting' = [awaiting EXCEPT ![p] = @ \cup {f}]
  /\ saved' = [saved EXCEPT ![f] = f] /\ status' = [status EXCEPT ![f] = "initialized"]
  /\ UNCHANGED <<tables, pools, waiting, blocking, ready, fiberPool, former, threads>>

\* Only a fiber that nobody is on the stack of any more.
Resumable(t, f) == f \in awaiting[pool[t]] /\ ready[f]

\* resume; the function that runs on top of the fiber saves the loop's context.
SwitchTo(t, f) ==
  /\ former' = [former EXCEPT ![f] = slot[t]]
  /\ fiberPool' = [fiberPool EXCEPT ![f] = pool[t]]
  /\ status' = [status EXCEPT ![f] = "running"]
  /\ loop' = [loop EXCEPT ![slot[t]] = t]

Resume(u, f) ==
  /\ code[u] \in Threads /\ pc[code[u]] = "loop" /\ BarrierOpen(pool[code[u]])
  /\ LET t == code[u] IN
     /\ Resumable(t, f) /\ SwitchTo(t, f)
     /\ awaiting' = [awaiting EXCEPT ![pool[t]] = @ \ {f}]
     /\ ready' = [ready EXCEPT ![f] = FALSE]
     /\ running' = [running EXCEPT ![slot[t]] = f]
     /\ fiber' = [fiber EXCEPT ![t] = f]
     /\ pc' = [pc EXCEPT ![t] = "resume"]
  /\ code' = [code EXCEPT ![u] = saved[f]]
  /\ UNCHANGED <<started, threadIds, dispatcher, slotPool, pools, free, waiting, blocking, saved, pool, slot>>

\* What the dispatcher does with the fiber that is back.
Back(u) ==
  /\ code[u] \in Threads /\ pc[code[u]] = "resume"
  /\ LET t == code[u]
         f == fiber[t]
     IN
     /\ \/ /\ status[f] = "ended"
           /\ free' = [free EXCEPT ![pool[t]] = @ \cup {f}] /\ UNCHANGED awaiting
        \/ /\ status[f] = "yielded"
           /\ awaiting' = [awaiting EXCEPT ![pool[t]] = @ \cup {f}] /\ UNCHANGED free
        \/ status[f] = "blocked" /\ UNCHANGED <<free, awaiting>>
     /\ ready' = [ready EXCEPT ![f] = TRUE]
     /\ pc' = [pc EXCEPT ![t] = "loop"]
  /\ UNCHANGED <<tables, pools, waiting, blocking, status, fiberPool, former, saved, pool, slot, fiber, code>>

-----------------------------------------------------------------------------
(* The fiber *)

Runs(u) == code[u] \in Fibers

\* yield and yield_blocking: the fiber and the dispatcher are looked up through the id of
\* the thread, the context of what runs is saved in the fiber that was found.
SwitchBack(u, s) ==
  /\ status' = [status EXCEPT ![ThisFiber(u)] = s]
  /\ saved' = [saved EXCEPT ![ThisFiber(u)] = code[u]]
  /\ code' = [code EXCEPT ![u] = loop[ThreadIndex(u)]]

Yield(u) ==
  /\ Runs(u) /\ code[u] \notin blocking
  /\ SwitchBack(u, "yielded")
  /\ UNCHANGED <<tables, pools, queues, blocking, ready, fiberPool, former, pc, pool, slot, fiber>>

\* The fiber enters itself in a waiting list,
Wait(u) ==
  /\ Runs(u) /\ code[u] \notin blocking
  /\ waiting' = waiting \cup {ThisFiber(u)} /\ blocking' = blocking \cup {code[u]}
  /\ UNCHANGED <<tables, pools, free, awaiting, status, ready, fiberPool, former, saved, threads>>

\* and then calls block.
Block(u) ==
  /\ Runs(u) /\ code[u] \in blocking
  /\ blocking' = blocking \ {code[u]}
  /\ SwitchBack(u, "blocked")
  /\ UNCHANGED <<tables, pools, queues, ready, fiberPool, former, pc, pool, slot, fiber>>

\* A mutex, a barrier and a condition variable give a waiting fiber to the pool it last ran
\* in, a counter and an event to the pool of the notifier, which is a fiber or the main
\* thread once calls from it are enabled.
Unblock(u, f) ==
  /\ f \in waiting
  /\ (Runs(u) /\ code[u] \notin blocking) \/ pc[u] = "outside"
  /\ \E p \in {fiberPool[f]} \cup {q \in Pools : SlotsOf(u) # {} /\ q = ThisPool(u)} :
       awaiting' = [awaiting EXCEPT ![p] = @ \cup {f}]
  /\ waiting' = waiting \ {f}
  /\ UNCHANGED <<tables, pools, free, fibers, threads>>

\* The entry point returns through the context it was last resumed from.
Finish(u) ==
  /\ Runs(u) /\ code[u] \notin blocking
  /\ status' = [status EXCEPT ![code[u]] = "ended"]
  /\ code' = [code EXCEPT ![u] = loop[former[code[u]]]]
  /\ UNCHANGED <<tables, pools, queues, blocking, ready, fiberPool, former, saved, pc, pool, slot, fiber>>

-----------------------------------------------------------------------------
Next ==
  \/ \E u \in External, p \in Pools :
       \/ \E n \in 0 .. MaxSpawned, main \in BOOLEAN : Start(u, p, n, main)
       \/ \E t \in Threads : Spawn(u, p, t)
       \/ Spawned(u, p) \/ Enable(u, p) \/ Join(u, p) \/ Destroy(u, p)
  \/ \E p \in Pools : End(p) \/ \E f \in Fibers : Reset(p, f)
  \/ \E u \in Threads :
       \/ Register(u) \/ Exit(u) \/ Back(u)
       \/ Yield(u) \/ Wait(u) \/ Block(u) \/ Finish(u)
       \/ \E f \in Fibers : Resume(u, f) \/ Unblock(u, f)

Spec == Init /\ [][Next]_vars

-----------------------------------------------------------------------------
(* Properties *)

Works(t) == pc[t] \in {"loop", "resume"}

\* thread_index finds the slot the thread was started with, whatever ids other threads had
\* before it and have beside it: what threadlocal and this_fiber index is a thread's own.
IndexIsOwn == \A t \in Threads : Works(t) => SlotsOf(t) = {slot[t]}

\* this_fiber is the fiber that calls it, on whichever thread and in whichever pool it has
\* come to run, and its pool is the one whose thread executes it.
ThisFiberIsMe ==
  \A u \in Threads : Runs(u) => ThisFiber(u) = code[u] /\ ThisPool(u) = pool[u]

\* A thread only ever continues its own dispatcher, whether the fiber it executes yields,
\* blocks or ends.
LoopIsOwn ==
  \A u \in Threads :
    IF Runs(u) THEN loop[ThreadIndex(u)] = u /\ loop[former[code[u]]] = u
               ELSE code[u] = u

\* No dispatcher is deleted under its worker, or twice, and none is left when all pools
\* are gone.
DispatchersDieOnce ==
  /\ \A t \in Threads : pc[t] = "born" \/ Works(t) => dispatcher[slot[t]] = "alive"
  /\ \A i \in Ids : dispatcher[i] # "twice"
  /\ (\A p \in Pools : phase[p] = "gone") => \A i \in Ids : dispatcher[i] # "alive"

\* Where a fiber is to be found: in a queue of a pool, in a waiting list, or in the hands of
\* the thread that executes it, until it waits.
Held(f) ==
  \E t \in Threads :
    pc[t] = "resume" /\ fiber[t] = f /\ f \notin blocking /\ status[f] # "blocked"

Places(f) ==
  {<<"free", p>> : p \in {q \in Pools : f \in free[q]}}
    \cup {<<"awaiting", p>> : p \in {q \in Pools : f \in awaiting[q]}}
    \cup {<<"waiting", x>> : x \in {f} \cap waiting}
    \cup {<<"held", x>> : x \in {g \in {f} : Held(g)}}

\* A fiber is in one place, whatever pools it went through, and is lost only with a pool;
\* one thread at a time executes it.
FiberInOnePlace ==
  /\ \A f \in Fibers :
       /\ \A x, y \in Places(f) : x = y
       /\ Places(f) = {} => \E p \in Pools : phase[p] = "gone"
  /\ \A u, v \in Threads : Runs(u) /\ code[u] = code[v] => u = v
=============================================================================
