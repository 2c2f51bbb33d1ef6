----------------------------- MODULE FiberPool -----------------------------
(***************************************************************************)
(* np::fiber_pool (pool/fiber_pool.hpp, pool/fiber_pool.cpp) with the part *)
(* of np::fiber it drives (core/fiber.hpp, core/fiber_base.hpp/.cpp).      *)
(*                                                                         *)
(* An action is one access of a thread to shared memory together with the  *)
(* thread-local code around it.  What a task does between two calls into   *)
(* the pool is free: it may push, unblock others, yield, block, end the    *)
(* pool, or return; but a fiber is unblocked once each time it waits, as   *)
(* the mutex, the condition variable and the barriers do it.               *)
(***************************************************************************)
EXTENDS Integers, FiniteSets

CONSTANTS
  Workers,   \* the threads that execute worker_thread
  Main,      \* the thread that calls start and join; a worker or not
  Fibers,    \* every np::fiber the run may ever create
  Initial,   \* those the constructor creates: {} iff !preemtive_fiber_creation
  MaxFibers, \* traits::maximum_fibers
  Tasks,     \* the functions that may be pushed, once each
  Track,     \* TAMASHII_INTERNAL_FIBER_POOL_TRACK_BLOCKED
  NoFiber, NoTask

Preemptive == Initial # {}
Threads == Workers \cup {Main}

ASSUME ConstantsAssumption ==
  /\ IsFiniteSet(Workers) /\ Workers # {}
  /\ IsFiniteSet(Fibers) /\ Initial \subseteq Fibers
  /\ MaxFibers \in Nat \ {0}
  /\ Preemptive => MaxFibers = Cardinality(Initial)
  /\ NoFiber \notin Fibers /\ NoTask \notin Tasks
  /\ Track \in BOOLEAN

VARIABLES
  running, barrier, number_of_threads,  \* _running, _barrier._size, _number_of_threads
  created,   \* the fibers that exist
  spawned,   \* _number_of_spawned_fibers, a plain uint32_t
  blocked,   \* _number_of_blocked_fibers; -n stands for 2^32 - n
  fibers,    \* _fibers: how often each fiber is in it
  awaiting,  \* _awaiting_fibers, likewise
  tasks,     \* _tasks
  waiting,   \* the fibers in the waiting lists of the primitives
  status, exec, job,         \* of a fiber: _status, _execution_status, _function
  pc, fib, arg, task, reg,   \* of a thread: its locals; fib is also _running_fibers[idx]
  parking,   \* of a thread: its fiber is in a waiting list and must now block
  pushed, done               \* history: tasks given to push, tasks that returned

pool   == <<running, barrier, number_of_threads, created, spawned, blocked>>
queues == <<fibers, awaiting, tasks, waiting>>
fiber  == <<status, exec, job>>
thread == <<pc, fib, arg, task, reg, parking>>
hist   == <<pushed, done>>
vars   == <<pool, queues, fiber, thread, hist>>

(***************************************************************************)
(* Program points.  A thread in UserPC is inside the code of its fiber (or *)
(* of Main) or in a pool function that code called; one in HandPC holds    *)
(* the fiber it took from a queue; one in ExecPC has resumed its fiber and *)
(* not yet released it.                                                    *)
(***************************************************************************)
PushPC == {"pbind", "ptask", "pgrow", "pstore", "pcap"}
UserPC == {"body", "unblock", "wake"} \cup PushPC
TailPC == {"rebind", "shelve"}
HandPC == {"check", "requeue", "dispatch", "gettask", "bind", "giveback"} \cup TailPC
ExecPC == UserPC \cup TailPC \cup {"back", "release"}
IdlePC == {"unborn", "boot", "barrier", "loop", "cold", "exitcheck",
           "getfiber", "full", "compare", "spawnfiber", "spawnstore"}
MainPC == {"spawn", "joined", "gone"}
PCs    == IdlePC \cup HandPC \cup ExecPC \cup MainPC \cup {"exited"}

Goto(t, from, to) == pc[t] = from /\ pc' = [pc EXCEPT ![t] = to]

Init ==
  /\ running = FALSE /\ barrier = 0 /\ number_of_threads = 0
  /\ created = Initial
  /\ spawned = IF Preemptive THEN MaxFibers ELSE 0
  /\ blocked = 0
  /\ fibers = [f \in Fibers |-> IF f \in Initial THEN 1 ELSE 0]
  /\ awaiting = [f \in Fibers |-> 0]
  /\ tasks = {} /\ waiting = {}
  /\ status = [f \in Fibers |-> "initialized"]
  /\ exec = [f \in Fibers |-> "ready"]
  /\ job = [f \in Fibers |-> NoTask]
  /\ pc = [t \in Threads |-> IF t = Main THEN "body" ELSE "unborn"]
  /\ fib = [t \in Threads |-> NoFiber]
  /\ arg = [t \in Threads |-> NoFiber]
  /\ task = [t \in Threads |-> NoTask]
  /\ reg = [t \in Threads |-> 0]
  /\ parking = [t \in Threads |-> FALSE]
  /\ pushed = {} /\ done = {}

-----------------------------------------------------------------------------
(* Faulty variants of the steps below, one for each property at the end of *)
(* the module, which must catch it.  Next uses none of them.               *)

\* try_dequeue's result is ignored.
PushTakesAnyFiber(t, k, f) ==
  /\ ~parking[t] /\ k \notin pushed
  /\ Goto(t, "body", "pbind")
  /\ fibers' = [fibers EXCEPT ![f] = @ - 1]
  /\ arg' = [arg EXCEPT ![t] = f]
  /\ task' = [task EXCEPT ![t] = k]
  /\ pushed' = pushed \cup {k}
  /\ UNCHANGED <<pool, awaiting, tasks, waiting, fiber, fib, reg, parking, done>>

\* The dispatcher does not look at execution_status.
NoCheck(w) ==
  /\ Goto(w, "check", "dispatch")
  /\ UNCHANGED <<pool, queues, fiber, fib, arg, task, reg, parking, hist>>

\* A blocked fiber is treated like a yielded one.
BlockedIsRequeued(w) ==
  /\ Goto(w, "back", "release") /\ status[fib[w]] = "blocked"
  /\ parking' = [parking EXCEPT ![w] = FALSE]
  /\ awaiting' = [awaiting EXCEPT ![fib[w]] = @ + 1]
  /\ UNCHANGED <<pool, fibers, tasks, waiting, fiber, fib, arg, task, reg, hist>>

\* The fiber is not given back when another thread took the task.
GiveNothingBack(w) ==
  /\ Goto(w, "giveback", "loop")
  /\ fib' = [fib EXCEPT ![w] = NoFiber]
  /\ UNCHANGED <<pool, queues, fiber, arg, task, reg, parking, hist>>

\* yield switches without setting the status.
SilentYield(w) ==
  /\ fib[w] # NoFiber /\ ~parking[w] /\ Goto(w, "body", "back")
  /\ UNCHANGED <<pool, queues, fiber, fib, arg, task, reg, parking, hist>>

\* The task dequeued for an ended fiber is not given to it.
DequeueAndShelve(w) ==
  /\ Goto(w, "back", "shelve") /\ status[fib[w]] = "ended"
  /\ tasks' \in IF tasks = {} THEN {{}} ELSE {tasks \ {k} : k \in tasks}
  /\ UNCHANGED <<pool, fibers, awaiting, waiting, fiber, fib, arg, task, reg, parking, hist>>

\* The dispatcher looks at _running before it looks at _tasks.
ExitBeforeTasks(w) ==
  /\ Goto(w, "cold", IF ~running THEN "exitcheck" ELSE IF tasks = {} THEN "loop" ELSE "getfiber")
  /\ UNCHANGED <<pool, queues, fiber, fib, arg, task, reg, parking, hist>>

\* join waits for one worker only.
JoinOne ==
  /\ \E w \in Workers : pc[w] = "exited"
  /\ pc[Main] \in {"body", "exited"}
  /\ pc' = [pc EXCEPT ![Main] = "joined"]
  /\ UNCHANGED <<pool, queues, fiber, fib, arg, task, reg, parking, hist>>

\* unblock enqueues without counting down.
CountNothing(t) ==
  /\ Goto(t, "unblock", "wake")
  /\ UNCHANGED <<pool, queues, fiber, fib, arg, task, reg, parking, hist>>

\* get_free_fiber compares with >= and stops one fiber short of the maximum.
RefuseAtMaximum(t) ==
  /\ spawned' = reg[t] + 1
  /\ reg' = [reg EXCEPT ![t] = 0]
  /\ \/ /\ reg[t] + 1 >= MaxFibers
        /\ Goto(t, "pstore", "pcap")
        /\ UNCHANGED <<created, arg>>
     \/ /\ reg[t] + 1 < MaxFibers
        /\ Goto(t, "pstore", "pbind")
        /\ \E f \in Fibers \ created :
             /\ created' = created \cup {f}
             /\ arg' = [arg EXCEPT ![t] = f]
  /\ UNCHANGED <<running, barrier, number_of_threads, blocked, queues, fiber, fib, task,
                 parking, hist>>

\* A waker leaves the fiber in the waiting list.
PeekWaiter(t, f) ==
  /\ f \in waiting /\ f # fib[t] /\ Goto(t, "body", IF Track THEN "unblock" ELSE "wake")
  /\ arg' = [arg EXCEPT ![t] = f]
  /\ UNCHANGED <<pool, queues, fiber, fib, task, reg, parking, hist>>

\* A fiber that is not ready yet is dropped.
DropUnready(w) ==
  /\ Goto(w, "requeue", "loop")
  /\ fib' = [fib EXCEPT ![w] = NoFiber]
  /\ UNCHANGED <<pool, queues, fiber, arg, task, reg, parking, hist>>

\* The dispatcher never finds all fibers blocked.
CompareNothing(w) ==
  /\ Goto(w, "compare", "loop")
  /\ reg' = [reg EXCEPT ![w] = 0]
  /\ UNCHANGED <<pool, queues, fiber, fib, arg, task, parking, hist>>

-----------------------------------------------------------------------------
(* start, end, join and the destructor *)

Start ==
  /\ number_of_threads = 0 /\ fib[Main] = NoFiber /\ Goto(Main, "body", "spawn")
  /\ running' = TRUE
  /\ barrier' = Cardinality(Workers)
  /\ number_of_threads' = Cardinality(Workers)
  /\ UNCHANGED <<created, spawned, blocked, queues, fiber, fib, arg, task, reg, parking, hist>>

SpawnWorker(w) ==
  /\ pc[Main] = "spawn" /\ w # Main
  /\ Goto(w, "unborn", "boot")
  /\ UNCHANGED <<pool, queues, fiber, fib, arg, task, reg, parking, hist>>

\* The loop of start is over: Main becomes a worker, or goes back to its caller.
Spawned ==
  /\ \A w \in Workers \ {Main} : pc[w] # "unborn"
  /\ Goto(Main, "spawn", IF Main \in Workers THEN "boot" ELSE "body")
  /\ UNCHANGED <<pool, queues, fiber, fib, arg, task, reg, parking, hist>>

\* spinbarrier::wait
Arrive(w) ==
  /\ Goto(w, "boot", "barrier")
  /\ barrier' = barrier - 1
  /\ UNCHANGED <<running, number_of_threads, created, spawned, blocked, queues, fiber,
                 fib, arg, task, reg, parking, hist>>

Pass(w) ==
  /\ barrier = 0 /\ Goto(w, "barrier", "loop")
  /\ UNCHANGED <<pool, queues, fiber, fib, arg, task, reg, parking, hist>>

\* A task, or Main once start has returned, calls end().
End(t) ==
  /\ pc[t] = "body" /\ ~parking[t]
  /\ running /\ running' = FALSE
  /\ UNCHANGED <<barrier, number_of_threads, created, spawned, blocked, queues, fiber,
                 thread, hist>>

\* join() returns once every worker thread has left worker_thread.
Join ==
  /\ \A w \in Workers : pc[w] = "exited"
  /\ pc[Main] \in {"body", "exited"}
  /\ pc' = [pc EXCEPT ![Main] = "joined"]
  /\ UNCHANGED <<pool, queues, fiber, fib, arg, task, reg, parking, hist>>

\* ~fiber_pool deletes the fibers it finds in _fibers.
Destroy ==
  /\ Goto(Main, "joined", "gone")
  /\ created' = {f \in created : fibers[f] = 0}
  /\ fibers' = [f \in Fibers |-> 0]
  /\ UNCHANGED <<running, barrier, number_of_threads, spawned, blocked, awaiting, tasks,
                 waiting, fiber, fib, arg, task, reg, parking, hist>>

-----------------------------------------------------------------------------
(* push and get_free_fiber, called by a task or by Main *)

PushTakesFiber(t, k, f) ==
  /\ ~parking[t] /\ k \notin pushed /\ fibers[f] > 0
  /\ Goto(t, "body", "pbind")
  /\ fibers' = [fibers EXCEPT ![f] = @ - 1]
  /\ arg' = [arg EXCEPT ![t] = f]
  /\ task' = [task EXCEPT ![t] = k]
  /\ pushed' = pushed \cup {k}
  /\ UNCHANGED <<pool, awaiting, tasks, waiting, fiber, fib, reg, parking, done>>

PushFindsNoFiber(t, k) ==
  /\ ~parking[t] /\ k \notin pushed /\ \A f \in Fibers : fibers[f] = 0
  /\ Goto(t, "body", IF Preemptive THEN "ptask" ELSE "pgrow")
  /\ task' = [task EXCEPT ![t] = k]
  /\ pushed' = pushed \cup {k}
  /\ UNCHANGED <<pool, queues, fiber, fib, arg, reg, parking, done>>

\* ++_number_of_spawned_fibers is a load and a store.
GrowLoad(t) ==
  /\ Goto(t, "pgrow", "pstore")
  /\ reg' = [reg EXCEPT ![t] = spawned]
  /\ UNCHANGED <<pool, queues, fiber, fib, arg, task, parking, hist>>

GrowStore(t) ==
  /\ spawned' = reg[t] + 1
  /\ reg' = [reg EXCEPT ![t] = 0]
  /\ \/ /\ reg[t] + 1 > MaxFibers
        /\ Goto(t, "pstore", "pcap")
        /\ UNCHANGED <<created, arg>>
     \/ /\ reg[t] + 1 <= MaxFibers
        /\ Goto(t, "pstore", "pbind")
        /\ \E f \in Fibers \ created :
             /\ created' = created \cup {f}
             /\ arg' = [arg EXCEPT ![t] = f]
  /\ UNCHANGED <<running, barrier, number_of_threads, blocked, queues, fiber, fib, task,
                 parking, hist>>

GrowCap(t) ==
  /\ Goto(t, "pcap", "ptask")
  /\ spawned' = MaxFibers
  /\ UNCHANGED <<running, barrier, number_of_threads, created, blocked, queues, fiber,
                 fib, arg, task, reg, parking, hist>>

\* fiber::reset gives fiber f the function k; then it is enqueued.
ResetAndAwait(f, k) ==
  /\ job' = [job EXCEPT ![f] = k]
  /\ status' = [status EXCEPT ![f] = "initialized"]
  /\ awaiting' = [awaiting EXCEPT ![f] = @ + 1]

PushFiber(t) ==
  /\ Goto(t, "pbind", "body")
  /\ ResetAndAwait(arg[t], task[t])
  /\ arg' = [arg EXCEPT ![t] = NoFiber]
  /\ task' = [task EXCEPT ![t] = NoTask]
  /\ UNCHANGED <<pool, fibers, tasks, waiting, exec, fib, reg, parking, hist>>

PushTask(t) ==
  /\ Goto(t, "ptask", "body")
  /\ tasks' = tasks \cup {task[t]}
  /\ task' = [task EXCEPT ![t] = NoTask]
  /\ UNCHANGED <<pool, fibers, awaiting, waiting, fiber, fib, arg, reg, parking, hist>>

-----------------------------------------------------------------------------
(* block and unblock, as the synchronization primitives use them *)

\* A primitive makes the running fiber visible to its wakers, then blocks it.
Publish(w) ==
  /\ pc[w] = "body" /\ fib[w] # NoFiber /\ ~parking[w]
  /\ parking' = [parking EXCEPT ![w] = TRUE]
  /\ waiting' = waiting \cup {fib[w]}
  /\ UNCHANGED <<pool, fibers, awaiting, tasks, fiber, pc, fib, arg, task, reg, hist>>

Block(w) ==
  /\ parking[w] /\ Goto(w, "body", "back")
  /\ status' = [status EXCEPT ![fib[w]] = "blocked"]
  /\ UNCHANGED <<pool, queues, exec, job, fib, arg, task, reg, parking, hist>>

\* A mutex, condition variable or barrier takes a fiber out of its waiting list, whose
\* owner may still be on its way to block, and unblocks it.  condition_variable::wait
\* does so (by unlocking the mutex) between publishing itself and blocking.
\* event::notify, which keeps the fiber and may unblock it again, is left to Channel.
TakeWaiter(t, f) ==
  /\ f \in waiting /\ f # fib[t] /\ Goto(t, "body", IF Track THEN "unblock" ELSE "wake")
  /\ waiting' = waiting \ {f}
  /\ arg' = [arg EXCEPT ![t] = f]
  /\ UNCHANGED <<pool, fibers, awaiting, tasks, fiber, fib, task, reg, parking, hist>>

UnblockCount(t) ==
  /\ Goto(t, "unblock", "wake")
  /\ blocked' = blocked - 1
  /\ UNCHANGED <<running, barrier, number_of_threads, created, spawned, queues, fiber,
                 fib, arg, task, reg, parking, hist>>

UnblockEnqueue(t) ==
  /\ Goto(t, "wake", "body")
  /\ awaiting' = [awaiting EXCEPT ![arg[t]] = @ + 1]
  /\ arg' = [arg EXCEPT ![t] = NoFiber]
  /\ UNCHANGED <<pool, fibers, tasks, waiting, fiber, fib, task, reg, parking, hist>>

\* fiber_pool_base::yield
Yield(w) ==
  /\ fib[w] # NoFiber /\ ~parking[w] /\ Goto(w, "body", "back")
  /\ status' = [status EXCEPT ![fib[w]] = "yielded"]
  /\ UNCHANGED <<pool, queues, exec, job, fib, arg, task, reg, parking, hist>>

\* The function and its counter's done() have returned: fiber::execute ends.
Finish(w) ==
  /\ fib[w] # NoFiber /\ ~parking[w] /\ Goto(w, "body", "back")
  /\ status' = [status EXCEPT ![fib[w]] = "ended"]
  /\ done' = done \cup {job[fib[w]]}
  /\ UNCHANGED <<pool, queues, exec, job, fib, arg, task, reg, parking, pushed>>

-----------------------------------------------------------------------------
(* worker_thread: the dispatcher loop *)

PollTake(w, f) ==
  /\ awaiting[f] > 0 /\ Goto(w, "loop", "check")
  /\ awaiting' = [awaiting EXCEPT ![f] = @ - 1]
  /\ fib' = [fib EXCEPT ![w] = f]
  /\ UNCHANGED <<pool, fibers, tasks, waiting, fiber, arg, task, reg, parking, hist>>

PollEmpty(w) ==
  /\ \A f \in Fibers : awaiting[f] = 0
  /\ Goto(w, "loop", "cold")
  /\ UNCHANGED <<pool, queues, fiber, fib, arg, task, reg, parking, hist>>

Cold(w) ==
  /\ Goto(w, "cold", IF tasks = {} THEN "exitcheck" ELSE "getfiber")
  /\ UNCHANGED <<pool, queues, fiber, fib, arg, task, reg, parking, hist>>

ExitCheck(w) ==
  /\ Goto(w, "exitcheck", IF running THEN "loop" ELSE "exited")
  /\ UNCHANGED <<pool, queues, fiber, fib, arg, task, reg, parking, hist>>

GetFiber(w, f) ==
  /\ Goto(w, "getfiber", "gettask") /\ fibers[f] > 0
  /\ fibers' = [fibers EXCEPT ![f] = @ - 1]
  /\ fib' = [fib EXCEPT ![w] = f]
  /\ UNCHANGED <<pool, awaiting, tasks, waiting, fiber, arg, task, reg, parking, hist>>

GetNoFiber(w) ==
  /\ \A f \in Fibers : fibers[f] = 0
  /\ Goto(w, "getfiber", IF Track THEN "full" ELSE "loop")
  /\ UNCHANGED <<pool, queues, fiber, fib, arg, task, reg, parking, hist>>

\* _number_of_blocked_fibers == _number_of_spawned_fibers reads one, then the other.
LoadBlocked(w) ==
  /\ Goto(w, "full", "compare")
  /\ reg' = [reg EXCEPT ![w] = blocked]
  /\ UNCHANGED <<pool, queues, fiber, fib, arg, task, parking, hist>>

Compare(w) ==
  /\ Goto(w, "compare", IF reg[w] = spawned THEN "spawnfiber" ELSE "loop")
  /\ reg' = [reg EXCEPT ![w] = IF @ = spawned THEN @ ELSE 0]
  /\ UNCHANGED <<pool, queues, fiber, fib, arg, task, parking, hist>>

\* ++_number_of_spawned_fibers may read the counter again or use the value compared,
\* and stores later.
SpawnLoad(w) ==
  /\ Goto(w, "spawnfiber", "spawnstore")
  /\ \E v \in {reg[w], spawned} : reg' = [reg EXCEPT ![w] = v]
  /\ UNCHANGED <<pool, queues, fiber, fib, arg, task, parking, hist>>

SpawnStore(w) ==
  /\ Goto(w, "spawnstore", "gettask")
  /\ spawned' = reg[w] + 1
  /\ reg' = [reg EXCEPT ![w] = 0]
  /\ \E f \in Fibers \ created :
       /\ created' = created \cup {f}
       /\ fib' = [fib EXCEPT ![w] = f]
  /\ UNCHANGED <<running, barrier, number_of_threads, blocked, queues, fiber, arg, task,
                 parking, hist>>

GetTask(w, k) ==
  /\ k \in tasks /\ Goto(w, "gettask", "bind")
  /\ tasks' = tasks \ {k}
  /\ task' = [task EXCEPT ![w] = k]
  /\ UNCHANGED <<pool, fibers, awaiting, waiting, fiber, fib, arg, reg, parking, hist>>

GetNoTask(w) ==
  /\ tasks = {} /\ Goto(w, "gettask", "giveback")
  /\ UNCHANGED <<pool, queues, fiber, fib, arg, task, reg, parking, hist>>

GiveBack(w) ==
  /\ Goto(w, "giveback", "loop")
  /\ fibers' = [fibers EXCEPT ![fib[w]] = @ + 1]
  /\ fib' = [fib EXCEPT ![w] = NoFiber]
  /\ UNCHANGED <<pool, awaiting, tasks, waiting, fiber, arg, task, reg, parking, hist>>

Bind(w) ==
  /\ Goto(w, "bind", "loop")
  /\ ResetAndAwait(fib[w], task[w])
  /\ fib' = [fib EXCEPT ![w] = NoFiber]
  /\ task' = [task EXCEPT ![w] = NoTask]
  /\ UNCHANGED <<pool, fibers, tasks, waiting, exec, arg, reg, parking, hist>>

\* A fiber that is still leaving another thread is put back.
Check(w) ==
  /\ Goto(w, "check", IF exec[fib[w]] = "ready" THEN "dispatch" ELSE "requeue")
  /\ UNCHANGED <<pool, queues, fiber, fib, arg, task, reg, parking, hist>>

Requeue(w) ==
  /\ Goto(w, "requeue", "loop")
  /\ awaiting' = [awaiting EXCEPT ![fib[w]] = @ + 1]
  /\ fib' = [fib EXCEPT ![w] = NoFiber]
  /\ UNCHANGED <<pool, fibers, tasks, waiting, fiber, arg, task, reg, parking, hist>>

\* resume: the thread switches to the fiber.
Dispatch(w) ==
  /\ Goto(w, "dispatch", "body")
  /\ exec' = [exec EXCEPT ![fib[w]] = "executing"]
  /\ status' = [status EXCEPT ![fib[w]] = "running"]
  /\ UNCHANGED <<pool, queues, job, fib, arg, task, reg, parking, hist>>

\* The thread is back in the dispatcher: switch (fiber->status()).
BackEnded(w) ==
  /\ pc[w] = "back" /\ status[fib[w]] = "ended"
  /\ \/ /\ tasks = {} /\ Goto(w, "back", "shelve")
        /\ UNCHANGED <<tasks, task>>
     \/ /\ Goto(w, "back", "rebind")
        /\ \E k \in tasks :
             /\ tasks' = tasks \ {k}
             /\ task' = [task EXCEPT ![w] = k]
  /\ UNCHANGED <<pool, fibers, awaiting, waiting, fiber, fib, arg, reg, parking, hist>>

Rebind(w) ==
  /\ Goto(w, "rebind", "release")
  /\ ResetAndAwait(fib[w], task[w])
  /\ task' = [task EXCEPT ![w] = NoTask]
  /\ UNCHANGED <<pool, fibers, tasks, waiting, exec, fib, arg, reg, parking, hist>>

Shelve(w) ==
  /\ Goto(w, "shelve", "release")
  /\ fibers' = [fibers EXCEPT ![fib[w]] = @ + 1]
  /\ UNCHANGED <<pool, awaiting, tasks, waiting, fiber, fib, arg, task, reg, parking, hist>>

BackYielded(w) ==
  /\ Goto(w, "back", "release") /\ status[fib[w]] = "yielded"
  /\ awaiting' = [awaiting EXCEPT ![fib[w]] = @ + 1]
  /\ UNCHANGED <<pool, fibers, tasks, waiting, fiber, fib, arg, task, reg, parking, hist>>

BackBlocked(w) ==
  /\ Goto(w, "back", "release") /\ status[fib[w]] = "blocked"
  /\ blocked' = IF Track THEN blocked + 1 ELSE blocked
  /\ parking' = [parking EXCEPT ![w] = FALSE]
  /\ UNCHANGED <<running, barrier, number_of_threads, created, spawned, queues, fiber,
                 fib, arg, task, reg, hist>>

\* execution_status(ready): from here on another thread may resume the fiber.
Release(w) ==
  /\ Goto(w, "release", "loop")
  /\ exec' = [exec EXCEPT ![fib[w]] = "ready"]
  /\ fib' = [fib EXCEPT ![w] = NoFiber]
  /\ UNCHANGED <<pool, queues, status, job, arg, task, reg, parking, hist>>

-----------------------------------------------------------------------------
Lifecycle ==
  \/ Start \/ Spawned \/ Join \/ Destroy
  \/ \E w \in Workers : SpawnWorker(w) \/ Arrive(w) \/ Pass(w)

\* What user code chooses to do.
UserCall(t) ==
  \/ End(t)
  \/ \E k \in Tasks : PushFindsNoFiber(t, k) \/ \E f \in Fibers : PushTakesFiber(t, k, f)
  \/ \E f \in Fibers : TakeWaiter(t, f)

\* What a thread inside a pool function does next.
InCall(t) ==
  \/ GrowLoad(t) \/ GrowStore(t) \/ GrowCap(t) \/ PushFiber(t) \/ PushTask(t)
  \/ UnblockCount(t) \/ UnblockEnqueue(t)

\* What gives the thread back to the dispatcher.
Leave(w) == Block(w) \/ Yield(w) \/ Finish(w)

Poll(w) == PollEmpty(w) \/ \E f \in Fibers : PollTake(w, f)

Dispatcher(w) ==
  \/ Cold(w) \/ ExitCheck(w)
  \/ GetNoFiber(w) \/ LoadBlocked(w) \/ Compare(w) \/ SpawnLoad(w) \/ SpawnStore(w)
  \/ \E f \in Fibers : GetFiber(w, f)
  \/ \E k \in Tasks : GetTask(w, k)
  \/ GetNoTask(w) \/ GiveBack(w) \/ Bind(w)
  \/ Check(w) \/ Requeue(w) \/ Dispatch(w)
  \/ BackEnded(w) \/ Rebind(w) \/ Shelve(w) \/ BackYielded(w) \/ BackBlocked(w)
  \/ Release(w)

\* The pool has been destroyed.
Gone == pc[Main] = "gone" /\ UNCHANGED vars

Next ==
  \/ Lifecycle \/ Gone
  \/ \E t \in Threads : UserCall(t) \/ InCall(t)
  \/ \E w \in Workers : Publish(w) \/ Leave(w) \/ Poll(w) \/ Dispatcher(w)

Spec == Init /\ [][Next]_vars

-----------------------------------------------------------------------------
(* Safety *)

\* Every variable has its type.
TypeOK ==
  /\ running \in BOOLEAN /\ barrier \in Int /\ number_of_threads \in Nat
  /\ created \subseteq Fibers /\ spawned \in Int /\ blocked \in Int
  /\ fibers \in [Fibers -> Nat] /\ awaiting \in [Fibers -> Nat]
  /\ tasks \subseteq Tasks /\ waiting \subseteq Fibers
  /\ status \in [Fibers -> {"initialized", "running", "ended", "yielded", "blocked"}]
  /\ exec \in [Fibers -> {"ready", "executing"}]
  /\ job \in [Fibers -> Tasks \cup {NoTask}]
  /\ pc \in [Threads -> PCs]
  /\ fib \in [Threads -> Fibers \cup {NoFiber}]
  /\ arg \in [Threads -> Fibers \cup {NoFiber}]
  /\ task \in [Threads -> Tasks \cup {NoTask}]
  /\ reg \in [Threads -> Int]
  /\ parking \in [Threads -> BOOLEAN]
  /\ pushed \subseteq Tasks /\ done \subseteq Tasks

\* Thread t has resumed fiber f and not yet released it.
Executes(t, f) == fib[t] = f /\ pc[t] \in ExecPC

\* Thread t is the one that decides where fiber f goes next.
Holds(t, f) ==
  \/ fib[t] = f /\ pc[t] \in HandPC
  \/ fib[t] = f /\ pc[t] \in UserPC \cup {"back"} /\ ~parking[t]
  \/ arg[t] = f /\ pc[t] \in {"pbind", "unblock", "wake"}

\* No two threads run one fiber, or still stand on its stack: the dispatcher's
\* ready/executing handshake covers a fiber that is woken before it has blocked.
ExclusiveRun ==
  \A f \in Fibers, t, u \in Threads : Executes(t, f) /\ Executes(u, f) => t = u

\* A fiber is never in two of _fibers, _awaiting_fibers, a waiting list and the
\* hands of a thread, nor twice in one of them.
NoDuplicate ==
  \A f \in Fibers :
    /\ fibers[f] \in {0, 1} /\ awaiting[f] \in {0, 1}
    /\ fibers[f] = 1 => awaiting[f] = 0 /\ f \notin waiting
    /\ awaiting[f] = 1 => f \notin waiting
    /\ \A t \in Threads : Holds(t, f) => fibers[f] = 0 /\ awaiting[f] = 0 /\ f \notin waiting
    /\ \A t, u \in Threads : Holds(t, f) /\ Holds(u, f) => t = u

\* A fiber the pool has created is never dropped: it is in a queue, in a waiting
\* list, or in the hands of a thread.
NoLeak ==
  \A f \in created :
    \/ fibers[f] > 0 \/ awaiting[f] > 0 \/ f \in waiting
    \/ \E t \in Threads : Holds(t, f)

\* The dispatcher finds its fiber ended, yielded or blocked
\* ("Fiber ended with unexpected status", fiber_pool.hpp:561), and a fiber is only
\* resumed with a task ("Attempting to use a fiber without task", fiber_pool.hpp:63).
StatusKnown ==
  \A t \in Threads :
    fib[t] # NoFiber =>
      /\ pc[t] = "back" => status[fib[t]] \in {"ended", "yielded", "blocked"}
      /\ pc[t] \in UserPC => status[fib[t]] = "running"
      /\ pc[t] \in UserPC \cup {"dispatch", "back"} => job[fib[t]] # NoTask

Copies(k) ==
  Cardinality({t \in Threads : task[t] = k})
  + Cardinality({f \in Fibers : job[f] = k /\ status[f] # "ended"})
  + Cardinality(tasks \cap {k})

\* A pushed task exists exactly once until it returns, and not at all afterwards:
\* none is lost between the two queues and none runs twice.
TaskConserved ==
  \A k \in Tasks : Copies(k) = IF k \in pushed \ done THEN 1 ELSE 0

\* Fibers whose unblock has not yet counted down, and fibers whose dispatcher has
\* not yet counted up.
NotDecremented == waiting \cup {arg[t] : t \in {u \in Threads : pc[u] = "unblock"}}
NotIncremented == {fib[t] : t \in {u \in Threads : parking[u]}}

\* _number_of_blocked_fibers may run ahead and behind, even below zero, but only by
\* the fibers that are right now between publishing themselves and being counted.
BlockedExact ==
  Track => blocked = Cardinality(NotDecremented \ NotIncremented)
            - Cardinality(NotIncremented \ NotDecremented)

AllExited == \A w \in Workers : pc[w] = "exited"

\* Workers leave one by one after end(), on a check of three values that is not
\* atomic; still no runnable fiber and no queued task outlives the last of them,
\* unless a thread that is not a worker pushes.
ExitDrains ==
  AllExited /\ Main \in Workers => tasks = {} /\ \A f \in Fibers : awaiting[f] = 0

\* The destructor runs when no fiber is in use and frees all but those that are
\* blocked for good.
LeakOnlyBlocked ==
  pc[Main] = "gone" /\ Main \in Workers =>
    created \subseteq waiting /\ \A f \in Fibers : exec[f] = "ready"

\* The unsynchronized updates of _number_of_spawned_fibers lose counts, and one that
\* reads another's refused ++ keeps it; but push is refused a new fiber only when the
\* pool has maximum_fibers of them, and before that the counter is never too high.
RefusedOnlyWhenFull ==
  pc[Main] # "gone" =>
    /\ spawned > Cardinality(created) => MaxFibers <= Cardinality(created)
    /\ \A t \in Threads : pc[t] = "pcap" => MaxFibers <= Cardinality(created)

-----------------------------------------------------------------------------
(* The strengthening that makes ExclusiveRun, NoDuplicate and NoLeak inductive *)

\* What a thread at each program point has in its hands.
Hands ==
  \A t \in Threads :
    /\ pc[t] \in HandPC \cup {"back", "release"} => fib[t] \in Fibers
    /\ pc[t] \notin HandPC \cup ExecPC => fib[t] = NoFiber
    /\ fib[t] # NoFiber => t \in Workers
    /\ pc[t] \in {"pbind", "unblock", "wake"} => arg[t] \in Fibers /\ arg[t] # fib[t]
    /\ parking[t] => pc[t] \in UserPC \cup {"back"} /\ fib[t] # NoFiber

\* execution_status tells whether a thread is on the fiber's stack.
Handshake ==
  /\ \A t \in Threads, f \in Fibers : Executes(t, f) => exec[f] = "executing"
  /\ \A t \in Threads : pc[t] = "dispatch" => exec[fib[t]] = "ready"

\* A fiber that comes back is parked iff its status says so.
BackStatus ==
  \A t \in Threads :
    /\ pc[t] = "back" => /\ status[fib[t]] \in {"ended", "yielded", "blocked"}
                         /\ parking[t] <=> status[fib[t]] = "blocked"
    /\ pc[t] \in UserPC /\ fib[t] # NoFiber => status[fib[t]] = "running"

\* Fiber f has come out of _fibers, or is new, and has not been given a task yet.
Free(f) ==
  \/ fibers[f] > 0
  \/ \E t \in Threads : fib[t] = f /\ pc[t] \in {"gettask", "bind", "giveback"}
  \/ \E t \in Threads : arg[t] = f /\ pc[t] = "pbind"

\* A free fiber has no code under way: at most its last dispatcher must release it.
FreeIsIdle ==
  \A f \in Fibers : Free(f) =>
    \A t \in Threads : ~ (fib[t] = f /\ pc[t] \in UserPC \cup {"back"})

\* A fiber that has not been created yet is nowhere.
UncreatedIsNowhere ==
  \A f \in Fibers \ created :
    /\ fibers[f] = 0 /\ awaiting[f] = 0 /\ f \notin waiting
    /\ \A t \in Threads : ~Holds(t, f) /\ ~Executes(t, f)

\* A fiber that runs or may be resumed has a task, and so has a thread about to give one.
HasTask ==
  /\ \A t \in Threads : pc[t] \in PushPC \cup {"bind", "rebind"} => task[t] \in Tasks
  /\ \A f \in Fibers : awaiting[f] > 0 \/ f \in waiting => job[f] \in Tasks
  /\ \A t \in Threads :
       /\ pc[t] \in {"check", "requeue", "dispatch", "back"} => job[fib[t]] \in Tasks
       /\ pc[t] \in UserPC /\ fib[t] # NoFiber => job[fib[t]] \in Tasks
       /\ pc[t] \in {"unblock", "wake"} => job[arg[t]] \in Tasks

\* join has waited for all workers.
JoinedAll ==
  pc[Main] \in {"joined", "gone"} => \A w \in Workers \ {Main} : pc[w] = "exited"

\* Every fiber is where exactly one party decides about it, from its creation on.
Custody ==
  /\ NoDuplicate /\ NoLeak /\ ExclusiveRun
  /\ Hands /\ Handshake /\ BackStatus /\ HasTask
  /\ FreeIsIdle /\ UncreatedIsNowhere /\ JoinedAll

-----------------------------------------------------------------------------
(* The contract: tasks as the users of the pool see them *)

Running(k) ==
  \E t \in Workers : /\ fib[t] # NoFiber /\ job[fib[t]] = k
                    /\ pc[t] \in UserPC /\ ~parking[t]
Parked(k) ==
  \E f \in Fibers : /\ job[f] = k /\ status[f] # "ended"
                   /\ \/ f \in waiting
                      \/ \E t \in Threads : arg[t] = f /\ pc[t] \in {"unblock", "wake"}

PhaseOf(k) ==
  CASE k \notin pushed -> "new"
    [] k \in done -> "done"
    [] k \in pushed \ done /\ Running(k) -> "running"
    [] k \in pushed \ done /\ Parked(k) -> "parked"
    [] OTHER -> "pending"

Contract == INSTANCE TaskScheduler WITH phase <- [k \in Tasks |-> PhaseOf(k)]

\* The pool implements the task scheduler its users rely on.
Implements == Contract!Spec

-----------------------------------------------------------------------------
(* Liveness.  Threads are scheduled fairly, a task keeps returning to the  *)
(* dispatcher, and the queue hands out every fiber that stays in it.       *)

\* What a thread does next when it is not in user code.
GoesOn(t) == InCall(t) \/ (t \in Workers /\ (Poll(t) \/ Dispatcher(t)))

Fairness ==
  /\ WF_vars(Lifecycle)
  /\ \A t \in Threads : WF_vars(GoesOn(t))
  /\ \A w \in Workers : SF_vars(Leave(w))
  /\ \A f \in Fibers : SF_vars(\E w \in Workers : PollTake(w, f))

FairSpec == Spec /\ Fairness

\* A fiber that a waker has taken from a waiting list runs again, even if it was
\* woken before it had blocked.
WakeupNotLost ==
  \A f \in Fibers :
    (\E t \in Threads : arg[t] = f /\ pc[t] \in {"unblock", "wake"})
      ~> (\E w \in Workers : fib[w] = f /\ pc[w] = "body" /\ ~parking[w])

\* Every task that keeps getting the thread returns.
FinishSpec ==
  FairSpec /\ \A f \in Fibers : SF_vars(\E w \in Workers : fib[w] = f /\ Finish(w))

\* A task queued for want of a fiber gets one, even if every fiber of the pool is
\* blocked for good: the dispatcher then creates another.
QueuedTaskRuns == \A k \in Tasks : k \in tasks ~> k \notin tasks
=============================================================================
