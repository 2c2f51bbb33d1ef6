# Tamashii in TLA+

Tamashii is a fiber (user-level task) library for C++: a pool of worker threads
runs fibers, fibers run the functions handed to `fiber_pool::push`, and a set of
synchronization primitives blocks and unblocks fibers instead of threads. This
directory holds the TLA+ specifications of the library, the TLC configurations
that check them, and proofs that TLAPS checks. Paths below are relative to
`src/src/`.

## 1. Inventory

| component | state | operations | who it talks to |
|---|---|---|---|
| fiber pool (`pool/`) | `_fibers`, `_awaiting_fibers`, `_tasks` (three `moodycamel::ConcurrentQueue`s), `_running`, `_number_of_spawned_fibers` (plain), `_number_of_blocked_fibers` (atomic, debug builds), and per process the worker ids with the tables they index: `_thread_ids`, `_running_fibers`, `_dispatcher_fibers` | `start`, `push`, `end`, `join`, destructor, `worker_thread`, `enable_main_thread_calls_here`, and for fibers `yield`, `block`, `unblock` | resumes fibers; is called by tasks and by every primitive |
| fiber (`core/`) | `_status`, `_execution_status`, `_function`, `_counter`, `_fiber_pool`, `_ctx`, `_former_ctx` | `reset`, `resume`, `yield`, `yield_blocking`, `execute` | switched to by a dispatcher; on its end calls `counter::done` |
| spin barrier (`synchronization/spinbarrier`) | number of threads still to come | `wait`, `reset` | the worker threads, once per `start` |
| mutex | status (4 values), waiting list | `lock`, `try_lock`, `unlock`, moves | `block` and `unblock` of the pool |
| condition variable | waiting list | `wait`, `notify_one`, `notify_all` | mutex, pool |
| counter | `_size`, `_done`, one fiber, `_ignore_waiter` | `increase` (from `push`), `done` (from `execute`), `wait`, `reset` | pool, fiber |
| barrier, one way barrier | size or count, waiting list | `wait`, `decrease`, `reset` | pool |
| event, channel | the awaiting fiber; a queue | `wait`, `notify`; `push`, `pop` | pool |
| executor (`ext/executor`) | `_running`, `_pending`, a queue of jobs | `push`, `start`, `stop`, `join` | mutex, condition variable, pool |
| spinlock | one atomic flag | `lock` with a time limit, `try_lock`, `unlock` | threads |
| SPMC queue (`container/`) | `top`, `bottom`, a growing array | `push`, `pop`, `steal` | no user in the repository |
| fiber and thread local arrays, `badge`, context switch | | | |

`main.cpp` is a demo program; its asserts are the closest thing the repository
has to a test suite.

What is hard here:

* **Waking before blocking.** Every primitive makes a fiber visible to its wakers
  and only then calls `block`. A fiber may therefore sit in `_awaiting_fibers`
  while another thread is still on its stack. Only `execution_status`, a plain
  handshake between two dispatchers, keeps a second thread off that stack.
* **Ownership of fibers.** A fiber moves between two queues, waiting lists and
  the hands of several threads. It must never be in two places (two threads
  would run it) nor in none (the pool would shrink).
* **Ownership of tasks.** A task goes into a fiber at once, or to `_tasks` and
  into a fiber later, in several non-atomic steps.
* **Two counters.** `_number_of_blocked_fibers == _number_of_spawned_fibers` is
  the escape from "all fibers are blocked", but one is updated late and the
  other without synchronization.
* **Leaving.** A worker leaves after looking at two queues and a flag, one after
  the other, while others push and requeue.
* **Lists that are enqueued to in one step and published in another**: mutex,
  condition variable, counter, barriers.
* **Several pools in one process.** Worker ids are handed out for good from one
  `uint8_t`, thread ids come and go, and everything a fiber asks about itself
  (`this_fiber`, its dispatcher, its pool) goes through the id of the thread that
  happens to run it. A `counter` or an `event` moves a fiber to the pool of
  whoever wakes it.

What makes each part correct:

* pool: one thread per fiber; every fiber in exactly one place; every task run
  exactly once; nothing runnable left behind when the workers leave; a woken
  fiber runs again; a queued task runs even if all fibers are blocked.
* pools in one process: a thread finds its own slot, a fiber finds itself and
  returns to the dispatcher of its thread, dispatchers are deleted once, and a
  fiber that changes pools is still in one place.
* mutex: mutual exclusion; nobody sleeps while the mutex has no owner.
* condition variable: a notification after the wait has released the mutex is
  not lost; the waiter has the mutex again when `wait` returns.
* counter: `wait` returns only when all tasks are done, and does return.
* barriers: nobody passes before everybody has arrived; everybody passes.
* event, channel: a consumer does not miss an element and is not woken twice.
* executor: every job pushed before `stop` is run, `join` returns.
* SPMC queue: every element is handed out once.

## 2. Modules

| module | models | checked by | proved in |
|---|---|---|---|
| `TaskScheduler` | abstract: the life of a task as the pool's users see it | refined by `FiberPool` | |
| `FiberPool` | `fiber_pool` and the fibers it drives | `MCFiberPool` | `FiberPoolProofs`, `FiberPoolAccounts` |
| `Workers` | the threads, worker ids, contexts and dispatchers of a process with several pools | `MCWorkers` | `WorkersProofs` |
| `AbstractLock` | abstract: one owner, nobody asleep without an owner | refined by `Mutex` and `SpinLock` | |
| `Mutex` | `mutex::lock`, `try_lock`, `unlock` | `MCMutex` | `MutexProofs` |
| `Counter` | `counter`, with the pool's calls of it | `MCMainPoolB` | `CounterProofs` |
| `Monitor` | a mutex at its contract, with a `condition_variable` | in `Executor` | |
| `Executor` | `executor` | `MCMainPoolB` | `MainPoolBProofs` |
| `MainPoolB` | `main_pool_b` of `main.cpp`: `Counter` and `Executor` composed | `MCMainPoolB` | `MainPoolBProofs` |
| `OneWayBarrier` | `one_way_barrier` | `MCRendezvous` | `RendezvousProofs` |
| `Barrier` | `barrier` | `MCRendezvous` | `RendezvousProofs` |
| `SpinLock` | `spinlock` | `MCRendezvous` | `RendezvousProofs` |
| `Rendezvous` | tasks that use the three of them: composition | `MCRendezvous` | `RendezvousProofs` |
| `Channel` | `channel` over `event` | `MCChannel` | |
| `WorkDeque` | abstract: a double-ended queue with an owner and thieves | refined by `SpmcQueue` | |
| `SpmcQueue` | `spmc_queue` | `MCSpmcQueue` | `SpmcQueueProofs` |

Each component's module also holds a few faulty variants of its steps
(`NoCheck`, `SeeNobody`, ...). No next-state relation uses them; put in place of the step they
vary, each makes one property fail, which shows that the property depends on that step.

### FiberPool

One action per access to shared memory, together with the thread-local code
around it; `pc` of a thread is its place in `worker_thread`, `push`, `unblock`
or user code. `fib[t]` is the fiber in the local variable `fiber` of
`worker_thread` (and `_running_fibers[idx]` while it runs), `arg[t]` the fiber a
call works on, `task[t]` and `reg[t]` its other locals. A thread at `"body"`
with a fiber is inside user code, and there it may do what the primitives and tasks
do, in any order: `PushTakesFiber` or `PushFindsNoFiber`, `End`, `Publish` (the fiber puts
itself into a waiting list) and then `Block`, `TakeWaiter` and then
`UnblockCount` and `UnblockEnqueue` (a primitive's wake-up), `Yield`, `Finish`.
Once a fiber is published it does nothing but block, as in all primitives
(the wake-up of others, as in `condition_variable::wait`, is part of the
primitives' own modules), and it is unblocked once each time it blocks. `event::notify`
keeps to neither; `Channel` has what the pool makes of that. `Main` is the thread that calls `start`
and `join`; it is one of `Workers` iff `with_main_thread`.

The queues: `ConcurrentQueue` does not order elements of different producers,
so `_fibers` and `_awaiting_fibers` are bags (a function to `Nat`, so that a
duplicate would show), `_tasks` and the waiting lists are sets, and a dequeue
takes any element. A failed dequeue is taken to mean that the queue was empty at
that moment. `_number_of_spawned_fibers` is a plain `uint32_t`; its `++` is a
load and a store, by a push (`GrowLoad`, `GrowStore`) as by a dispatcher (`SpawnLoad`,
`SpawnStore`), for which the compiler may or may not reuse the value just
compared. A dispatcher may therefore load the count a push is about to cap, and store it,
plus one, after the cap. `_running` is a plain bool and is treated as a shared
flag; other effects of weak memory are not modelled.

### Workers

The other side of the pool: `FiberPool` takes "the thread" and "its fiber" for
granted, `Workers` has them as the code finds them. `started` counts
`_fiber_worker_id++`; the tables are functions over the 256 values of the id
(`Slots`). `thread_index` is the first slot below the counter that holds the
caller's thread id, and everything a fiber does (`Yield`, `Block`, `Wait`,
`Unblock`) looks itself, its pool and its dispatcher up through it. The model
does not assume that it finds the right ones: a thread executes `code`, a fiber
saves what is executed in the `_ctx` of the fiber it has found, and continues the
loop it has found, which may be another thread's. That it is always the thread's
own is what is checked and proved.

Contexts are what they are in the `ontop_fcontext` calls of `fiber_base`:
`loop[i]` is the context of the dispatcher in slot *i* (whose call of
`worker_thread` was suspended there), `saved[f]` that of a fiber, `former[f]` the
dispatcher it was last resumed by and returns to when it ends. Both the naked and
the C++ functions that run on top of the new context do this.

Here the queues are sets and there is always a task; `FiberPool` has the rest. A
fiber that is woken goes to the pool it last ran in (mutex, barrier, condition
variable) or to the waker's pool (counter, event). `External` threads call
`start`, `join` and the destructor and are workers if `with_main_thread`; the
threads `start` creates get any id no thread has, so that the id of a joined
thread comes back. What the code asks of its callers is a guard: a thread is main
thread of one pool at a time (`Unregistered`, the assert of `fiber_pool.hpp:326`),
`start`, `join` and the destructor are called in this order by one thread, and
nothing is unblocked into a pool that is destroyed. The calls of `thread_index`
that abort (no slot found) would be evaluation errors and do not occur.

### Mutex

The fibers of a pool, each at a place in `lock`, `try_lock` or `unlock`. A
compare-and-exchange is one step; a failed one that is repeated is a disabled
action. `block` is taken at the pool's contract: it returns once `unblock` has
been called for the fiber, before or after (this is `WakeupNotLost` of the
pool). `TryLockers` are the fibers that also call `try_lock`. `try_lock` may overwrite the status
another fiber has stored (`mutex.cpp:73`); the history variable `spoiled` records it, and what holds only
until then says so.

### Counter, Executor, MainPoolB

In `Counter` a task goes from the push (`size` increased, queued) over its run to `done`: it
yields until `_fiber` is set (`SeeWaiter`), increments `_done` and keeps the value (`reg`), and
compares it with `_size` in a step of its own. The pool is a number of `Fibers`: a
queued task starts when one is free for it. Tasks in `Parents` push others with the same counter
while they run. A wait with `_size = 0` returns at once (`counter.cpp:76`). Nothing keeps the waiter
from resetting while a task is in `done`, and the code does not either (see findings). The history variable `hasty` records that it has
happened: it cannot in the first round, and what holds only until then says so. The stores of `reset` are one step: nobody else is at the counter
unless the reset is hasty, and no property depends on their order after that.

In `Executor` every access to `_running`, `_running_count` and `_pending` is a step, and so is
every call of `lock`; `notify_all` and the unlock that follows are one, since the condition
variable's list is only used by the owner of the mutex (`Monitor`). The queue hands out any job.

`MainPoolB` runs both as `main.cpp:215` and `:252` do: a task's function pushes a job
(`TaskEnqueue` and the executor's steps) before it returns to the counter (`TaskReturn`), and main
pushes the task whose job stops the executor after the first wait has returned. Consumers start when they like, also after the stop
has run, which the history variable `late` records (`main.cpp` ensures no order). A main that has been unblocked while it was not
waiting, as a hasty reset makes possible, is twice in the pool's hands; its part of the model ends there (guard of `FiberStep`). After a hasty reset
or a late start main may sleep for good.

### OneWayBarrier, Barrier, SpinLock, Rendezvous

`Barrier` has one step for the decrement and its test, one per unblocked fiber, and one each for
the enqueue and the return from `block`; a barrier of size *n* opens for *n* + 1 fibers, as the
code's loop waits for *n* fibers in the list beside the last arrival. `OneWayBarrier` has the
decrement and its test, the loop that waits for the waiter, and the unblock. In `Rendezvous` tasks
meet at the barrier, may use the spinlock, and then decrease the one way barrier their starter
waits for; it then resets both. That starter is `main_fiber` (`main.cpp:169`), the uses of the
lock are those of `f1_spinlock` (`main.cpp:92`); no code of the repository uses `barrier`.

In `SpinLock` the clock is a choice: any look at it may find the deadline passed.

### Channel

`push_blocking` and `pop_blocking` step by step. `notify` does not clear `_awaiter`, so it puts the consumer's fiber into
`_awaiting_fibers` again and again, blocked or not. Therefore this module has the pool's side of that fiber too, as in `FiberPool` but with
duplicates: `entries` is how often it is queued, `exec` its execution status, `at[w]` the place of a dispatcher that has taken an entry
(`Poll`, `Check`, `Requeue` or `Dispatch`; `Block`, `Release` on the way out). The mutex it locks in `pop_blocking` and in
`event::wait` is part of it: a lock that fails enters the mutex's list and blocks (`listed`), any unblock makes it try again, and an unlock queues the
fiber as often as it is listed. The producers' fibers are not unblocked twice and take the mutex at its contract. When two
dispatchers have both resumed the consumer (`Torn`) what its stack holds is undefined; the model ends there for the consumer and the dispatchers. `Push` and `Pop` are the calls that do not block; they count nothing.

### SpmcQueue

One access to `top_`, `bottom_`, `array_` or to a slot that another thread may access is one step.
The owner pushes and pops, thieves steal; indices wrap at `SizeMax + 1`. The fences are taken to make
these accesses sequentially consistent. An array is a record of its capacity and its slots. No code of the repository uses the queue.

## 3. Runs

| run | instance | shows |
|---|---|---|
| `pool_core` | 3 workers (one is `Main`), 2 fibers, 3 tasks | all interleavings of three dispatchers: exclusive execution, no duplicate, no lost or repeated task, a clean exit and destruction |
| `pool_grow` | 2 workers, a separate `Main`, up to 4 fibers created on demand, 3 tasks, `Track` | racing creations lose counts, but a push is refused a fiber only when the pool has its maximum; no fiber is leaked; the count of blocked fibers is exact up to the fibers in transit; the pool implements `TaskScheduler` |
| `pool_live` | 2 workers, 2 fibers, 2 tasks | a woken fiber runs again |
| `pool_escape` | 1 worker, 1 + 2 fibers, 3 tasks, `Track` | a queued task runs although all fibers block for good |
| `workers` | 2 pools, `m` and 2 threads that starts create, 2 fibers, 4 worker ids | a thread finds its own slot, a fiber itself, its pool and its thread's dispatcher; dispatchers are deleted once; a fiber is in one place, whatever pools it went through |
| `mutex_core` | 4 fibers, 2 of them with `try_lock` | mutual exclusion and the use of list entries in any case; until `try_lock` spoils it no lost wake-up, blocked fibers are woken, the mutex is always handed on, refinement of `AbstractLock` |
| `spmc_core` | an owner, 2 thieves, 4 elements, an array that grows from 1 to 4 | every element is taken once, `pop` finds what is there, refinement of `WorkDeque` |
| `main_pool_b` | 3 tasks, one pushed by another, 2 consumers, 2 rounds, up to the first hasty reset or late start (`Timely`) | `wait` returns when all tasks are done and unblocks once; the job count is exact although it may wrap; nobody leaves a job behind, nobody sleeps without a reason; `wait` and `join` return |
| `rendezvous` | 4 tasks, barrier of size 3, 2 rounds | nobody passes the barrier early or is stranded, nobody touches a barrier after the wait has returned, `wait` returns, the spinlock implements `AbstractLock` |
| `channel` | 2 producers, 2 values each, 5 pops, blocking or not, 2 dispatchers | the consumer does not sleep for good beside a value, unless two threads resume it |
| `main_pool_b_reset` | as `main_pool_b`, without a constraint | **fails**: main is unblocked while it runs, by a task of the first round (see findings) |
| `channel_torn` | as `channel` | **fails**: two dispatchers resume the consumer (see findings) |

**Bounds.** Two fibers and three tasks are the least with which a task is
queued, a fiber is reused and another one blocked at the same time; three
threads the least with which a waker, the dispatcher a fiber is leaving and the
dispatcher that takes it too early all differ. Each task is pushed once and all
code is symmetric in tasks and fibers. `Fibers` bounds the creation of fibers:
with `Track` it is larger than the number of fibers that three tasks can block
plus those the escape can create, so the bound is never what stops a step.
Four fibers at a mutex are an owner, one enqueueing, one asleep, one newcomer; two of them that
call `try_lock` are enough for one that has the mutex and one that spoils it.
In `workers`, two pools are what a fiber needs to change pools, and to start one while the
other runs; each start takes two ids at most (`MaxSpawned = 1` and the main thread's), so `MaxStarts = 4`
lets both pools start in full. `Slots = 5` is the smallest table for that: with `Slots = 4` the
fourth start takes the counter back to zero and `thread_index` finds nobody. Two threads are created and
joined, and either may come back with the id of the other; one fiber was created by each pool.
In `main_pool_b`, two consumers are what it takes for one to stop while the other
runs a job, waits or leaves, and three tasks one that is counted late, one that is counted
early, and the one that stops; `Fibers = 3` are two for the tasks, so that one may have to wait
for a fiber. `CountMax = 7` is above every sum of counts, so that a wrapped counter is not
mistaken for a small one. Two rounds are one reset. The constraint of `main_pool_b` leaves out what follows a hasty reset or
a late start. The counter's properties, `NothingLeftBehind`, `WaitReturns` and `JoinReturns` claim nothing after either, and the state in which it happens, which TLC
does check and does not go on from, satisfies their right-hand sides already, so that nothing they claim is cut off. `PendingExact` and `SleepsForAReason` do claim something there;
they are proved for all behaviours (section 4; the second under `Fits`), and hold in all 453,102 states of the instance without the constraint. In `channel`, two dispatchers are what it
takes for one to resume the consumer while another still has it. A thief, another one that overtakes it and
an array that is replaced twice below them are what `steal` has to survive.

**Fairness.** `FairSpec` of the pool: every thread is scheduled (weak fairness
of its steps), a task that runs keeps coming back to its dispatcher (strong
fairness of `Leave`, since the task may do other things in between), and the
queue is fair to an element that stays in it (strong fairness of `PollTake` per
fiber: `ConcurrentQueue` rotates over its producers). `FinishSpec` adds that
tasks return. For the mutex: fibers are scheduled (which is what the pool's
liveness gives them) and critical sections end; nothing is assumed about who
wins a compare-and-exchange, so no individual progress is claimed.

In `main_pool_b` a fiber keeps running, and one that wants the executor's mutex gets it if the mutex is free
again and again (strong fairness of `FiberStep`, whose only step that another fiber can disable is
the lock, up to a hasty reset). Weak fairness is not enough: a consumer that spins over the mutex may keep the job that stops from ever taking it.
In `rendezvous` fibers keep running and no task uses the spinlock for ever; in `channel` as in
`main_pool_b`, and the dispatchers run.

**Deadlock** is checked in all runs but `mutex_core`, where a spoiled mutex may strand all fibers for good,
`workers`, where both pools may have been destroyed or fibers may wait for a waker that has left, and those of the
channel, whose consumer waits for good when the last value has been popped.
In `main_pool_b` a stop other than `MainFinished` is a deadlock, up to a hasty reset or a late start; `main_pool_b_reset` does not check for
one, as it goes on from there.

## 4. Proofs

`FiberPoolProofs` shows for any number of threads, fibers and tasks that
`TypeOK` and `Custody` are invariants. `Custody` says of each fiber that it is
in the hands of exactly one party. Neither exclusive execution nor absence of
duplicates is inductive alone: that no second dispatcher takes a fiber out of a
queue needs that it is there once, that its execution status is `executing`
while a thread is on its stack (`Handshake`), what a thread holds at each
program point (`Hands`), that a fiber parked in a waiting list comes back
`blocked` (`BackStatus`), and that a free fiber has no code under way
(`FreeIsIdle`). The proof has one lemma per action. `ExclusiveRun`,
`NoDuplicate`, `NoLeak` and `StatusKnown` follow.

The pool's other safety properties rest on `Custody`, each with a strengthening of its own:

* `ExitDrains` (`FiberPoolProofs`) from `Drained`: while something is queued, some worker has not made its last look at that queue. A
  worker on its way out has found the queue empty, and what came in since was put there by another worker, which will look again.
* `LeakOnlyBlocked` (`FiberPoolProofs`) from `ExecutingIsExecuted`: a fiber marked as executing is one a thread is on.
* `BlockedExact` (`FiberPoolAccounts`) is itself inductive: each step of a waker and of a dispatcher moves one fiber
  into or out of one of the two sets that may run ahead of each other (`Lead`).
* `RefusedOnlyWhenFull` (`FiberPoolAccounts`) from `GrowthBounded`, which says what every thread between its load and its
  store has read: no more than the number of fibers, unless there are `MaxFibers` of them. Once there are, a push's refused `++` may be
  read before the cap and the counter stay too high; there is nothing left to refuse then.
* `TaskConserved` (`FiberPoolAccounts`) from `Employment`: a fiber that is queued, parked or about to run has a task that has not returned (`FibersAlive`), one that
  is about to be given a task has none (`FibersVacant`), so a bind never overwrites a task and an end never takes two.
* `Implements` (`FiberPoolAccounts`): with these, a task is bound to one fiber and that fiber is in one place, so that the phases
  exclude each other and each step of the pool is a step of `TaskScheduler` or leaves all phases as they are. That there is a thread for the task that
  is about to run needs the workers that are in user code to run tasks of their own.

`MutexProofs` shows, for any set of fibers and try-lockers, `MutualExclusion`
(strengthened by `OwnerStatus`) and `OneEntryPerCall`, and, until `try_lock` has
spoiled the mutex, `OwnerWillWake`, that a locked mutex has an owner, and the
refinement of `AbstractLock`, with `Handshake` as the strengthening: the status
tells what the owner does and whether a fiber is enqueueing itself.

`WorkersProofs` shows the five properties of `Workers` for any number of pools,
threads and fibers, from `FewStarts` (fewer ids than a `uint8_t` has values). Its
invariant has three parts, which need each other:

* `Slotted`: a thread that works for a pool has its id in the slot it was started
  with and in no other, no two threads have the same slot, and the dispatcher in
  it is alive;
* `Switched`: a thread executes its own loop or the fiber that loop has resumed,
  which is the one in `_running_fibers`, with the pool and the former context that
  resuming it has set; no other thread has resumed it, since it is not ready, and
  what is saved in a fiber is its own execution;
* `Placed`: a fiber is in one place, and a free one is ready.

`ThisFiberIsMe` needs the first (or the thread finds another slot), `LoopIsOwn`
both, and the second needs the third (or two threads switch to one fiber); `FiberInOnePlace` needs the second (or a fiber
enters somebody else in a waiting list).

`CounterProofs` shows, for any number of tasks, of which any may push others, of fibers and of rounds, that
`wait` returns only when all tasks are done and unblocks the waiter once in each round, until the counter has been
reset with a task in `done` (`hasty`; the run `main_pool_b_reset` shows what happens then). The first round needs
no such condition, as nothing has been reset.
The invariant is about the tasks of one round; those of the rounds before, `O`, have ended. It says that
`_size` and `_done` are the numbers of tasks pushed and counted, that the values tasks have read of `_done` differ, so
that only one of them can find `_size` (`Exact`), and that this one is the one that unblocks: no task is counted, and
with it none can push, after it (`Last`).

`MainPoolBProofs` shows the executor's three safety properties and, since `main_pool_b` uses the counter as `Counter` lets its
users (`ProgramCounts`), the counter's two in this program. The parts of its invariant, which TLC has checked on the instance of
`main_pool_b` before:

* `XTypeOK`, `Held` (a job is queued, held by one consumer, or run) and `Balance` (`_pending` and the pushes that have not counted
  yet are the jobs not finished, plus a multiple of what wraps around) need nothing of the program: `PendingExact` holds for any number of
  jobs, any width of the counter and any order of the calls.
* `Monitored` (who is between `lock` and `unlock`), `Running` (`_running_count` is the number of consumers in `start`) and `Asleep` need
  a `uint32_t` to count the jobs and the consumers (`Fits`). They give `SleepsForAReason`: `_pending` and `_running` change without the mutex, but
  who changes them from what a sleeper has seen calls `notify_all` later. The one step that may not is the decrement of `_pending`; when it wraps below
  zero, the push of the job has still to count and to notify (`ZeroMeansUncounted`), and when it reaches zero, main waits for the
  consumer that does it, which is in `Running`.
* `Ordered` says what the program does in which order, up to a hasty reset, `Stopped` that once the stop has run nobody is about to set `_running` again and somebody looks for jobs
  until there are none, and `Joining` that the consumers have come past `start` (`EarlyPlaces` are those before) when join ends because nobody runs and
  nothing is pending: it has the mutex then, the stop's job has been pushed and finished, so the stop has run, and a start after that would
  be late. The last two hold until a start is late. With these `NothingLeftBehind` follows: the stop is pushed in the second round, when `wait` has returned and all
  other jobs are in the queue. `late` and `hasty` are disjuncts of what is proved and not hypotheses about the program; the one hypothesis is `Fits`.

`RendezvousProofs` shows for any number of tasks and rounds:

* of the one way barrier, whoever uses it, that `wait` returns only when all tasks are through with it, and that the waiter is unblocked once in
  each round: `_size` is the number of tasks that have not decreased it, and the one that reaches zero is alone in going on;
* of the barrier in the program, that nobody passes before all have arrived and that nobody stays in its list: `_waiting` is one less than the tasks still to arrive
  and wraps for the last one, and one fiber opens the barrier, alone and when all others have blocked (`BarrierInv`); reset comes when all have passed, since they go on to the one way barrier only then (`Through`);
* of the spinlock, for threads that look at the result of `lock` (`Careful`), that `unlock` finds the lock
  taken and that it implements `AbstractLock`, alone and in the program.

`SpmcQueueProofs` shows, for any number of thieves, any capacity and fewer pushes than a `size_t` counts, that every element is handed out once, that the
assert of `pop` holds and that the queue implements `WorkDeque`, for an owner that pushes before it pops (`Cautious`). Its invariant has the
order of the indices with the owner's claim (`End` is where the queue ends while `bottom_` is one too low), that a slot between them holds the element of its
index (`Items`), and what a thief holds (`Stealing`): while `top_` is what the thief has read, the array it has, replaced or not, has the same element
there as the current one. So a thief whose exchange succeeds has the right element, and one that has read anything else fails, as `top_` only grows.

Of the theorems listed, `CustodyInvariant`, `LockedIsOwned`, `Invariant`, `CounterInvariant`, `QueueInvariant`, `ProgramCounts`, `BarrierIsLeftAlone`, `BarrierUnblocksOnce`, `UnlockIsSafe`,
`SpinLockImplementsLock` and `ResetIsAllowed` state what no run checks by name; the runs check what follows from them or, like `ReturnsLast`, the same in a program.

So every invariant and every refinement that a passing run checks is proved, under the hypotheses named above. Only model-checked: the liveness properties
(`WaitReturns`, `JoinReturns`, `ValuesArePopped` and those of the pool; fairness is out of these provers' reach), and with them the channel.
The assumptions are the named `ASSUME`s of the modules and the hypotheses the theorems state. Those of `Rendezvous` and `MainPoolB` say how the program is built: as many tasks as
the barrier lets pass, at least one consumer, and a stop that is neither pushed by another task nor pushes one.

## 5. Findings and observations

Two are runs that fail:

* `main_pool_b_reset`: `done` increments `_done` and then reads `_size` (`counter.cpp:70`). A task that was not the last one may
  read it only after the last one has unblocked the waiter, which has reset the counter and pushed again: if the new `_size` is the value the
  task holds, the task unblocks the waiter before the new tasks have run. `main_pool_b` resets and pushes a single task (`main.cpp:230`): the task of the
  first round that was counted first, and holds 1, finds it equal to the new `_size` and unblocks main while main runs. In the trace main has not called
  the second wait yet (`UnblockedOnlyWaiting` fails), and is put into `_awaiting_fibers` without being blocked; its next block returns at once. If main is in that wait
  already, the wait returns before the task that stops has run (`WaitReturnsDone` fails). `main_fiber` does the same (`main.cpp:202`), and asserts what is true only
  when the wait has waited.
* `channel_torn`: `event::notify` never clears `_awaiter` (`event.cpp:11`), so two pushes after a wait put the consumer into `_awaiting_fibers` twice. Two dispatchers take the
  entries, both load `ready` (`fiber_pool.hpp:489`) before either has stored `executing`, and both resume the fiber. Until then the channel loses nothing (`ValuesArePopped`).

The others are statements about instances that can be checked with the modules as they are:

* With a single stray unblock, one dispatcher is enough to go wrong: the consumer's next `wait` returns at once, and `pop_blocking`, which tests `_pending` with an `if`
  since "there is no worries that someone could beat us" (`channel.hpp:65`), decreases a `_pending` of zero. (`channel` without fairness: `TakesWhatIsPending` fails.)
* `try_lock` (`mutex.cpp:73`) exchanges the status to `locked` even if it finds `adding_to_waitlist`. An `unlock` then gets past a
  fiber that is still enqueueing itself, does not see it in the list, and the fiber blocks on a mutex nobody owns, after storing `locked`
  over `unlocked`. (`mutex_core` with deadlock checked ends with a locked mutex, no owner and all four fibers asleep.)
* The 256th worker id of a process takes `_fiber_worker_id` back to zero (`fiber_pool.hpp:300`): every `thread_index` then aborts, and later
  starts share the slots of earlier ones. (`workers` with `Slots = 4`, which the assumption `FewStarts` excludes: `IndexIsOwn` fails.)
* `start` with the main thread does not check, as `enable_main_thread_calls_here` does, that the thread has no id yet; with two, `thread_index` finds
  the older one, whose pool may be over. (`workers` without the `Unregistered` guard of `Start`: `IndexIsOwn` fails.)
* The destructor of a pool that was never started reads two members nothing has set (`fiber_pool.hpp:268`). `Workers` destroys started pools only.
* A fiber that a `counter` or an `event` wakes goes on in the pool of its waker and, when it has ended, stays there. Its own pool has one fiber less and,
  with `TAMASHII_INTERNAL_FIBER_POOL_TRACK_BLOCKED`, counts it as blocked for good, while the other pool's count goes below zero: `BlockedExact` is about one pool.
* `fiber::yield()` without a dispatcher (`fiber_base.cpp:113`) passes the address of the dispatcher's context, not the context, to `ontop_fcontext`. Nothing calls it.
* The ids of fibers are counted with `++` on a plain static variable (`fiber_base.cpp:43`); pushes that create fibers at the same time may give two the same id.
* `pop` on a queue that was never pushed to takes 1 from an unsigned `bottom_` of 0 and takes the empty queue for a full one
  (`spmc_queue.hpp:115`, assert of line 124). (`spmc_core` with `PopFresh = TRUE`: `PopFindsElement` fails.)
* `steal` loads `array_` after `top_` and `bottom_` (`spmc_queue.hpp:149`): a slow thief may read a null slot of a new array and fail the assert of line 151,
  before its exchange would reject the old `top_`. (`spmc_core`: `StealFindsElement` fails.)
* `f1_spinlock` and `f2_spinlock` (`main.cpp:92`) ignore that `lock` may time out, and unlock what they do not hold. (`rendezvous` with `IgnoreResult = TRUE`: `Implements` fails.)
* `executor::start` sets `_running` without looking whether `stop` has been called (`executor.hpp:61`): a start that is late undoes the
  stop, and `join` never returns. Nothing in `main.cpp` makes its second start begin before the stop. (`main_pool_b` without the constraint has such states, with `late`.) `NothingLeftBehind` and `JoinReturns` claim nothing after a late start.
* `++_done == _size` (`counter.cpp:70`) does not order its two reads of atomics for the compiler; the modules take the left one first.
  The other order would be harmless as long as no task pushes with the counter, and wrong when one does.
* `fiber_pool.hpp:459`: with two or more workers the unsynchronized
  `++_number_of_spawned_fibers` of two workers that both find all fibers blocked
  may lose a count. From then on the number of blocked fibers exceeds the
  spawned count, the comparison never holds again and a queued task never runs
  if all fibers stay blocked. `QueuedTaskRuns` is therefore checked with one
  worker.
* The counter may also be too high for good: a worker that loads it between a push's `++` and its cap (`fiber_pool.hpp:381`, `:383`) stores that value plus one after the
  cap, 4 with `maximum_fibers` = 2 and three fibers. `RefusedOnlyWhenFull` says that this takes a full pool.
* A push from a thread that is not a worker, after `end()`, may never run
  (`ExitDrains` excludes it).
* A barrier of size *n* opens for *n* + 1 fibers.
* `pop_blocking` returns a value from a function declared `void` (`channel.hpp:60`) and does not compile when it is used.

## 6. Plan

Done: the pool, several pools in one process, the mutex with `try_lock`, the counter, the executor with its condition variable, the barriers, the
spinlock, the channel and the queue, at the grain described above, and the proofs of their invariants and refinements. What is left is, in this order:

1. Safety of the channel that its liveness rests on: a consumer that sleeps is the one `_awaiter` names, or somebody is about to unblock it.
2. The executor over `Mutex` itself, in place of the contract in `Monitor`.

### Not modelled

* Moves of a mutex, of a counter and of a fiber: no code of the repository moves one, and nothing says what the move of one in use should do. A moved mutex copies
  the status (`mutex.cpp:18`), so that the copy of a locked one is locked without an owner.
* `condition_variable::notify_one`, the counter's `on_wait_end` callback and a second wait on a counter without reset, which an assert excludes: no code uses them. `ignore_waiter` is
  the mode of the dummy counter, whose `done` is counted by nobody.
* `fiber_local`, the arrays of `thread_local` and the `*_scmp` pointers (array indexing without control; their index bounds are listed as hazards), `badge` (types only).
* A fiber that is resumed without a pool, which an assert of `execute` forbids; stack memory, guard pages and registers.
* Logging and profiling, and the parts of `main.cpp` that only log or compute.
* Effects of weak memory on plain variables, other than the lost increments of `_number_of_spawned_fibers`.
