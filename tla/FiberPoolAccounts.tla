------------------------- MODULE FiberPoolAccounts -------------------------
(***************************************************************************)
(* Machine-checked properties of the counters of FiberPool and of the      *)
(* tasks it is given, for every set of threads, of fibers and of tasks,    *)
(* and that the pool implements TaskScheduler for its tasks.  All of them  *)
(* rest on Custody, which FiberPoolProofs shows inductive.                 *)
(***************************************************************************)
EXTENDS FiberPoolProofs

USE DEF Threads, pool, queues, fiber, thread, hist

-----------------------------------------------------------------------------
(* Two sets of which each may run ahead of the other *)

Lead(S, T) == Cardinality(S \ T) - Cardinality(T \ S)

LEMMA LeadType ==
  ASSUME NEW S, IsFiniteSet(S), NEW T, IsFiniteSet(T)
  PROVE  /\ Cardinality(S \ T) \in Nat /\ Cardinality(T \ S) \in Nat
         /\ IsFiniteSet(S \ T) /\ IsFiniteSet(T \ S)
<1>1. S \ T \in SUBSET S /\ T \ S \in SUBSET T
  OBVIOUS
<1>2. IsFiniteSet(S \ T) /\ IsFiniteSet(T \ S)
  BY <1>1, FS_Subset
<1> QED
  BY <1>2, FS_CardinalityType

LEMMA LeadLoses ==
  ASSUME NEW S, IsFiniteSet(S), NEW T, IsFiniteSet(T), NEW f \in S
  PROVE  Lead(S \ {f}, T) = Lead(S, T) - 1 /\ Lead(T, S \ {f}) = Lead(T, S) + 1
<1>0. /\ IsFiniteSet(S \ T) /\ Cardinality(S \ T) \in Nat
      /\ IsFiniteSet(T \ S) /\ Cardinality(T \ S) \in Nat
  BY LeadType
<1>1. CASE f \in T
  <2>1. (S \ {f}) \ T = S \ T /\ T \ (S \ {f}) = (T \ S) \cup {f} /\ f \notin T \ S
    BY <1>1
  <2>2. Cardinality((T \ S) \cup {f}) = Cardinality(T \ S) + 1
    BY <1>0, <2>1, FS_AddElement
  <2> QED
    BY <1>0, <2>1, <2>2 DEF Lead
<1>2. CASE f \notin T
  <2>1. (S \ {f}) \ T = (S \ T) \ {f} /\ T \ (S \ {f}) = T \ S /\ f \in S \ T
    BY <1>2
  <2>2. Cardinality((S \ T) \ {f}) = Cardinality(S \ T) - 1
    BY <1>0, <2>1, FS_RemoveElement
  <2> QED
    BY <1>0, <2>1, <2>2 DEF Lead
<1> QED
  BY <1>1, <1>2

-----------------------------------------------------------------------------
(* _number_of_blocked_fibers *)

LEMMA CountedAreCreated ==
  ASSUME TypeOK, Custody
  PROVE  /\ NotDecremented \subseteq created /\ IsFiniteSet(NotDecremented)
         /\ NotIncremented \subseteq created /\ IsFiniteSet(NotIncremented)
         /\ IsFiniteSet(created)
<1> USE DEF TypeOK, Custody
<1>1. waiting \subseteq created
  BY DEF UncreatedIsNowhere
<1>2. \A t \in Threads : pc[t] = "unblock" => arg[t] \in created
  BY DEF Hands, UncreatedIsNowhere, Holds
<1>3. \A t \in Threads : parking[t] => fib[t] \in created
  BY DEF Hands, UncreatedIsNowhere, Executes, ExecPC
<1>4. IsFiniteSet(created)
  BY ConstantsAssumption, FS_Subset
<1>5. NotDecremented \subseteq created /\ NotIncremented \subseteq created
  BY <1>1, <1>2, <1>3 DEF NotDecremented, NotIncremented
<1> QED
  BY <1>4, <1>5, FS_Subset

\* Most steps concern no fiber that has yet to be counted.
LEMMA NothingToCount ==
  ASSUME BlockedExact, waiting' = waiting, blocked' = blocked,
         \A u \in Threads : /\ pc'[u] = "unblock" <=> pc[u] = "unblock"
                            /\ pc[u] = "unblock" => arg'[u] = arg[u]
                            /\ parking'[u] <=> parking[u]
                            /\ parking[u] => fib'[u] = fib[u]
  PROVE  BlockedExact'
<1>1. {arg[t] : t \in {u \in Threads : pc[u] = "unblock"}}'
        = {arg[t] : t \in {u \in Threads : pc[u] = "unblock"}}
  OBVIOUS
<1>2. NotDecremented' = NotDecremented
  BY <1>1 DEF NotDecremented
<1>3. NotIncremented' = NotIncremented
  BY DEF NotIncremented
<1> QED
  BY <1>2, <1>3 DEF BlockedExact

LEMMA PublishCounts ==
  ASSUME TypeOK, Custody, BlockedExact, NEW w \in Workers, Publish(w)
  PROVE  BlockedExact'
<1> DEFINE f == fib[w]
<1> USE DEF Publish, TypeOK, Custody
<1>1. Holds(w, f) /\ Executes(w, f) /\ f \in Fibers
  BY DEF Holds, Executes, UserPC, ExecPC, Hands
<1>2. f \notin NotDecremented
  BY <1>1 DEF NotDecremented, NoDuplicate, Holds
<1>3. f \notin NotIncremented
  BY <1>1 DEF NotIncremented, ExclusiveRun, Hands, Executes, ExecPC
<1>4. NotDecremented' = NotDecremented \cup {f}
  BY DEF NotDecremented
<1>5. NotIncremented' = NotIncremented \cup {f}
  BY DEF NotIncremented
<1>6. /\ NotDecremented' \ NotIncremented' = NotDecremented \ NotIncremented
      /\ NotIncremented' \ NotDecremented' = NotIncremented \ NotDecremented
  BY <1>2, <1>3, <1>4, <1>5
<1> QED
  BY <1>6 DEF BlockedExact

LEMMA TakeWaiterCounts ==
  ASSUME TypeOK, Custody, BlockedExact, NEW t \in Threads, NEW f \in Fibers, TakeWaiter(t, f)
  PROVE  BlockedExact'
<1> SUFFICES ASSUME Track PROVE BlockedExact'
  BY DEF BlockedExact
<1> USE DEF TakeWaiter, Goto, TypeOK
<1>1. NotDecremented' = NotDecremented
  <2>1. {arg[u] : u \in {v \in Threads : pc[v] = "unblock"}}'
          = {arg[u] : u \in {v \in Threads : pc[v] = "unblock"}} \cup {f}
    OBVIOUS
  <2> QED
    BY <2>1 DEF NotDecremented
<1>2. NotIncremented' = NotIncremented
  BY DEF NotIncremented
<1> QED
  BY <1>1, <1>2 DEF BlockedExact

LEMMA UnblockCounts ==
  ASSUME TypeOK, Custody, BlockedExact, NEW t \in Threads, UnblockCount(t)
  PROVE  BlockedExact'
<1> DEFINE f == arg[t]
<1> USE DEF UnblockCount, Goto, TypeOK, Custody
<1>1. Holds(t, f) /\ f \in Fibers
  BY DEF Holds, Hands
<1>2. \A u \in Threads : pc[u] = "unblock" /\ arg[u] = f => u = t
  BY <1>1 DEF NoDuplicate, Holds
<1>3. f \notin waiting
  BY <1>1 DEF NoDuplicate
<1>4. NotDecremented' = NotDecremented \ {f}
  <2>1. {arg[u] : u \in {v \in Threads : pc[v] = "unblock"}}'
          = {arg[u] : u \in {v \in Threads : pc[v] = "unblock"}} \ {f}
    BY <1>2
  <2> QED
    BY <2>1, <1>3 DEF NotDecremented
<1>5. NotIncremented' = NotIncremented /\ f \in NotDecremented
  BY DEF NotIncremented, NotDecremented
<1>6. Lead(NotDecremented', NotIncremented') = Lead(NotDecremented, NotIncremented) - 1
  BY <1>4, <1>5, CountedAreCreated, LeadLoses
<1> QED
  BY <1>6 DEF BlockedExact, Lead

LEMMA BackBlockedCounts ==
  ASSUME TypeOK, Custody, BlockedExact, NEW w \in Workers, BackBlocked(w)
  PROVE  BlockedExact'
<1> SUFFICES ASSUME Track PROVE BlockedExact'
  BY DEF BlockedExact
<1> DEFINE f == fib[w]
<1> USE DEF BackBlocked, Goto, TypeOK, Custody
<1>1. parking[w] /\ Executes(w, f) /\ f \in Fibers
  BY DEF BackStatus, Executes, ExecPC, Hands
<1>2. \A u \in Threads : parking[u] /\ fib[u] = f => u = w
  BY <1>1 DEF ExclusiveRun, Executes, Hands, ExecPC
<1>3. NotIncremented' = NotIncremented \ {f}
  BY <1>2 DEF NotIncremented
<1>4. NotDecremented' = NotDecremented
  BY DEF NotDecremented
<1>5. f \in NotIncremented
  BY <1>1 DEF NotIncremented
<1>6. Lead(NotDecremented', NotIncremented') = Lead(NotDecremented, NotIncremented) + 1
  BY <1>3, <1>4, <1>5, CountedAreCreated, LeadLoses
<1> QED
  BY <1>6 DEF BlockedExact, Lead

LEMMA NextBlockedExact ==
  ASSUME TypeOK, TypeOK', Custody, BlockedExact, [Next]_vars
  PROVE  BlockedExact'
<1> USE NothingToCount DEF Goto, TypeOK
<1>1. CASE Lifecycle
  BY <1>1 DEF Lifecycle, Start, Spawned, Join, Destroy, SpawnWorker, Arrive, Pass
<1>2. ASSUME NEW t \in Threads, UserCall(t) PROVE BlockedExact'
  <2>1. CASE End(t)
    BY <2>1 DEF End
  <2>2. ASSUME NEW k \in Tasks, PushFindsNoFiber(t, k) PROVE BlockedExact'
    BY <2>2 DEF PushFindsNoFiber
  <2>3. ASSUME NEW k \in Tasks, NEW f \in Fibers, PushTakesFiber(t, k, f) PROVE BlockedExact'
    BY <2>3 DEF PushTakesFiber
  <2> QED
    BY <1>2, <2>1, <2>2, <2>3, TakeWaiterCounts DEF UserCall
<1>3. ASSUME NEW t \in Threads, InCall(t) PROVE BlockedExact'
  BY <1>3, UnblockCounts
     DEF InCall, GrowLoad, GrowStore, GrowCap, PushFiber, PushTask, UnblockEnqueue,
         ResetAndAwait
<1>4. ASSUME NEW w \in Workers, Publish(w) \/ Leave(w) PROVE BlockedExact'
  BY <1>4, PublishCounts DEF Leave, Block, Yield, Finish
<1>5. ASSUME NEW w \in Workers, pc[w] \notin UserPC \cup {"back"} PROVE ~parking[w]
  BY <1>5 DEF Custody, Hands
<1>6. ASSUME NEW w \in Workers, Poll(w) PROVE BlockedExact'
  BY <1>6, <1>5 DEF Poll, PollEmpty, PollTake, UserPC, PushPC
<1>7. ASSUME NEW w \in Workers, Dispatcher(w) PROVE BlockedExact'
  <2>1. CASE Cold(w) \/ ExitCheck(w) \/ GetNoFiber(w) \/ LoadBlocked(w) \/ Compare(w)
              \/ SpawnLoad(w) \/ GetNoTask(w) \/ Check(w) \/ Dispatch(w) \/ \E k \in Tasks : GetTask(w, k)
    BY <2>1
       DEF Cold, ExitCheck, GetNoFiber, LoadBlocked, Compare, SpawnLoad, GetNoTask, Check,
           Dispatch, GetTask
  <2>2. CASE SpawnStore(w) \/ GiveBack(w) \/ Bind(w) \/ Requeue(w) \/ Release(w)
              \/ \E f \in Fibers : GetFiber(w, f)
    BY <2>2, <1>5
       DEF SpawnStore, GiveBack, Bind, Requeue, Release, GetFiber, ResetAndAwait, UserPC,
           PushPC
  <2>3. CASE BackEnded(w) \/ Rebind(w) \/ Shelve(w) \/ BackYielded(w)
    BY <2>3 DEF BackEnded, Rebind, Shelve, BackYielded, ResetAndAwait
  <2> QED
    BY <1>7, <2>1, <2>2, <2>3, BackBlockedCounts DEF Dispatcher
<1>8. CASE UNCHANGED vars
  BY <1>8 DEF vars
<1> QED
  BY <1>1, <1>2, <1>3, <1>4, <1>6, <1>7, <1>8 DEF Next, Gone

LEMMA InitBlockedExact == Init => BlockedExact
<1> SUFFICES ASSUME Init PROVE BlockedExact
  OBVIOUS
<1>1. NotDecremented = {} /\ NotIncremented = {}
  BY DEF Init, NotDecremented, NotIncremented
<1> QED
  BY <1>1, FS_EmptySet DEF Init, BlockedExact

\* The counter of blocked fibers is off by exactly the fibers that are between being
\* published and being counted, though unblock and the dispatcher count in either order.
THEOREM BlockedFibersAreCounted == Spec => []BlockedExact
<1>1. (TypeOK /\ Custody) /\ (TypeOK /\ Custody)' /\ BlockedExact /\ [Next]_vars
        => BlockedExact'
  BY NextBlockedExact
<1> QED
  BY <1>1, InitBlockedExact, Inductive, PTL DEF Spec

-----------------------------------------------------------------------------
(* _number_of_spawned_fibers *)

\* What a thread between its load and its store knows of the number of fibers: the
\* value it holds was not too high when the pool had fewer than its maximum.
GrowthBounded ==
  pc[Main] # "gone" =>
    /\ spawned <= Cardinality(created) \/ MaxFibers <= Cardinality(created)
    /\ \A t \in Threads : pc[t] = "pcap" => MaxFibers <= Cardinality(created)
    /\ \A t \in Threads : pc[t] \in {"pstore", "spawnfiber", "spawnstore"} =>
         reg[t] <= Cardinality(created) \/ MaxFibers <= Cardinality(created)

GrowthPC == {"pcap", "pstore", "compare", "spawnfiber", "spawnstore", "gone"}

LEMMA CreatedSize ==
  ASSUME TypeOK
  PROVE  /\ Cardinality(created) \in Nat
         /\ \A f \in Fibers \ created :
              Cardinality(created \cup {f}) = Cardinality(created) + 1
<1>1. IsFiniteSet(created)
  BY ConstantsAssumption, FS_Subset DEF TypeOK
<1> QED
  BY <1>1, FS_CardinalityType, FS_AddElement

LEMMA InitGrowth == Init => GrowthBounded
<1> SUFFICES ASSUME Init PROVE GrowthBounded
  OBVIOUS
<1>1. spawned <= Cardinality(created)
  <2>1. CASE Preemptive
    BY <2>1, ConstantsAssumption DEF Init
  <2>2. CASE ~Preemptive
    BY <2>2, FS_EmptySet DEF Init, Preemptive
  <2> QED
    BY <2>1, <2>2
<1> QED
  BY <1>1 DEF Init, GrowthBounded

\* Most steps take no part in the growth of the pool.
LEMMA NotGrowing ==
  ASSUME TypeOK, GrowthBounded, UNCHANGED <<created, spawned, reg>>,
         NEW t \in Threads, NEW to, pc' = [pc EXCEPT ![t] = to],
         pc[t] \notin GrowthPC, to \notin GrowthPC
  PROVE  GrowthBounded'
BY DEF TypeOK, GrowthBounded, GrowthPC

LEMMA PushGrowth ==
  ASSUME TypeOK, TypeOK', GrowthBounded, NEW t \in Threads,
         GrowLoad(t) \/ GrowStore(t) \/ GrowCap(t)
  PROVE  GrowthBounded'
<1> USE ConstantsAssumption, CreatedSize DEF TypeOK, Goto, GrowthBounded
<1>2. CASE GrowLoad(t)
  BY <1>2 DEF GrowLoad
<1>3. CASE GrowStore(t)
  <2>1. pc[Main] # "gone" \/ pc'[Main] = "gone"
    BY <1>3 DEF GrowStore
  <2> SUFFICES ASSUME pc[Main] # "gone" PROVE GrowthBounded'
    BY <2>1
  <2>2. CASE reg[t] + 1 > MaxFibers
    <3>1. pc' = [pc EXCEPT ![t] = "pcap"] /\ created' = created /\ reg' = [reg EXCEPT ![t] = 0]
      BY <1>3, <2>2 DEF GrowStore
    <3>2. pc[t] = "pstore" /\ reg[t] \in Int
      BY <1>3 DEF GrowStore
    <3>3. MaxFibers <= Cardinality(created)
      BY <2>2, <3>2
    <3> QED
      BY <3>1, <3>2, <3>3
  <2>3. CASE reg[t] + 1 <= MaxFibers
    <3>1. /\ pc' = [pc EXCEPT ![t] = "pbind"] /\ reg' = [reg EXCEPT ![t] = 0]
          /\ spawned' = reg[t] + 1
      BY <1>3, <2>3 DEF GrowStore
    <3>2. pc[t] = "pstore" /\ reg[t] \in Int
      BY <1>3 DEF GrowStore
    <3>3. Cardinality(created)' = Cardinality(created) + 1
      BY <1>3, <2>3 DEF GrowStore
    <3>4. spawned' <= Cardinality(created)'
      BY <2>3, <3>1, <3>2, <3>3
    <3> QED
      BY <3>1, <3>2, <3>3, <3>4
  <2> QED
    BY <2>2, <2>3, <1>3 DEF GrowStore
<1>4. CASE GrowCap(t)
  BY <1>4 DEF GrowCap
<1> QED
  BY <1>2, <1>3, <1>4

LEMMA DispatcherGrowth ==
  ASSUME TypeOK, TypeOK', GrowthBounded, NEW w \in Workers,
         LoadBlocked(w) \/ Compare(w) \/ SpawnLoad(w) \/ SpawnStore(w)
  PROVE  GrowthBounded'
<1> USE ConstantsAssumption, CreatedSize DEF TypeOK, Goto, GrowthBounded
<1>1. CASE LoadBlocked(w)
  BY <1>1 DEF LoadBlocked
<1>2. CASE Compare(w)
  BY <1>2 DEF Compare
<1>3. CASE SpawnLoad(w)
  BY <1>3 DEF SpawnLoad
<1>4. CASE SpawnStore(w)
  <2>1. Cardinality(created)' = Cardinality(created) + 1
    BY <1>4 DEF SpawnStore
  <2>2. /\ pc[w] = "spawnstore" /\ pc' = [pc EXCEPT ![w] = "gettask"]
        /\ reg' = [reg EXCEPT ![w] = 0] /\ reg[w] \in Int
        /\ spawned' = reg[w] + 1
    BY <1>4 DEF SpawnStore
  <2> QED
    BY <2>1, <2>2
<1> QED
  BY <1>1, <1>2, <1>3, <1>4

LEMMA NextGrowth ==
  ASSUME TypeOK, TypeOK', GrowthBounded, [Next]_vars
  PROVE  GrowthBounded'
<1> USE NotGrowing DEF Goto, GrowthPC
<1>1. CASE Lifecycle
  <2>1. CASE Start \/ Join
    BY <2>1 DEF Start, Join
  <2>2. CASE Spawned
    BY <2>2 DEF Spawned
  <2>3. CASE Destroy
    BY <2>3 DEF Destroy, GrowthBounded, TypeOK
  <2>4. ASSUME NEW w \in Workers, SpawnWorker(w) \/ Arrive(w) \/ Pass(w) PROVE GrowthBounded'
    BY <2>4 DEF SpawnWorker, Arrive, Pass
  <2> QED
    BY <1>1, <2>1, <2>2, <2>3, <2>4 DEF Lifecycle
<1>2. ASSUME UNCHANGED <<created, spawned, reg, pc>> PROVE GrowthBounded'
  BY <1>2 DEF GrowthBounded
<1>3. ASSUME NEW t \in Threads, UserCall(t) PROVE GrowthBounded'
  <2>1. CASE End(t)
    BY <2>1, <1>2 DEF End
  <2>2. ASSUME NEW k \in Tasks, PushFindsNoFiber(t, k) PROVE GrowthBounded'
    BY <2>2 DEF PushFindsNoFiber
  <2>3. ASSUME NEW k \in Tasks, NEW f \in Fibers, PushTakesFiber(t, k, f) PROVE GrowthBounded'
    BY <2>3 DEF PushTakesFiber
  <2>4. ASSUME NEW f \in Fibers, TakeWaiter(t, f) PROVE GrowthBounded'
    BY <2>4 DEF TakeWaiter
  <2> QED
    BY <1>3, <2>1, <2>2, <2>3, <2>4 DEF UserCall
<1>4. ASSUME NEW t \in Threads, InCall(t) PROVE GrowthBounded'
  BY <1>4, PushGrowth DEF InCall, PushFiber, PushTask, UnblockCount, UnblockEnqueue
<1>5. ASSUME NEW w \in Workers, Publish(w) \/ Leave(w) \/ Poll(w) PROVE GrowthBounded'
  BY <1>5, <1>2 DEF Publish, Leave, Block, Yield, Finish, Poll, PollEmpty, PollTake
<1>6. ASSUME NEW w \in Workers, Dispatcher(w) PROVE GrowthBounded'
  <2>1. CASE Cold(w) \/ ExitCheck(w) \/ Check(w) \/ BackEnded(w)
              \/ GetNoFiber(w) \/ \E f \in Fibers : GetFiber(w, f)
    BY <2>1 DEF Cold, ExitCheck, Check, BackEnded, GetNoFiber, GetFiber
  <2>2. CASE (\E k \in Tasks : GetTask(w, k)) \/ GetNoTask(w) \/ GiveBack(w) \/ Bind(w)
              \/ Requeue(w) \/ Dispatch(w)
    BY <2>2 DEF GetTask, GetNoTask, GiveBack, Bind, Requeue, Dispatch
  <2>3. CASE Rebind(w) \/ Shelve(w) \/ BackYielded(w) \/ BackBlocked(w) \/ Release(w)
    BY <2>3 DEF Rebind, Shelve, BackYielded, BackBlocked, Release
  <2> QED
    BY <1>6, <2>1, <2>2, <2>3, DispatcherGrowth DEF Dispatcher
<1>7. CASE UNCHANGED vars
  BY <1>7, <1>2 DEF vars
<1> QED
  BY <1>1, <1>3, <1>4, <1>5, <1>6, <1>7 DEF Next, Gone

\* However the unsynchronized updates of the number of fibers overwrite each other,
\* push is refused a new fiber only when the pool has maximum_fibers of them.
THEOREM PushIsRefusedOnlyWhenFull == Spec => []RefusedOnlyWhenFull
<1>1. (TypeOK /\ Custody) /\ (TypeOK /\ Custody)' /\ GrowthBounded /\ [Next]_vars
        => GrowthBounded'
  BY NextGrowth
<1>2. TypeOK /\ GrowthBounded => RefusedOnlyWhenFull
  BY ConstantsAssumption, CreatedSize DEF GrowthBounded, RefusedOnlyWhenFull, TypeOK
<1> QED
  BY <1>1, <1>2, InitGrowth, Inductive, PTL DEF Spec

-----------------------------------------------------------------------------
(* Tasks.  A task is in the hands of a thread, in _tasks, or bound to a    *)
(* fiber that has not ended: a fiber whose function is replaced must have  *)
(* ended, and one that is enqueued must not.                               *)

Dead(f) == status[f] = "ended" \/ job[f] = NoTask

\* Fiber f has been given a task which has not returned.
Alive(f) ==
  \/ awaiting[f] > 0 \/ f \in waiting
  \/ \E t \in Threads : fib[t] = f /\ pc[t] \in {"check", "requeue", "dispatch"}
  \/ \E t \in Threads : arg[t] = f /\ pc[t] \in {"unblock", "wake"}

\* Fiber f is about to be given a task.
Vacant(f) ==
  \/ f \notin created \/ Free(f)
  \/ \E t \in Threads : fib[t] = f /\ pc[t] \in {"rebind", "shelve"}

\* A thread has a task in its hands exactly while it is to be handed on.
Carrying ==
  \A t \in Threads : task[t] # NoTask => pc[t] \in PushPC \cup {"bind", "rebind"}

FibersAlive == \A f \in Fibers : Alive(f) => status[f] # "ended"
FibersVacant == \A f \in Fibers : Vacant(f) => Dead(f)

Employment == Carrying /\ FibersAlive /\ FibersVacant

LEMMA InitEmployment == Init => Employment
BY ConstantsAssumption
   DEF Init, Employment, Carrying, FibersAlive, FibersVacant, Alive, Dead

\* The points at which a thread has a fiber whose task is settled, or a task to hand on.
EmploymentPC ==
  {"check", "requeue", "dispatch", "unblock", "wake", "rebind", "shelve", "gettask", "bind",
   "giveback"} \cup PushPC

\* A step that leaves no fiber alive or vacant that was not, and hands nobody a task.
LEMMA SameEmployment ==
  ASSUME Employment, status' = status, job' = job,
         \A t \in Threads : task'[t] # NoTask => pc'[t] \in PushPC \cup {"bind", "rebind"},
         \A f \in Fibers : Alive(f)' => Alive(f),
         \A f \in Fibers : Vacant(f)' => Vacant(f) \/ Dead(f)
  PROVE  Employment'
<1>1. Carrying'
  BY DEF Carrying
<1>2. FibersAlive'
  BY DEF Employment, FibersAlive
<1>3. \A f \in Fibers : Dead(f)' <=> Dead(f)
  BY DEF Dead
<1>4. FibersVacant'
  BY <1>3 DEF Employment, FibersVacant
<1> QED
  BY <1>1, <1>2, <1>4 DEF Employment

LEMMA LifecycleEmployment ==
  ASSUME TypeOK, TypeOK', Custody, Employment, Lifecycle
  PROVE  Employment'
<1> USE DEF Goto, TypeOK, Employment
<1>1. CASE Start
  BY <1>1, SameEmployment DEF Start, Carrying, Alive, Vacant, Free, PushPC
<1>2. CASE Spawned
  BY <1>2, SameEmployment DEF Spawned, Carrying, Alive, Vacant, Free, PushPC
<1>3. CASE Join
  BY <1>3, SameEmployment DEF Join, Carrying, Alive, Vacant, Free, PushPC
<1>4. CASE Destroy
  <2>1. \A f \in Fibers : Vacant(f)' => Vacant(f)
    BY <1>4 DEF Destroy, Vacant, Free
  <2> QED
    BY <1>4, <2>1, SameEmployment DEF Destroy, Carrying, Alive, PushPC
<1>5. ASSUME NEW w \in Workers, SpawnWorker(w) \/ Arrive(w) \/ Pass(w) PROVE Employment'
  BY <1>5, SameEmployment
     DEF SpawnWorker, Arrive, Pass, Carrying, Alive, Vacant, Free, PushPC
<1> QED
  BY <1>1, <1>2, <1>3, <1>4, <1>5 DEF Lifecycle

LEMMA UserCallEmployment ==
  ASSUME TypeOK, TypeOK', Custody, Employment, NEW t \in Threads, UserCall(t)
  PROVE  Employment'
<1> USE DEF Goto, TypeOK
<1>1. CASE End(t)
  BY <1>1, SameEmployment DEF End, Employment, Carrying, Alive, Vacant, Free, PushPC
<1>2. ASSUME NEW k \in Tasks, PushFindsNoFiber(t, k) PROVE Employment'
  <2>1. \A u \in Threads : task'[u] # NoTask => pc'[u] \in PushPC \cup {"bind", "rebind"}
    BY <1>2 DEF PushFindsNoFiber, Employment, Carrying, PushPC
  <2>2. \A f \in Fibers : (Alive(f)' => Alive(f)) /\ (Vacant(f)' => Vacant(f))
    BY <1>2 DEF PushFindsNoFiber, Alive, Vacant, Free
  <2> QED
    BY <1>2, <2>1, <2>2, SameEmployment DEF PushFindsNoFiber
<1>3. ASSUME NEW k \in Tasks, NEW f \in Fibers, PushTakesFiber(t, k, f) PROVE Employment'
  <2>1. \A u \in Threads : task'[u] # NoTask => pc'[u] \in PushPC \cup {"bind", "rebind"}
    BY <1>3 DEF PushTakesFiber, Employment, Carrying, PushPC
  <2>2. \A g \in Fibers : (Alive(g)' => Alive(g)) /\ (Vacant(g)' => Vacant(g))
    BY <1>3 DEF PushTakesFiber, Alive, Vacant, Free
  <2> QED
    BY <1>3, <2>1, <2>2, SameEmployment DEF PushTakesFiber
<1>4. ASSUME NEW f \in Fibers, TakeWaiter(t, f) PROVE Employment'
  <2>1. \A u \in Threads : task'[u] # NoTask => pc'[u] \in PushPC \cup {"bind", "rebind"}
    BY <1>4 DEF TakeWaiter, Employment, Carrying, PushPC
  <2>2. \A g \in Fibers : (Alive(g)' => Alive(g)) /\ (Vacant(g)' => Vacant(g))
    BY <1>4 DEF TakeWaiter, Alive, Vacant, Free
  <2> QED
    BY <1>4, <2>1, <2>2, SameEmployment DEF TakeWaiter
<1> QED
  BY <1>1, <1>2, <1>3, <1>4 DEF UserCall

\* A fiber that is given a task is alive and is vacant no longer.
LEMMA ResetEmployment ==
  ASSUME TypeOK, Employment, NEW g \in Fibers, NEW k \in Tasks, ResetAndAwait(g, k),
         \A t \in Threads : task'[t] # NoTask => pc'[t] \in PushPC \cup {"bind", "rebind"},
         \A f \in Fibers : Alive(f)' => Alive(f) \/ f = g,
         \A f \in Fibers : Vacant(f)' => Vacant(f) /\ f # g
  PROVE  Employment'
<1>1. \A f \in Fibers : f # g => status'[f] = status[f] /\ job'[f] = job[f]
  BY DEF ResetAndAwait, TypeOK
<1>2. FibersAlive'
  BY <1>1 DEF FibersAlive, ResetAndAwait, TypeOK, Employment
<1>3. FibersVacant'
  BY <1>1 DEF FibersVacant, Dead, Employment
<1> QED
  BY <1>2, <1>3 DEF Employment, Carrying

LEMMA InCallEmployment ==
  ASSUME TypeOK, TypeOK', Custody, Employment, NEW t \in Threads, InCall(t)
  PROVE  Employment'
<1> USE DEF Goto, TypeOK
<1>1. CASE GrowLoad(t)
  BY <1>1, SameEmployment DEF GrowLoad, Employment, Carrying, Alive, Vacant, Free, PushPC
<1>2. CASE GrowStore(t)
  <2>1. \A u \in Threads : task'[u] # NoTask => pc'[u] \in PushPC \cup {"bind", "rebind"}
    BY <1>2 DEF GrowStore, Employment, Carrying, PushPC
  <2>2. \A f \in Fibers : (Alive(f)' => Alive(f)) /\ (Vacant(f)' => Vacant(f))
    BY <1>2 DEF GrowStore, Alive, Vacant, Free
  <2> QED
    BY <1>2, <2>1, <2>2, SameEmployment DEF GrowStore
<1>3. CASE GrowCap(t)
  BY <1>3, SameEmployment DEF GrowCap, Employment, Carrying, Alive, Vacant, Free, PushPC
<1>4. CASE PushFiber(t)
  <2>1. arg[t] \in Fibers /\ task[t] \in Tasks /\ Holds(t, arg[t])
    BY <1>4 DEF PushFiber, Custody, Hands, HasTask, PushPC, Holds
  <2>2. \A u \in Threads : task'[u] # NoTask => pc'[u] \in PushPC \cup {"bind", "rebind"}
    BY <1>4 DEF PushFiber, Employment, Carrying, PushPC
  <2>3. \A f \in Fibers : Alive(f)' => Alive(f) \/ f = arg[t]
    BY <1>4 DEF PushFiber, ResetAndAwait, Alive
  <2>4. \A f \in Fibers : Vacant(f)' => Vacant(f) /\ f # arg[t]
    BY <1>4, <2>1
       DEF PushFiber, Vacant, Free, Custody, NoDuplicate, Holds, HandPC, TailPC,
           UncreatedIsNowhere
  <2> QED
    BY <1>4, <2>1, <2>2, <2>3, <2>4, ResetEmployment DEF PushFiber
<1>5. CASE PushTask(t)
  BY <1>5, SameEmployment DEF PushTask, Employment, Carrying, Alive, Vacant, Free, PushPC
<1>6. CASE UnblockCount(t)
  BY <1>6, SameEmployment DEF UnblockCount, Employment, Carrying, Alive, Vacant, Free, PushPC
<1>7. CASE UnblockEnqueue(t)
  BY <1>7, SameEmployment
     DEF UnblockEnqueue, Employment, Carrying, Alive, Vacant, Free, PushPC
<1> QED
  BY <1>1, <1>2, <1>3, <1>4, <1>5, <1>6, <1>7 DEF InCall

\* A fiber whose thread stands in its code, or has just left it.
LEMMA RunningIsNotVacant ==
  ASSUME TypeOK, Custody, NEW w \in Workers, pc[w] \in UserPC \cup {"back"}, fib[w] # NoFiber
  PROVE  fib[w] \in Fibers /\ ~Vacant(fib[w])
<1> USE DEF TypeOK, Custody
<1>1. fib[w] \in Fibers /\ Executes(w, fib[w])
  BY DEF Executes, ExecPC
<1>2. \A t \in Threads : fib[t] = fib[w] /\ pc[t] \in {"rebind", "shelve"} => t = w
  BY <1>1 DEF ExclusiveRun, Executes, ExecPC, TailPC
<1>3. pc[w] \notin {"rebind", "shelve"}
  BY DEF UserPC, PushPC
<1> QED
  BY <1>1, <1>2, <1>3 DEF Vacant, FreeIsIdle, UncreatedIsNowhere

LEMMA LeaveEmployment ==
  ASSUME TypeOK, TypeOK', Custody, Employment, NEW w \in Workers,
         Publish(w) \/ Leave(w) \/ Poll(w)
  PROVE  Employment'
<1> USE DEF Goto, TypeOK
<1>1. \A u \in Threads : task'[u] # NoTask => pc'[u] \in PushPC \cup {"bind", "rebind"}
  BY DEF Publish, Leave, Block, Yield, Finish, Poll, PollEmpty, PollTake, Employment, Carrying,
     PushPC
<1>2. CASE Publish(w)
  <2>1. fib[w] \in Fibers /\ status[fib[w]] = "running"
    BY <1>2 DEF Publish, Custody, BackStatus, UserPC
  <2>2. \A f \in Fibers : Alive(f)' => Alive(f) \/ f = fib[w]
    BY <1>2 DEF Publish, Alive
  <2>3. FibersAlive'
    BY <1>2, <2>1, <2>2 DEF Publish, FibersAlive, Employment
  <2>4. FibersVacant'
    BY <1>2 DEF Publish, FibersVacant, Vacant, Free, Dead, Employment
  <2> QED
    BY <1>1, <2>3, <2>4 DEF Employment, Carrying
<1>3. ASSUME Block(w) \/ Yield(w) \/ Finish(w) PROVE Employment'
  <2>1. fib[w] \in Fibers /\ ~Vacant(fib[w])
    BY <1>3, RunningIsNotVacant DEF Block, Yield, Finish, Custody, Hands, UserPC
  <2>2. \A f \in Fibers : (Alive(f)' <=> Alive(f)) /\ (Vacant(f)' <=> Vacant(f))
    BY <1>3 DEF Block, Yield, Finish, Alive, Vacant, Free
  <2>3. \A f \in Fibers : f # fib[w] => status'[f] = status[f] /\ job'[f] = job[f]
    BY <1>3 DEF Block, Yield, Finish
  <2>4. FibersVacant'
    BY <2>1, <2>2, <2>3 DEF FibersVacant, Dead, Employment
  <2>5. CASE Finish(w)
    <3>1. Holds(w, fib[w])
      BY <2>1, <2>5 DEF Finish, Holds, UserPC
    <3>2. ~Alive(fib[w])
      BY <2>1, <3>1, <2>5 DEF Finish, Alive, Holds, Custody, NoDuplicate, HandPC
    <3> QED
      BY <1>1, <2>2, <2>3, <2>4, <3>2 DEF Employment, Carrying, FibersAlive
  <2>6. CASE Block(w) \/ Yield(w)
    <3>1. status'[fib[w]] # "ended"
      BY <2>1, <2>6 DEF Block, Yield
    <3> QED
      BY <1>1, <2>2, <2>3, <2>4, <3>1 DEF Employment, Carrying, FibersAlive
  <2> QED
    BY <1>3, <2>5, <2>6
<1>4. ASSUME Poll(w) PROVE Employment'
  <2>1. \A f \in Fibers : (Alive(f)' => Alive(f)) /\ (Vacant(f)' => Vacant(f))
    BY <1>4 DEF Poll, PollEmpty, PollTake, Alive, Vacant, Free
  <2> QED
    BY <1>1, <1>4, <2>1, SameEmployment DEF Poll, PollEmpty, PollTake
<1> QED
  BY <1>2, <1>3, <1>4 DEF Leave

LEMMA DispatcherEmployment ==
  ASSUME TypeOK, TypeOK', Custody, Employment, NEW w \in Workers, Dispatcher(w)
  PROVE  Employment'
<1> USE DEF Goto, TypeOK
<1>1. CASE Cold(w) \/ ExitCheck(w) \/ GetNoFiber(w) \/ LoadBlocked(w) \/ Compare(w)
            \/ SpawnLoad(w) \/ GetNoTask(w)
  <2>1. \A u \in Threads : task'[u] # NoTask => pc'[u] \in PushPC \cup {"bind", "rebind"}
    BY <1>1 DEF Cold, ExitCheck, GetNoFiber, LoadBlocked, Compare, SpawnLoad, GetNoTask,
       Employment, Carrying, PushPC
  <2>2. \A f \in Fibers : (Alive(f)' => Alive(f)) /\ (Vacant(f)' => Vacant(f))
    BY <1>1 DEF Cold, ExitCheck, GetNoFiber, LoadBlocked, Compare, SpawnLoad, GetNoTask, Alive,
       Vacant, Free
  <2> QED
    BY <1>1, <2>1, <2>2, SameEmployment
       DEF Cold, ExitCheck, GetNoFiber, LoadBlocked, Compare, SpawnLoad, GetNoTask
<1>2. CASE SpawnStore(w) \/ GiveBack(w) \/ Requeue(w) \/ \E f \in Fibers : GetFiber(w, f)
  <2>1. \A u \in Threads : task'[u] # NoTask => pc'[u] \in PushPC \cup {"bind", "rebind"}
    BY <1>2 DEF SpawnStore, GiveBack, Requeue, GetFiber, Employment, Carrying, PushPC
  <2>2. \A f \in Fibers : (Alive(f)' => Alive(f)) /\ (Vacant(f)' => Vacant(f))
    BY <1>2 DEF SpawnStore, GiveBack, Requeue, GetFiber, Alive, Vacant, Free
  <2> QED
    BY <1>2, <2>1, <2>2, SameEmployment DEF SpawnStore, GiveBack, Requeue, GetFiber
<1>3. ASSUME NEW k \in Tasks, GetTask(w, k) PROVE Employment'
  <2>1. \A u \in Threads : task'[u] # NoTask => pc'[u] \in PushPC \cup {"bind", "rebind"}
    BY <1>3 DEF GetTask, Employment, Carrying, PushPC
  <2>2. \A f \in Fibers : (Alive(f)' => Alive(f)) /\ (Vacant(f)' => Vacant(f))
    BY <1>3 DEF GetTask, Alive, Vacant, Free
  <2> QED
    BY <1>3, <2>1, <2>2, SameEmployment DEF GetTask
<1>4. CASE Check(w)
  BY <1>4, SameEmployment DEF Check, Employment, Carrying, Alive, Vacant, Free, PushPC
<1>5. CASE Bind(w)
  <2>1. fib[w] \in Fibers /\ task[w] \in Tasks /\ Holds(w, fib[w])
    BY <1>5 DEF Bind, Custody, Hands, HasTask, HandPC, TailPC, Holds
  <2>2. \A u \in Threads : task'[u] # NoTask => pc'[u] \in PushPC \cup {"bind", "rebind"}
    BY <1>5 DEF Bind, Employment, Carrying, PushPC
  <2>3. \A f \in Fibers : Alive(f)' => Alive(f) \/ f = fib[w]
    BY <1>5 DEF Bind, ResetAndAwait, Alive
  <2>4. \A f \in Fibers : Vacant(f)' => Vacant(f)
    BY <1>5 DEF Bind, Vacant, Free
  <2>5. /\ \A u \in Threads : Holds(u, fib[w]) => u = w
        /\ fibers[fib[w]] = 0 /\ fib[w] \in created
    BY <2>1 DEF Custody, NoDuplicate, UncreatedIsNowhere
  <2>6. \A f \in Fibers : f = fib[w] => ~Vacant(f)'
    BY <1>5, <2>1, <2>5 DEF Bind, Vacant, Free, Holds, HandPC, TailPC
  <2> QED
    BY <1>5, <2>1, <2>2, <2>3, <2>4, <2>6, ResetEmployment DEF Bind
<1>11. CASE Rebind(w)
  <2>1. fib[w] \in Fibers /\ task[w] \in Tasks /\ Holds(w, fib[w])
    BY <1>11 DEF Rebind, Custody, Hands, HasTask, HandPC, TailPC, Holds
  <2>2. \A u \in Threads : task'[u] # NoTask => pc'[u] \in PushPC \cup {"bind", "rebind"}
    BY <1>11 DEF Rebind, Employment, Carrying, PushPC
  <2>3. \A f \in Fibers : Alive(f)' => Alive(f) \/ f = fib[w]
    BY <1>11 DEF Rebind, ResetAndAwait, Alive
  <2>4. \A f \in Fibers : Vacant(f)' => Vacant(f)
    BY <1>11 DEF Rebind, Vacant, Free
  <2>5. /\ \A u \in Threads : Holds(u, fib[w]) => u = w
        /\ fibers[fib[w]] = 0 /\ fib[w] \in created
    BY <2>1 DEF Custody, NoDuplicate, UncreatedIsNowhere
  <2>6. \A f \in Fibers : f = fib[w] => ~Vacant(f)'
    BY <1>11, <2>1, <2>5 DEF Rebind, Vacant, Free, Holds, HandPC, TailPC
  <2> QED
    BY <1>11, <2>1, <2>2, <2>3, <2>4, <2>6, ResetEmployment DEF Rebind
<1>6. CASE Dispatch(w)
  <2>1. fib[w] \in Fibers /\ Holds(w, fib[w])
    BY <1>6 DEF Dispatch, Custody, Hands, HandPC, Holds
  <2>2. \A f \in Fibers : (Alive(f)' => Alive(f)) /\ (Vacant(f)' => Vacant(f) /\ f # fib[w])
    BY <1>6, <2>1
       DEF Dispatch, Alive, Vacant, Free, Custody, NoDuplicate, Holds, HandPC, TailPC,
           UncreatedIsNowhere
  <2>3. /\ \A f \in Fibers : f # fib[w] => status'[f] = status[f]
        /\ status'[fib[w]] = "running" /\ job' = job
    BY <1>6, <2>1 DEF Dispatch
  <2>4. Carrying'
    BY <1>6 DEF Dispatch, Employment, Carrying, PushPC
  <2> QED
    BY <2>2, <2>3, <2>4 DEF Employment, FibersAlive, FibersVacant, Dead
<1>7. CASE BackEnded(w)
  <2>1. \A u \in Threads : task'[u] # NoTask => pc'[u] \in PushPC \cup {"bind", "rebind"}
    BY <1>7 DEF BackEnded, Employment, Carrying, PushPC
  <2>2. \A f \in Fibers : Vacant(f)' => Vacant(f) \/ f = fib[w]
    BY <1>7 DEF BackEnded, Vacant, Free
  <2>3. Dead(fib[w])
    BY <1>7 DEF BackEnded, Dead
  <2>4. \A f \in Fibers : Alive(f)' => Alive(f)
    BY <1>7 DEF BackEnded, Alive
  <2> QED
    BY <1>7, <2>1, <2>2, <2>3, <2>4, SameEmployment DEF BackEnded
<1>8. CASE Shelve(w)
  <2>1. \A f \in Fibers : (Alive(f)' => Alive(f)) /\ (Vacant(f)' => Vacant(f))
    BY <1>8 DEF Shelve, Alive, Vacant, Free
  <2> QED
    BY <1>8, <2>1, SameEmployment DEF Shelve, Employment, Carrying, PushPC
<1>9. CASE BackYielded(w)
  <2>1. fib[w] \in Fibers /\ status[fib[w]] = "yielded"
    BY <1>9 DEF BackYielded, Custody, Hands
  <2>2. \A f \in Fibers : (Alive(f)' => Alive(f) \/ f = fib[w]) /\ (Vacant(f)' => Vacant(f))
    BY <1>9 DEF BackYielded, Alive, Vacant, Free
  <2>3. Carrying' /\ status' = status /\ job' = job
    BY <1>9 DEF BackYielded, Employment, Carrying, PushPC
  <2> QED
    BY <2>1, <2>2, <2>3 DEF Employment, FibersAlive, FibersVacant, Dead
<1>10. CASE BackBlocked(w) \/ Release(w)
  <2>1. \A f \in Fibers : (Alive(f)' => Alive(f)) /\ (Vacant(f)' => Vacant(f))
    BY <1>10 DEF BackBlocked, Release, Alive, Vacant, Free
  <2> QED
    BY <1>10, <2>1, SameEmployment DEF BackBlocked, Release, Employment, Carrying, PushPC
<1> QED
  BY <1>1, <1>2, <1>3, <1>4, <1>5, <1>6, <1>7, <1>8, <1>9, <1>10, <1>11
     DEF Dispatcher

LEMMA NextEmployment ==
  ASSUME TypeOK, TypeOK', Custody, Employment, [Next]_vars
  PROVE  Employment'
<1>1. CASE UNCHANGED vars
  BY <1>1 DEF vars, Employment, Carrying, FibersAlive, FibersVacant, Alive, Vacant, Free, Dead
<1> QED
  BY <1>1, LifecycleEmployment, UserCallEmployment, InCallEmployment, LeaveEmployment,
     DispatcherEmployment DEF Next, Gone

\* The three places in which a task is, and how many copies each has.
Carriers(k) == {t \in Threads : task[t] = k}
Runners(k) == {f \in Fibers : job[f] = k /\ status[f] # "ended"}
Held(k) == Cardinality(Carriers(k))
Bound(k) == Cardinality(Runners(k))
Queued(k) == Cardinality(tasks \cap {k})

Conserved == TaskConserved /\ done \subseteq pushed

LEMMA PlacesAreFinite ==
  ASSUME NEW k
  PROVE  IsFiniteSet(Carriers(k)) /\ IsFiniteSet(Runners(k)) /\ IsFiniteSet(tasks \cap {k})
<1>1. IsFiniteSet(Threads) /\ IsFiniteSet(Fibers)
  BY ConstantsAssumption, FS_AddElement
<1>2. IsFiniteSet({k})
  BY FS_Singleton
<1>3. IsFiniteSet(Carriers(k))
  BY <1>1, FS_Subset DEF Carriers
<1>4. IsFiniteSet(Runners(k))
  BY <1>1, FS_Subset DEF Runners
<1>5. IsFiniteSet(tasks \cap {k})
  BY <1>2, FS_Subset
<1> QED
  BY <1>3, <1>4, <1>5

LEMMA CopiesAre ==
  ASSUME NEW k
  PROVE  /\ Copies(k) = Held(k) + Bound(k) + Queued(k)
         /\ Copies(k)' = Held(k)' + Bound(k)' + Queued(k)'
         /\ Held(k) \in Nat /\ Bound(k) \in Nat /\ Queued(k) \in Nat
<1>1. Held(k) \in Nat /\ Bound(k) \in Nat /\ Queued(k) \in Nat
  BY PlacesAreFinite, FS_CardinalityType DEF Held, Bound, Queued
<1> QED
  BY <1>1 DEF Copies, Carriers, Runners, Held, Bound, Queued

LEMMA QueuedOnce ==
  ASSUME NEW S, NEW k
  PROVE  Cardinality(S \cap {k}) = IF k \in S THEN 1 ELSE 0
<1>1. CASE k \in S
  <2>1. S \cap {k} = {k}
    BY <1>1
  <2> QED
    BY <1>1, <2>1, FS_Singleton
<1>2. CASE k \notin S
  <2>1. S \cap {k} = {}
    BY <1>2
  <2> QED
    BY <1>2, <2>1, FS_EmptySet
<1> QED
  BY <1>1, <1>2

LEMMA NotEmpty ==
  ASSUME NEW S, IsFiniteSet(S), NEW x \in S PROVE Cardinality(S) # 0
BY FS_EmptySet

\* A task of which one place is known is pushed, not done, and nowhere else.
LEMMA InOnePlace ==
  ASSUME Conserved, NEW k \in Tasks,
         k \in tasks \/ Carriers(k) # {} \/ Runners(k) # {}
  PROVE  k \in pushed \ done /\ Held(k) + Bound(k) + Queued(k) = 1
<1>1. Held(k) # 0 \/ Bound(k) # 0 \/ Queued(k) # 0
  <2>1. CASE k \in tasks
    BY <2>1, QueuedOnce DEF Queued
  <2>2. CASE Carriers(k) # {}
    BY <2>2, PlacesAreFinite, NotEmpty DEF Held
  <2>3. CASE Runners(k) # {}
    BY <2>3, PlacesAreFinite, NotEmpty DEF Bound
  <2> QED
    BY <2>1, <2>2, <2>3
<1>2. Held(k) + Bound(k) + Queued(k) = IF k \in pushed \ done THEN 1 ELSE 0
  BY CopiesAre DEF Conserved, TaskConserved
<1> QED
  BY <1>1, <1>2, CopiesAre

\* A step that leaves a task where it is.
LEMMA TaskStays ==
  ASSUME NEW k, Carriers(k)' = Carriers(k), Runners(k)' = Runners(k),
         k \in tasks' <=> k \in tasks
  PROVE  Copies(k)' = Copies(k)
<1>1. Held(k)' = Held(k) /\ Bound(k)' = Bound(k)
  BY DEF Held, Bound
<1>2. Queued(k)' = Queued(k)
  BY QueuedOnce DEF Queued
<1> QED
  BY <1>1, <1>2, CopiesAre

LEMMA NothingMoves ==
  ASSUME Conserved, UNCHANGED <<task, job, tasks, pushed, done>>,
         \A f \in Fibers : status'[f] = "ended" <=> status[f] = "ended"
  PROVE  Conserved'
<1>1. \A k : Carriers(k)' = Carriers(k) /\ Runners(k)' = Runners(k)
  BY DEF Carriers, Runners
<1>2. \A k : Copies(k)' = Copies(k)
  BY <1>1, TaskStays
<1> QED
  BY <1>2 DEF Conserved, TaskConserved

\* A thread that had no task has one, or the other way round.
LEMMA Picks ==
  ASSUME TypeOK, NEW t \in Threads, NEW k \in Tasks, task[t] = NoTask,
         task' = [task EXCEPT ![t] = k]
  PROVE  /\ Held(k)' = Held(k) + 1
         /\ \A j \in Tasks : j # k => Carriers(j)' = Carriers(j)
<1>1. NoTask \notin Tasks
  BY ConstantsAssumption
<1>2. Carriers(k)' = Carriers(k) \cup {t} /\ t \notin Carriers(k)
  BY <1>1 DEF Carriers, TypeOK
<1>3. Held(k)' = Held(k) + 1
  BY <1>2, PlacesAreFinite, FS_AddElement DEF Held
<1> QED
  BY <1>1, <1>3 DEF Carriers, TypeOK

LEMMA Drops ==
  ASSUME TypeOK, NEW t \in Threads, NEW k \in Tasks, task[t] = k,
         task' = [task EXCEPT ![t] = NoTask]
  PROVE  /\ Held(k)' = Held(k) - 1 /\ Carriers(k) # {}
         /\ \A j \in Tasks : j # k => Carriers(j)' = Carriers(j)
<1>1. NoTask \notin Tasks
  BY ConstantsAssumption
<1>2. Carriers(k)' = Carriers(k) \ {t} /\ t \in Carriers(k)
  BY <1>1 DEF Carriers, TypeOK
<1>3. Held(k)' = Held(k) - 1
  BY <1>2, PlacesAreFinite, FS_RemoveElement DEF Held
<1> QED
  BY <1>1, <1>2, <1>3 DEF Carriers, TypeOK

\* A task that was nowhere comes into the hands of a thread.
LEMMA TaskComes ==
  ASSUME TypeOK, Conserved, NEW t \in Threads, NEW k \in Tasks, task[t] = NoTask,
         k \notin pushed, pushed' = pushed \cup {k},
         task' = [task EXCEPT ![t] = k], UNCHANGED <<status, job, tasks, done>>
  PROVE  Conserved'
<1>1. \A j \in Tasks : Runners(j)' = Runners(j)
  BY DEF Runners
<1>2. Bound(k)' = Bound(k) /\ Queued(k)' = Queued(k)
  BY <1>1 DEF Bound, Queued
<1>3. Copies(k) = 0
  BY DEF Conserved, TaskConserved
<1>4. Held(k)' = Held(k) + 1
  BY Picks
<1>5. Copies(k)' = 1
  BY <1>2, <1>3, <1>4, CopiesAre
<1>6. \A j \in Tasks : j # k => Copies(j)' = Copies(j)
  BY <1>1, Picks, TaskStays
<1> QED
  BY <1>5, <1>6 DEF Conserved, TaskConserved

\* A thread gives the task it has to a fiber that has none.
LEMMA TaskIsBound ==
  ASSUME TypeOK, Conserved, NEW t \in Threads, NEW f \in Fibers, NEW k \in Tasks, task[t] = k,
         Dead(f), ResetAndAwait(f, k), task' = [task EXCEPT ![t] = NoTask],
         UNCHANGED <<tasks, pushed, done>>
  PROVE  Conserved'
<1>0. NoTask \notin Tasks
  BY ConstantsAssumption
<1>1. Runners(k)' = Runners(k) \cup {f} /\ f \notin Runners(k)
  BY <1>0 DEF Runners, Dead, ResetAndAwait, TypeOK
<1>2. Bound(k)' = Bound(k) + 1
  BY <1>1, PlacesAreFinite, FS_AddElement DEF Bound
<1>3. Queued(k)' = Queued(k)
  BY DEF Queued
<1>4. Held(k)' = Held(k) - 1
  BY Drops
<1>5. Copies(k)' = Copies(k)
  BY <1>2, <1>3, <1>4, CopiesAre
<1>6. \A j \in Tasks : j # k => Runners(j)' = Runners(j)
  BY <1>0 DEF Runners, Dead, ResetAndAwait, TypeOK
<1>7. \A j \in Tasks : j # k => Copies(j)' = Copies(j)
  BY <1>6, Drops, TaskStays
<1> QED
  BY <1>5, <1>7 DEF Conserved, TaskConserved

\* A thread puts the task it has into _tasks.
LEMMA TaskIsQueued ==
  ASSUME TypeOK, Conserved, NEW t \in Threads, NEW k \in Tasks, task[t] = k,
         tasks' = tasks \cup {k}, task' = [task EXCEPT ![t] = NoTask],
         UNCHANGED <<status, job, pushed, done>>
  PROVE  Conserved'
<1>1. Held(k)' = Held(k) - 1 /\ Held(k) # 0
  BY Drops, PlacesAreFinite, NotEmpty DEF Held
<1>2. Held(k) + Bound(k) + Queued(k) = 1
  BY Drops, InOnePlace
<1>3. Queued(k) = 0
  BY <1>1, <1>2, CopiesAre
<1>4. Queued(k)' = 1
  BY QueuedOnce DEF Queued
<1>5. \A j \in Tasks : Runners(j)' = Runners(j)
  BY DEF Runners
<1>6. Bound(k)' = Bound(k)
  BY <1>5 DEF Bound
<1>7. Copies(k)' = Copies(k)
  BY <1>1, <1>3, <1>4, <1>6, CopiesAre
<1>8. \A j \in Tasks : j # k => Copies(j)' = Copies(j)
  BY <1>5, Drops, TaskStays
<1> QED
  BY <1>7, <1>8 DEF Conserved, TaskConserved

\* A thread takes a task from _tasks.
LEMMA TaskIsTaken ==
  ASSUME TypeOK, Conserved, NEW t \in Threads, NEW k \in Tasks, task[t] = NoTask,
         k \in tasks, tasks' = tasks \ {k}, task' = [task EXCEPT ![t] = k],
         UNCHANGED <<status, job, pushed, done>>
  PROVE  Conserved'
<1>1. Held(k)' = Held(k) + 1
  BY Picks
<1>2. Queued(k) = 1 /\ Queued(k)' = 0
  BY QueuedOnce DEF Queued
<1>3. \A j \in Tasks : Runners(j)' = Runners(j)
  BY DEF Runners
<1>4. Bound(k)' = Bound(k)
  BY <1>3 DEF Bound
<1>5. Copies(k)' = Copies(k)
  BY <1>1, <1>2, <1>4, CopiesAre
<1>6. \A j \in Tasks : j # k => Copies(j)' = Copies(j)
  BY <1>3, Picks, TaskStays
<1> QED
  BY <1>5, <1>6 DEF Conserved, TaskConserved

\* The task of a fiber returns.
LEMMA TaskReturns ==
  ASSUME TypeOK, Conserved, NEW f \in Fibers, NEW k \in Tasks, job[f] = k,
         status[f] # "ended", status' = [status EXCEPT ![f] = "ended"],
         done' = done \cup {k}, UNCHANGED <<task, job, tasks, pushed>>
  PROVE  Conserved'
<1>1. Runners(k)' = Runners(k) \ {f} /\ f \in Runners(k)
  BY DEF Runners, TypeOK
<1>2. Bound(k)' = Bound(k) - 1
  BY <1>1, PlacesAreFinite, FS_RemoveElement DEF Bound
<1>3. \A j \in Tasks : Carriers(j)' = Carriers(j)
  BY DEF Carriers
<1>4. Held(k)' = Held(k) /\ Queued(k)' = Queued(k)
  BY <1>3 DEF Held, Queued
<1>5. k \in pushed \ done /\ Held(k) + Bound(k) + Queued(k) = 1
  BY <1>1, InOnePlace
<1>6. Copies(k)' = 0
  BY <1>2, <1>4, <1>5, CopiesAre
<1>7. \A j \in Tasks : j # k => Runners(j)' = Runners(j)
  BY DEF Runners, TypeOK
<1>8. \A j \in Tasks : j # k => Copies(j)' = Copies(j)
  BY <1>3, <1>7, TaskStays
<1> QED
  BY <1>5, <1>6, <1>8 DEF Conserved, TaskConserved

LEMMA InitConserved == Init => Conserved
<1> SUFFICES ASSUME Init, NEW k \in Tasks PROVE Copies(k) = 0
  BY DEF Init, Conserved, TaskConserved
<1>1. Carriers(k) = {} /\ Runners(k) = {} /\ tasks \cap {k} = {}
  BY ConstantsAssumption DEF Init, Carriers, Runners
<1>2. Held(k) = 0 /\ Bound(k) = 0 /\ Queued(k) = 0
  BY <1>1, FS_EmptySet DEF Held, Bound, Queued
<1> QED
  BY <1>2, CopiesAre

LEMMA NextConserved ==
  ASSUME TypeOK, TypeOK', Custody, Employment, Conserved, [Next]_vars
  PROVE  Conserved'
<1> USE DEF Goto
<1>1. CASE Lifecycle
  BY <1>1, NothingMoves
     DEF Lifecycle, Start, Spawned, Join, Destroy, SpawnWorker, Arrive, Pass
<1>2. ASSUME NEW t \in Threads, pc[t] \notin PushPC \cup {"bind", "rebind"}
      PROVE  task[t] = NoTask
  BY <1>2 DEF Employment, Carrying
<1>3. ASSUME NEW t \in Threads, UserCall(t) PROVE Conserved'
  <2>1. CASE End(t) \/ \E f \in Fibers : TakeWaiter(t, f)
    BY <2>1, NothingMoves DEF End, TakeWaiter
  <2>2. ASSUME NEW k \in Tasks, PushFindsNoFiber(t, k) PROVE Conserved'
    BY <2>2, <1>2, TaskComes DEF PushFindsNoFiber, PushPC
  <2>3. ASSUME NEW k \in Tasks, NEW f \in Fibers, PushTakesFiber(t, k, f) PROVE Conserved'
    BY <2>3, <1>2, TaskComes DEF PushTakesFiber, PushPC
  <2> QED
    BY <1>3, <2>1, <2>2, <2>3 DEF UserCall
<1>4. ASSUME NEW t \in Threads, InCall(t) PROVE Conserved'
  <2>1. CASE GrowLoad(t) \/ GrowStore(t) \/ GrowCap(t) \/ UnblockCount(t) \/ UnblockEnqueue(t)
    BY <2>1, NothingMoves DEF GrowLoad, GrowStore, GrowCap, UnblockCount, UnblockEnqueue
  <2>2. CASE PushFiber(t)
    <3>1. arg[t] \in Fibers /\ task[t] \in Tasks
      BY <2>2 DEF PushFiber, Custody, Hands, HasTask, PushPC
    <3>2. Dead(arg[t])
      BY <2>2, <3>1 DEF PushFiber, Employment, FibersVacant, Vacant, Free
    <3> QED
      BY <2>2, <3>1, <3>2, TaskIsBound DEF PushFiber
  <2>3. CASE PushTask(t)
    <3>1. task[t] \in Tasks
      BY <2>3 DEF PushTask, Custody, HasTask, PushPC
    <3> QED
      BY <2>3, <3>1, TaskIsQueued DEF PushTask
  <2> QED
    BY <1>4, <2>1, <2>2, <2>3 DEF InCall
<1>5. ASSUME NEW w \in Workers, Publish(w) \/ Leave(w) \/ Poll(w) PROVE Conserved'
  <2>1. CASE Publish(w) \/ Poll(w)
    BY <2>1, NothingMoves DEF Publish, Poll, PollEmpty, PollTake
  <2>2. ASSUME Leave(w) PROVE fib[w] \in Fibers /\ status[fib[w]] = "running"
    BY <2>2 DEF Leave, Block, Yield, Finish, TypeOK, Custody, BackStatus, Hands, UserPC
  <2>3. CASE Block(w) \/ Yield(w)
    <3>1. \A f \in Fibers : status'[f] = "ended" <=> status[f] = "ended"
      BY <2>2, <2>3 DEF Leave, Block, Yield, TypeOK
    <3> QED
      BY <2>3, <3>1, NothingMoves DEF Block, Yield
  <2>4. CASE Finish(w)
    <3>1. job[fib[w]] \in Tasks
      BY <2>4 DEF Finish, Custody, HasTask, UserPC
    <3> QED
      BY <2>2, <2>4, <3>1, TaskReturns DEF Leave, Finish
  <2> QED
    BY <1>5, <2>1, <2>3, <2>4 DEF Leave
<1>6. ASSUME NEW w \in Workers, Dispatcher(w) PROVE Conserved'
  <2>1. CASE Cold(w) \/ ExitCheck(w) \/ GetNoFiber(w) \/ LoadBlocked(w) \/ Compare(w)
              \/ SpawnLoad(w) \/ SpawnStore(w) \/ GetNoTask(w) \/ \E f \in Fibers : GetFiber(w, f)
    BY <2>1, NothingMoves
       DEF Cold, ExitCheck, GetNoFiber, LoadBlocked, Compare, SpawnLoad, SpawnStore,
           GetNoTask, GetFiber
  <2>2. CASE GiveBack(w) \/ Check(w) \/ Requeue(w) \/ Shelve(w) \/ BackYielded(w)
              \/ BackBlocked(w) \/ Release(w)
    BY <2>2, NothingMoves
       DEF GiveBack, Check, Requeue, Shelve, BackYielded, BackBlocked, Release
  <2>3. ASSUME NEW k \in Tasks, GetTask(w, k) PROVE Conserved'
    BY <2>3, <1>2, TaskIsTaken DEF GetTask, PushPC
  <2>4. CASE BackEnded(w)
    <3>1. task[w] = NoTask
      BY <2>4, <1>2 DEF BackEnded, PushPC
    <3>2. CASE UNCHANGED <<tasks, task>>
      BY <2>4, <3>2, NothingMoves DEF BackEnded
    <3>3. ASSUME NEW k \in tasks, tasks' = tasks \ {k}, task' = [task EXCEPT ![w] = k]
          PROVE  Conserved'
      BY <2>4, <3>1, <3>3, TaskIsTaken DEF BackEnded, TypeOK
    <3> QED
      BY <2>4, <3>2, <3>3 DEF BackEnded
  <2>5. CASE Dispatch(w)
    <3>1. fib[w] \in Fibers /\ status[fib[w]] # "ended"
      BY <2>5 DEF Dispatch, Custody, Hands, HandPC, Employment, FibersAlive, Alive
    <3>2. \A f \in Fibers : status'[f] = "ended" <=> status[f] = "ended"
      BY <2>5, <3>1 DEF Dispatch, TypeOK
    <3> QED
      BY <2>5, <3>2, NothingMoves DEF Dispatch
  <2>6. CASE Bind(w) \/ Rebind(w)
    <3>1. fib[w] \in Fibers /\ task[w] \in Tasks
      BY <2>6 DEF Bind, Rebind, Custody, Hands, HasTask, HandPC, TailPC
    <3>2. Dead(fib[w])
      BY <2>6, <3>1 DEF Bind, Rebind, Employment, FibersVacant, Vacant, Free
    <3> QED
      BY <2>6, <3>1, <3>2, TaskIsBound DEF Bind, Rebind
  <2> QED
    BY <1>6, <2>1, <2>2, <2>3, <2>4, <2>5, <2>6 DEF Dispatcher
<1>7. CASE UNCHANGED vars
  BY <1>7, NothingMoves DEF vars
<1> QED
  BY <1>1, <1>3, <1>4, <1>5, <1>6, <1>7 DEF Next, Gone

LEMMA EmploymentInvariant == Spec => []Employment
<1>1. (TypeOK /\ Custody) /\ (TypeOK /\ Custody)' /\ Employment /\ [Next]_vars => Employment'
  BY NextEmployment
<1> QED
  BY <1>1, InitEmployment, Inductive, PTL DEF Spec

\* From push until it returns a task is in exactly one place, a thread's hands, _tasks or
\* a fiber, and afterwards in none: no task is lost, and none is run twice.
THEOREM TasksAreConserved == Spec => []TaskConserved
<1>1. (TypeOK /\ Custody) /\ (TypeOK /\ Custody)' /\ Employment /\ Conserved /\ [Next]_vars
        => Conserved'
  BY NextConserved
<1>2. Conserved => TaskConserved
  BY DEF Conserved
<1> QED
  BY <1>1, <1>2, InitConserved, Inductive, EmploymentInvariant, PTL DEF Spec

-----------------------------------------------------------------------------
(* The pool implements TaskScheduler: whatever its queues and dispatchers  *)
(* do, a task moves as its users are promised.  That the phases of a task  *)
(* exclude each other rests on the accounts above: a task is bound to one  *)
(* fiber, and that fiber is in one place.                                  *)

Inv == TypeOK /\ Custody /\ Employment /\ Conserved

\* Thread t is in the code of its fiber, which is not in a waiting list.
InCode(t) == fib[t] # NoFiber /\ pc[t] \in UserPC /\ ~parking[t]

\* Fiber f is in a waiting list, or with a waker that has yet to enqueue it.
Asleep(f) ==
  \/ f \in waiting
  \/ \E t \in Threads : arg[t] = f /\ pc[t] \in {"unblock", "wake"}

LEMMA RunningIs ==
  ASSUME NEW k
  PROVE  /\ Running(k) <=> \E t \in Workers : InCode(t) /\ job[fib[t]] = k
         /\ Parked(k) <=> \E f \in Fibers : Asleep(f) /\ job[f] = k /\ status[f] # "ended"
         /\ Running(k)' <=> \E t \in Workers : InCode(t)' /\ job'[fib'[t]] = k
         /\ Parked(k)' <=> \E f \in Fibers : Asleep(f)' /\ job'[f] = k /\ status'[f] # "ended"
BY DEF Running, Parked, InCode, Asleep

\* What holds of the fibers that run and of those that sleep.
LEMMA InCodeFiber ==
  ASSUME Inv, NEW t \in Threads, InCode(t)
  PROVE  /\ t \in Workers /\ fib[t] \in Fibers /\ Holds(t, fib[t]) /\ job[fib[t]] \in Tasks
         /\ status[fib[t]] = "running" /\ ~Vacant(fib[t]) /\ ~Asleep(fib[t])
<1> USE DEF Inv, TypeOK, Custody, InCode
<1>1. t \in Workers /\ fib[t] \in Fibers /\ Holds(t, fib[t]) /\ job[fib[t]] \in Tasks
  BY DEF Hands, Holds, HasTask
<1>2. status[fib[t]] = "running"
  BY DEF BackStatus
<1>3. ~Vacant(fib[t])
  BY <1>1, RunningIsNotVacant
<1>4. ~Asleep(fib[t])
  <2>1. \A u \in Threads : Holds(u, fib[t]) => u = t
    BY <1>1 DEF NoDuplicate
  <2>2. fib[t] \notin waiting
    BY <1>1 DEF NoDuplicate
  <2>3. \A u \in Threads : pc[u] \in {"unblock", "wake"} => arg[u] # fib[t]
    BY <2>1 DEF Holds, Hands
  <2> QED
    BY <2>2, <2>3 DEF Asleep
<1> QED
  BY <1>1, <1>2, <1>3, <1>4

LEMMA AsleepFiber ==
  ASSUME Inv, NEW f \in Fibers, Asleep(f)
  PROVE  /\ Alive(f) /\ status[f] # "ended" /\ job[f] \in Tasks /\ ~Vacant(f)
         /\ \A t \in Threads : InCode(t) => fib[t] # f
<1> USE DEF Inv, TypeOK
<1>1. Alive(f) /\ status[f] # "ended"
  BY DEF Asleep, Alive, Employment, FibersAlive
<1>2. job[f] \in Tasks
  BY DEF Asleep, Custody, HasTask
<1>3. ~Vacant(f)
  BY <1>1, <1>2, ConstantsAssumption DEF Employment, FibersVacant, Dead
<1>4. \A t \in Threads : InCode(t) => fib[t] # f
  BY InCodeFiber
<1> QED
  BY <1>1, <1>2, <1>3, <1>4

\* A task is bound to one fiber.
LEMMA OneRunner ==
  ASSUME Inv, NEW k \in Tasks, NEW f \in Runners(k)
  PROVE  /\ k \in pushed \ done /\ Runners(k) = {f} /\ k \notin tasks
         /\ \A t \in Threads : task[t] # k
<1>1. k \in pushed \ done /\ Held(k) + Bound(k) + Queued(k) = 1
  BY InOnePlace DEF Inv
<1>2. Bound(k) # 0
  BY PlacesAreFinite, NotEmpty DEF Bound
<1>3. Held(k) = 0 /\ Bound(k) = 1 /\ Queued(k) = 0
  BY <1>1, <1>2, CopiesAre
<1>4. Runners(k) = {f}
  <2>1. IsFiniteSet(Runners(k)) /\ Cardinality(Runners(k)) = 1
    BY <1>3, PlacesAreFinite DEF Bound
  <2>2. PICK g : Runners(k) = {g}
    BY <2>1, FS_Singleton
  <2> QED
    BY <2>2
<1>5. k \notin tasks
  BY <1>3, QueuedOnce DEF Queued
<1>6. Carriers(k) = {}
  BY <1>3, PlacesAreFinite, FS_EmptySet DEF Held
<1> QED
  BY <1>1, <1>4, <1>5, <1>6 DEF Carriers

-----------------------------------------------------------------------------
(* The phases *)

PhasesExclude ==
  \A k \in Tasks :
    /\ k \in done => k \in pushed
    /\ Running(k) => k \in pushed \ done /\ ~Parked(k)
    /\ Parked(k) => k \in pushed \ done

LEMMA PhasesAre == Inv => PhasesExclude
<1> SUFFICES ASSUME Inv, NEW k \in Tasks
             PROVE  /\ k \in done => k \in pushed
                    /\ Running(k) => k \in pushed \ done /\ ~Parked(k)
                    /\ Parked(k) => k \in pushed \ done
  BY DEF PhasesExclude
<1>1. k \in done => k \in pushed
  BY DEF Inv, Conserved
<1>2. ASSUME Running(k) PROVE k \in pushed \ done /\ ~Parked(k)
  <2>1. PICK t \in Workers : InCode(t) /\ job[fib[t]] = k
    BY <1>2, RunningIs
  <2>2. fib[t] \in Runners(k) /\ ~Asleep(fib[t])
    BY <2>1, InCodeFiber DEF Runners
  <2>3. \A f \in Fibers : Asleep(f) /\ job[f] = k /\ status[f] # "ended" => f = fib[t]
    BY <2>2, OneRunner DEF Runners
  <2> QED
    BY <2>2, <2>3, OneRunner, RunningIs
<1>3. ASSUME Parked(k) PROVE k \in pushed \ done
  BY <1>3, RunningIs, OneRunner DEF Runners
<1> QED
  BY <1>1, <1>2, <1>3

LEMMA PhasesAreNext == Inv' => PhasesExclude'
BY PhasesAre, PTL

LEMMA PhaseIs ==
  ASSUME PhasesExclude, NEW k \in Tasks
  PROVE  /\ k \notin pushed => PhaseOf(k) = "new"
         /\ k \in done => PhaseOf(k) = "done"
         /\ Running(k) => PhaseOf(k) = "running"
         /\ Parked(k) => PhaseOf(k) = "parked"
         /\ k \in pushed \ done /\ ~Running(k) /\ ~Parked(k) => PhaseOf(k) = "pending"
BY DEF PhasesExclude, PhaseOf

LEMMA PhaseIsNext ==
  ASSUME PhasesExclude', NEW k \in Tasks
  PROVE  /\ k \notin pushed' => PhaseOf(k)' = "new"
         /\ k \in done' => PhaseOf(k)' = "done"
         /\ Running(k)' => PhaseOf(k)' = "running"
         /\ Parked(k)' => PhaseOf(k)' = "parked"
         /\ k \in pushed' \ done' /\ ~Running(k)' /\ ~Parked(k)' => PhaseOf(k)' = "pending"
BY DEF PhasesExclude, PhaseOf

-----------------------------------------------------------------------------
(* Steps *)

phases == [k \in Tasks |-> PhaseOf(k)]

\* The phase of a task is decided by who runs and who sleeps.
LEMMA SamePhase ==
  ASSUME NEW k, Running(k)' <=> Running(k), Parked(k)' <=> Parked(k),
         k \in pushed' <=> k \in pushed, k \in done' <=> k \in done
  PROVE  PhaseOf(k)' = PhaseOf(k)
BY DEF PhaseOf

\* Nobody begins or ceases to run or to sleep.
LEMMA SameWho ==
  ASSUME Inv,
         \A t \in Workers : /\ InCode(t)' <=> InCode(t)
                            /\ InCode(t) => fib'[t] = fib[t],
         \A f \in Fibers : /\ Asleep(f)' <=> Asleep(f)
                           /\ ~Vacant(f) => job'[f] = job[f]
                           /\ Asleep(f) => status'[f] # "ended",
         NEW k \in Tasks
  PROVE  (Running(k)' <=> Running(k)) /\ (Parked(k)' <=> Parked(k))
BY InCodeFiber, AsleepFiber, RunningIs

LEMMA Stutters ==
  ASSUME Inv, UNCHANGED <<pushed, done>>,
         \A t \in Workers : /\ InCode(t)' <=> InCode(t)
                            /\ InCode(t) => fib'[t] = fib[t],
         \A f \in Fibers : /\ Asleep(f)' <=> Asleep(f)
                           /\ ~Vacant(f) => job'[f] = job[f]
                           /\ Asleep(f) => status'[f] # "ended"
  PROVE  phases' = phases
<1> SUFFICES ASSUME NEW k \in Tasks PROVE PhaseOf(k)' = PhaseOf(k)
  BY DEF phases
<1>1. (Running(k)' <=> Running(k)) /\ (Parked(k)' <=> Parked(k))
  BY SameWho
<1> QED
  BY <1>1, SamePhase

\* A step about the fiber of one task leaves the phases of the others alone.
LEMMA OthersKeep ==
  ASSUME Inv, NEW f \in Fibers, NEW k \in Tasks, job[f] = k, job' = job,
         \A t \in Workers :
           \/ (InCode(t)' <=> InCode(t)) /\ (InCode(t) => fib'[t] = fib[t])
           \/ (InCode(t) => fib[t] = f) /\ (InCode(t)' => fib'[t] = f),
         \A g \in Fibers : g # f => /\ Asleep(g)' <=> Asleep(g)
                                    /\ status'[g] = status[g],
         pushed' = pushed, \A j \in Tasks : j # k => (j \in done' <=> j \in done)
  PROVE  \A j \in Tasks : j # k => PhaseOf(j)' = PhaseOf(j)
<1> SUFFICES ASSUME NEW j \in Tasks, j # k PROVE PhaseOf(j)' = PhaseOf(j)
  OBVIOUS
<1>1. Running(j)' <=> Running(j)
  BY RunningIs
<1>2. Parked(j)' <=> Parked(j)
  BY RunningIs
<1> QED
  BY <1>1, <1>2, SamePhase

\* A step in which one task changes its phase.
LEMMA Moves ==
  ASSUME Inv, NEW k \in Tasks, NEW from, NEW to, PhaseOf(k) = from, PhaseOf(k)' = to,
         \A j \in Tasks : j # k => PhaseOf(j)' = PhaseOf(j)
  PROVE  Contract!Move(k, from, to)
BY DEF Contract!Move, phases

\* Most steps are a thread's own: it stays in the code of its fiber or out of it.
LEMMA OwnStep ==
  ASSUME Inv, UNCHANGED <<pushed, done, waiting, job, status, arg, parking>>,
         NEW t \in Threads, NEW to, pc' = [pc EXCEPT ![t] = to],
         pc[t] \in {"unblock", "wake"} <=> to \in {"unblock", "wake"},
         t \in Workers => ((fib[t] # NoFiber /\ pc[t] \in UserPC <=> fib'[t] # NoFiber /\ to \in UserPC)
                           /\ (pc[t] \in UserPC => fib'[t] = fib[t])),
         \A u \in Threads : u # t => fib'[u] = fib[u]
  PROVE  phases' = phases
<1>1. \A u \in Workers : (InCode(u)' <=> InCode(u)) /\ (InCode(u) => fib'[u] = fib[u])
  BY DEF InCode, Inv, TypeOK
<1>2. \A f \in Fibers : Asleep(f)' <=> Asleep(f)
  BY DEF Asleep, Inv, TypeOK
<1> QED
  BY <1>1, <1>2, Stutters, AsleepFiber

LEMMA LifecyclePhases ==
  ASSUME Inv, Lifecycle PROVE phases' = phases
<1> USE OwnStep DEF Goto, UserPC, PushPC
<1>1. CASE Start
  BY <1>1 DEF Start
<1>2. CASE Spawned
  BY <1>2 DEF Spawned
<1>3. CASE Join
  BY <1>3 DEF Join
<1>4. CASE Destroy
  BY <1>4 DEF Destroy
<1>5. ASSUME NEW w \in Workers, SpawnWorker(w) \/ Arrive(w) \/ Pass(w) PROVE phases' = phases
  BY <1>5 DEF SpawnWorker, Arrive, Pass
<1> QED
  BY <1>1, <1>2, <1>3, <1>4, <1>5 DEF Lifecycle

\* The dispatcher's steps, but for the one that resumes a fiber.
LEMMA QueuePhases ==
  ASSUME Inv, NEW w \in Workers, Poll(w) \/ Dispatcher(w), ~Dispatch(w)
  PROVE  phases' = phases
<1> USE DEF Goto, UserPC, PushPC
<1>0. fib \in [Threads -> Fibers \cup {NoFiber}]
  BY DEF Inv, TypeOK
<1>1. CASE Poll(w)
  BY <1>0, <1>1, OwnStep DEF Poll, PollEmpty, PollTake
<1>2. CASE Cold(w) \/ ExitCheck(w) \/ GetNoFiber(w) \/ LoadBlocked(w) \/ Compare(w)
            \/ SpawnLoad(w) \/ GetNoTask(w) \/ Check(w) \/ \E k \in Tasks : GetTask(w, k)
  BY <1>2, OwnStep
     DEF Cold, ExitCheck, GetNoFiber, LoadBlocked, Compare, SpawnLoad, GetNoTask, Check, GetTask
<1>3. CASE SpawnStore(w) \/ GiveBack(w) \/ Requeue(w) \/ Release(w)
            \/ \E f \in Fibers : GetFiber(w, f)
  BY <1>0, <1>3, OwnStep DEF SpawnStore, GiveBack, Requeue, Release, GetFiber
<1>7. CASE Shelve(w) \/ BackYielded(w) \/ BackEnded(w)
  BY <1>7, OwnStep DEF Shelve, BackYielded, BackEnded
<1>4. CASE BackBlocked(w)
  <2>1. \A u \in Workers : (InCode(u)' <=> InCode(u)) /\ fib'[u] = fib[u]
    BY <1>4 DEF BackBlocked, InCode, Inv, TypeOK
  <2>2. \A f \in Fibers : Asleep(f)' <=> Asleep(f)
    BY <1>4 DEF BackBlocked, Asleep, Inv, TypeOK
  <2> QED
    BY <1>4, <2>1, <2>2, Stutters, AsleepFiber DEF BackBlocked
<1>5. CASE Bind(w)
  <2>1. fib[w] \in Fibers /\ Vacant(fib[w])
    BY <1>5 DEF Bind, Inv, TypeOK, Custody, Hands, HandPC, Vacant, Free
  <2>2. \A u \in Workers : (InCode(u)' <=> InCode(u)) /\ (InCode(u) => fib'[u] = fib[u])
    BY <1>5 DEF Bind, InCode, Inv, TypeOK
  <2>3. \A f \in Fibers : Asleep(f)' <=> Asleep(f)
    BY <1>5 DEF Bind, Asleep, Inv, TypeOK
  <2>4. \A f \in Fibers : ~Vacant(f) => job'[f] = job[f] /\ status'[f] = status[f]
    BY <1>5, <2>1 DEF Bind, ResetAndAwait, Inv, TypeOK
  <2> QED
    BY <1>5, <2>2, <2>3, <2>4, Stutters, AsleepFiber DEF Bind
<1>6. CASE Rebind(w)
  <2>1. fib[w] \in Fibers /\ Vacant(fib[w])
    BY <1>6 DEF Rebind, Inv, TypeOK, Custody, Hands, HandPC, TailPC, Vacant
  <2>2. \A u \in Workers : (InCode(u)' <=> InCode(u)) /\ fib'[u] = fib[u]
    BY <1>6 DEF Rebind, InCode, Inv, TypeOK
  <2>3. \A f \in Fibers : Asleep(f)' <=> Asleep(f)
    BY <1>6 DEF Rebind, Asleep, Inv, TypeOK
  <2>4. \A f \in Fibers : ~Vacant(f) => job'[f] = job[f] /\ status'[f] = status[f]
    BY <1>6, <2>1 DEF Rebind, ResetAndAwait, Inv, TypeOK
  <2> QED
    BY <1>6, <2>2, <2>3, <2>4, Stutters, AsleepFiber DEF Rebind
<1> QED
  BY <1>1, <1>2, <1>3, <1>4, <1>5, <1>6, <1>7 DEF Dispatcher

\* What user code does without changing the phase of a task.
LEMMA CallPhases ==
  ASSUME Inv, NEW t \in Threads,
         \/ End(t) \/ GrowLoad(t) \/ GrowStore(t) \/ GrowCap(t) \/ PushFiber(t) \/ PushTask(t)
         \/ UnblockCount(t) \/ (\E f \in Fibers : TakeWaiter(t, f)) \/ (t \in Workers /\ Block(t))
  PROVE  phases' = phases
<1> USE DEF Goto, UserPC, PushPC
<1>1. CASE End(t)
  BY <1>1, Stutters, AsleepFiber DEF End, InCode, Asleep
<1>2. CASE GrowLoad(t) \/ GrowCap(t) \/ PushTask(t) \/ UnblockCount(t)
  BY <1>2, OwnStep DEF GrowLoad, GrowCap, PushTask, UnblockCount
<1>3. CASE GrowStore(t)
  <2>1. PICK to \in {"pcap", "pbind"} : pc[t] = "pstore" /\ pc' = [pc EXCEPT ![t] = to]
    BY <1>3 DEF GrowStore
  <2>2. \A u \in Workers : (InCode(u)' <=> InCode(u)) /\ fib'[u] = fib[u]
    BY <1>3, <2>1 DEF GrowStore, InCode, Inv, TypeOK
  <2>3. \A u \in Threads : pc'[u] \in {"unblock", "wake"} <=> pc[u] \in {"unblock", "wake"}
    BY <2>1 DEF Inv, TypeOK
  <2>4. \A u \in Threads : pc[u] \in {"unblock", "wake"} => arg'[u] = arg[u]
    BY <1>3, <2>1 DEF GrowStore, Inv, TypeOK
  <2>5. \A f \in Fibers : Asleep(f)' <=> Asleep(f)
    BY <1>3, <2>3, <2>4 DEF GrowStore, Asleep
  <2> QED
    BY <1>3, <2>2, <2>5, Stutters, AsleepFiber DEF GrowStore
<1>4. CASE PushFiber(t)
  <2>1. arg[t] \in Fibers /\ Vacant(arg[t])
    BY <1>4 DEF PushFiber, Inv, TypeOK, Custody, Hands, Vacant, Free
  <2>2. \A u \in Workers : (InCode(u)' <=> InCode(u)) /\ fib'[u] = fib[u]
    BY <1>4 DEF PushFiber, InCode, Inv, TypeOK
  <2>3. \A f \in Fibers : Asleep(f)' <=> Asleep(f)
    BY <1>4 DEF PushFiber, Asleep, Inv, TypeOK
  <2>4. \A f \in Fibers : ~Vacant(f) => job'[f] = job[f] /\ status'[f] = status[f]
    BY <1>4, <2>1 DEF PushFiber, ResetAndAwait, Inv, TypeOK
  <2> QED
    BY <1>4, <2>2, <2>3, <2>4, Stutters, AsleepFiber DEF PushFiber
<1>5. ASSUME NEW f \in Fibers, TakeWaiter(t, f) PROVE phases' = phases
  <2>1. \A u \in Workers : (InCode(u)' <=> InCode(u)) /\ fib'[u] = fib[u]
    BY <1>5 DEF TakeWaiter, InCode, Inv, TypeOK
  <2>2. \A g \in Fibers : Asleep(g)' <=> Asleep(g)
    BY <1>5 DEF TakeWaiter, Asleep, Inv, TypeOK
  <2> QED
    BY <1>5, <2>1, <2>2, Stutters, AsleepFiber DEF TakeWaiter
<1>6. CASE t \in Workers /\ Block(t)
  <2>1. \A u \in Workers : (InCode(u)' <=> InCode(u)) /\ fib'[u] = fib[u]
    BY <1>6 DEF Block, InCode, Inv, TypeOK
  <2>2. \A g \in Fibers : Asleep(g)' <=> Asleep(g)
    BY <1>6 DEF Block, Asleep, Inv, TypeOK
  <2>3. \A g \in Fibers : Asleep(g) => status'[g] # "ended"
    BY <1>6, AsleepFiber DEF Block, Inv, TypeOK
  <2> QED
    BY <1>6, <2>1, <2>2, <2>3, Stutters DEF Block
<1> QED
  BY <1>1, <1>2, <1>3, <1>4, <1>5, <1>6

-----------------------------------------------------------------------------
(* The steps in which a task changes its phase *)

LEMMA PushSteps ==
  ASSUME Inv, Inv', NEW t \in Threads, NEW k \in Tasks,
         PushFindsNoFiber(t, k) \/ \E f \in Fibers : PushTakesFiber(t, k, f)
  PROVE  Contract!Push(k)
<1> USE DEF Goto
<1>1. k \notin pushed /\ pushed' = pushed \cup {k} /\ UNCHANGED <<done, waiting, job, status, fib>>
  BY DEF PushFindsNoFiber, PushTakesFiber
<1>2. PICK to \in {"ptask", "pgrow", "pbind"} : pc[t] = "body" /\ pc' = [pc EXCEPT ![t] = to]
  <2>1. CASE PushFindsNoFiber(t, k)
    BY <2>1 DEF PushFindsNoFiber
  <2>2. CASE \E f \in Fibers : PushTakesFiber(t, k, f)
    BY <2>2 DEF PushTakesFiber
  <2> QED
    BY <2>1, <2>2
<1>3. parking' = parking /\ \A u \in Threads : u # t => arg'[u] = arg[u]
  BY DEF PushFindsNoFiber, PushTakesFiber, Inv, TypeOK
<1>4. \A u \in Workers : (InCode(u)' <=> InCode(u)) /\ fib'[u] = fib[u]
  BY <1>1, <1>2, <1>3 DEF InCode, UserPC, PushPC, Inv, TypeOK
<1>5. \A f \in Fibers : Asleep(f)' <=> Asleep(f)
  BY <1>1, <1>2, <1>3 DEF Asleep, Inv, TypeOK
<1>6. \A j \in Tasks : (Running(j)' <=> Running(j)) /\ (Parked(j)' <=> Parked(j))
  BY <1>1, <1>4, <1>5, SameWho, AsleepFiber
<1>7. PhaseOf(k) = "new" /\ k \notin done /\ ~Running(k) /\ ~Parked(k)
  BY <1>1, PhasesAre, PhaseIs DEF PhasesExclude
<1>8. PhaseOf(k)' = "pending"
  BY <1>1, <1>6, <1>7, PhasesAreNext, PhaseIsNext
<1>9. \A j \in Tasks : j # k => PhaseOf(j)' = PhaseOf(j)
  BY <1>1, <1>6, SamePhase
<1> QED
  BY <1>7, <1>8, <1>9, Moves DEF Contract!Push

LEMMA LeaveSteps ==
  ASSUME Inv, Inv', NEW w \in Workers, Yield(w) \/ Finish(w) \/ Publish(w)
  PROVE  \E k \in Tasks : Contract!Yield(k) \/ Contract!Finish(k) \/ Contract!Park(k)
<1> USE DEF Goto, UserPC, PushPC
<1> DEFINE f == fib[w]
<1>1. InCode(w) /\ fib' = fib /\ job' = job
  BY DEF Yield, Finish, Publish, InCode
<1>2. PICK k \in Tasks : job[f] = k
  BY <1>1, InCodeFiber
<1>3. f \in Fibers /\ Holds(w, f) /\ status[f] = "running" /\ f \in Runners(k)
  BY <1>1, <1>2, InCodeFiber DEF Runners
<1>4. ~InCode(w)' /\ \A u \in Workers : u # w => (InCode(u)' <=> InCode(u))
  BY DEF Yield, Finish, Publish, InCode, Inv, TypeOK
<1>5. \A g \in Fibers : g # f => (Asleep(g)' <=> Asleep(g)) /\ status'[g] = status[g]
  BY <1>3 DEF Yield, Finish, Publish, Asleep, Inv, TypeOK
<1>6. PhaseOf(k) = "running" /\ k \in pushed \ done
  BY <1>1, <1>2, <1>3, RunningIs, PhasesAre, PhaseIs, OneRunner
<1>7. pushed' = pushed /\ \A j \in Tasks : j # k => (j \in done' <=> j \in done)
  BY <1>2 DEF Yield, Finish, Publish
<1>8. \A j \in Tasks : j # k => PhaseOf(j)' = PhaseOf(j)
  BY <1>1, <1>2, <1>3, <1>4, <1>5, <1>7, OthersKeep
<1>9. CASE Finish(w)
  <2>1. k \in done'
    BY <1>2, <1>9 DEF Finish
  <2>2. PhaseOf(k)' = "done"
    BY <2>1, PhasesAreNext, PhaseIsNext
  <2> QED
    BY <1>6, <1>8, <2>2, Moves DEF Contract!Finish
<1>10. CASE Publish(w)
  <2>1. \E g \in Fibers : Asleep(g)' /\ job'[g] = k /\ status'[g] # "ended"
    BY <1>2, <1>3, <1>10 DEF Publish, Asleep
  <2>2. PhaseOf(k)' = "parked"
    BY <2>1, RunningIs, PhasesAreNext, PhaseIsNext
  <2> QED
    BY <1>6, <1>8, <2>2, Moves DEF Contract!Park
<1>11. CASE Yield(w)
  <2>1. ~Running(k)'
    <3>1. ASSUME NEW u \in Workers, InCode(u)', job'[fib'[u]] = k PROVE FALSE
      <4>1. u # w /\ InCode(u) /\ job[fib[u]] = k
        BY <1>1, <1>4, <3>1
      <4>2. fib[u] \in Runners(k) /\ Holds(u, fib[u])
        BY <4>1, InCodeFiber DEF Runners
      <4>3. fib[u] = f
        BY <1>3, <4>2, OneRunner
      <4> QED
        BY <1>3, <4>1, <4>2, <4>3 DEF Inv, Custody, NoDuplicate
    <3> QED
      BY <3>1, RunningIs
  <2>2. ~Parked(k)'
    <3>1. ASSUME NEW g \in Fibers, Asleep(g)', job'[g] = k PROVE FALSE
      <4>1. Asleep(g) /\ job[g] = k
        BY <1>1, <1>11, <3>1 DEF Yield, Asleep, Inv, TypeOK
      <4>2. g \in Runners(k)
        BY <4>1, AsleepFiber DEF Runners
      <4>3. g = f
        BY <1>3, <4>2, OneRunner
      <4> QED
        BY <1>1, <4>1, <4>3, InCodeFiber
    <3> QED
      BY <3>1, RunningIs
  <2>3. k \in pushed' \ done'
    BY <1>6, <1>11 DEF Yield
  <2>4. PhaseOf(k)' = "pending"
    BY <2>1, <2>2, <2>3, PhasesAreNext, PhaseIsNext
  <2> QED
    BY <1>6, <1>8, <2>4, Moves DEF Contract!Yield
<1> QED
  BY <1>9, <1>10, <1>11

LEMMA WakeSteps ==
  ASSUME Inv, Inv', NEW t \in Threads, UnblockEnqueue(t)
  PROVE  \E k \in Tasks : Contract!Wake(k)
<1> USE DEF Goto, UserPC, PushPC, UnblockEnqueue
<1> DEFINE f == arg[t]
<1>1. f \in Fibers /\ Holds(t, f)
  BY DEF Inv, TypeOK, Custody, Hands, Holds
<1>2. Asleep(f)
  BY DEF Asleep
<1>3. PICK k \in Tasks : job[f] = k
  BY <1>1, <1>2, AsleepFiber
<1>4. f \in Runners(k) /\ status[f] # "ended"
  BY <1>1, <1>2, <1>3, AsleepFiber DEF Runners
<1>5. PhaseOf(k) = "parked" /\ ~Running(k) /\ k \in pushed \ done
  BY <1>1, <1>2, <1>3, <1>4, RunningIs, PhasesAre, PhaseIs DEF PhasesExclude
<1>6. \A u \in Workers : (InCode(u)' <=> InCode(u)) /\ fib'[u] = fib[u]
  BY DEF InCode, Inv, TypeOK
<1>7. \A g \in Fibers : g # f => (Asleep(g)' <=> Asleep(g)) /\ status'[g] = status[g]
  BY DEF Asleep, Inv, TypeOK
<1>8. \A j \in Tasks : j # k => PhaseOf(j)' = PhaseOf(j)
  BY <1>1, <1>3, <1>6, <1>7, OthersKeep
<1>9. ~Running(k)'
  BY <1>5, <1>6, RunningIs
<1>10. ~Parked(k)'
  <2>1. ASSUME NEW g \in Fibers, Asleep(g)', job'[g] = k PROVE FALSE
    <3>1. Asleep(g) /\ job[g] = k
      BY <2>1 DEF Asleep, Inv, TypeOK
    <3>2. g = f
      BY <1>4, <3>1, AsleepFiber, OneRunner DEF Runners
    <3>3. f \notin waiting /\ \A u \in Threads : Holds(u, f) => u = t
      BY <1>1 DEF Inv, Custody, NoDuplicate
    <3> QED
      BY <2>1, <3>2, <3>3 DEF Asleep, Holds, Inv, TypeOK
  <2> QED
    BY <2>1, RunningIs
<1>11. PhaseOf(k)' = "pending"
  BY <1>5, <1>9, <1>10, PhasesAreNext, PhaseIsNext
<1> QED
  BY <1>5, <1>8, <1>11, Moves DEF Contract!Wake

LEMMA SameCardinality == \A S : Contract!Cardinality(S) = Cardinality(S)
BY DEF Contract!Cardinality, Cardinality

\* There is a thread for every task that runs, and one to spare while a dispatcher is
\* about to resume another.
LEMMA ThreadToSpare ==
  ASSUME Inv, NEW w \in Workers, ~InCode(w)
  PROVE  Cardinality(Contract!Running) < Cardinality(Workers)
<1> DEFINE Busy == {t \in Workers : InCode(t)}
           g == [t \in Busy |-> job[fib[t]]]
<1>1. Contract!Running = {k \in Tasks : PhaseOf(k) = "running"}
  BY DEF Contract!Running
<1>2. \A k \in Tasks : PhaseOf(k) = "running" <=> Running(k)
  BY PhasesAre, PhaseIs DEF PhasesExclude
<1>3. g \in Surjection(Busy, Contract!Running)
  <2>1. \A t \in Busy : g[t] \in Contract!Running
    BY <1>1, <1>2, InCodeFiber, RunningIs
  <2>2. \A k \in Contract!Running : \E t \in Busy : g[t] = k
    BY <1>1, <1>2, RunningIs
  <2> QED
    BY <2>1, <2>2 DEF Surjection
<1>4. IsFiniteSet(Workers) /\ Busy \subseteq Workers \ {w}
  BY ConstantsAssumption
<1>5. /\ IsFiniteSet(Workers \ {w})
      /\ Cardinality(Workers \ {w}) = Cardinality(Workers) - 1
      /\ Cardinality(Workers) \in Nat
  BY <1>4, FS_RemoveElement, FS_CardinalityType
<1>6. IsFiniteSet(Busy) /\ Cardinality(Busy) <= Cardinality(Workers \ {w})
  BY <1>4, <1>5, FS_Subset
<1> HIDE DEF Busy, g
<1>7. /\ IsFiniteSet(Contract!Running)
      /\ Cardinality(Contract!Running) <= Cardinality(Busy)
  BY <1>3, <1>6, FS_Surjection
<1>8. Cardinality(Busy) \in Nat /\ Cardinality(Contract!Running) \in Nat
  BY <1>6, <1>7, FS_CardinalityType
<1> QED
  BY <1>5, <1>6, <1>7, <1>8

LEMMA RunSteps ==
  ASSUME Inv, Inv', NEW w \in Workers, Dispatch(w)
  PROVE  \E k \in Tasks : Contract!Run(k)
<1> USE DEF Goto, UserPC, PushPC, Dispatch
<1> DEFINE f == fib[w]
<1>1. f \in Fibers /\ Holds(w, f) /\ Alive(f) /\ ~InCode(w)
  BY DEF Inv, TypeOK, Custody, Hands, HandPC, Holds, Alive, InCode
<1>2. PICK k \in Tasks : job[f] = k
  BY DEF Inv, Custody, HasTask
<1>3. status[f] # "ended" /\ f \in Runners(k)
  BY <1>1, <1>2 DEF Inv, Employment, FibersAlive, Runners
<1>4. k \in pushed \ done
  BY <1>3, OneRunner
<1>5. ~Running(k)
  <2>1. ASSUME NEW u \in Workers, InCode(u), job[fib[u]] = k PROVE FALSE
    <3>1. fib[u] \in Runners(k) /\ Holds(u, fib[u])
      BY <2>1, InCodeFiber DEF Runners
    <3>2. fib[u] = f
      BY <1>3, <3>1, OneRunner
    <3> QED
      BY <1>1, <2>1, <3>1, <3>2 DEF Inv, Custody, NoDuplicate
  <2> QED
    BY <2>1, RunningIs
<1>6. ~Parked(k)
  <2>1. ASSUME NEW g \in Fibers, Asleep(g), job[g] = k PROVE FALSE
    <3>1. g = f
      BY <1>3, <2>1, AsleepFiber, OneRunner DEF Runners
    <3>2. f \notin waiting /\ \A u \in Threads : Holds(u, f) => u = w
      BY <1>1 DEF Inv, Custody, NoDuplicate
    <3> QED
      BY <2>1, <3>1, <3>2 DEF Asleep, Holds
  <2> QED
    BY <2>1, RunningIs
<1>7. PhaseOf(k) = "pending"
  BY <1>4, <1>5, <1>6, PhasesAre, PhaseIs
<1>8. InCode(w)' /\ fib' = fib /\ job' = job
  BY <1>1, ConstantsAssumption DEF InCode, Inv, TypeOK, Custody, Hands
<1>9. PhaseOf(k)' = "running"
  BY <1>2, <1>8, RunningIs, PhasesAreNext, PhaseIsNext
<1>10. \A u \in Workers : u # w => (InCode(u)' <=> InCode(u))
  BY DEF InCode, Inv, TypeOK
<1>11. \A g \in Fibers : g # f => (Asleep(g)' <=> Asleep(g)) /\ status'[g] = status[g]
  BY DEF Asleep, Inv, TypeOK
<1>12. \A j \in Tasks : j # k => PhaseOf(j)' = PhaseOf(j)
  BY <1>1, <1>2, <1>8, <1>10, <1>11, OthersKeep
<1> QED
  BY <1>1, <1>7, <1>9, <1>12, Moves, ThreadToSpare, SameCardinality DEF Contract!Run

LEMMA StepImplements ==
  ASSUME Inv, Inv', [Next]_vars
  PROVE  Contract!Next \/ phases' = phases
<1>1. ASSUME NEW t \in Threads, UserCall(t) PROVE Contract!Next \/ phases' = phases
  <2>1. CASE End(t) \/ \E f \in Fibers : TakeWaiter(t, f)
    BY <2>1, CallPhases
  <2>2. ASSUME NEW k \in Tasks, PushFindsNoFiber(t, k) \/ \E f \in Fibers : PushTakesFiber(t, k, f)
        PROVE  Contract!Next
    BY <2>2, PushSteps DEF Contract!Next
  <2> QED
    BY <1>1, <2>1, <2>2 DEF UserCall
<1>2. ASSUME NEW t \in Threads, InCall(t) PROVE Contract!Next \/ phases' = phases
  <2>1. CASE GrowLoad(t) \/ GrowStore(t) \/ GrowCap(t) \/ PushFiber(t) \/ PushTask(t)
             \/ UnblockCount(t)
    BY <2>1, CallPhases
  <2>2. CASE UnblockEnqueue(t)
    BY <2>2, WakeSteps DEF Contract!Next
  <2> QED
    BY <1>2, <2>1, <2>2 DEF InCall
<1>3. ASSUME NEW w \in Workers, Publish(w) \/ Leave(w) PROVE Contract!Next \/ phases' = phases
  BY <1>3, CallPhases, LeaveSteps DEF Leave, Contract!Next
<1>4. ASSUME NEW w \in Workers, Poll(w) \/ Dispatcher(w)
      PROVE  Contract!Next \/ phases' = phases
  BY <1>4, QueuePhases, RunSteps DEF Contract!Next
<1>5. CASE UNCHANGED vars
  BY <1>5, Stutters, AsleepFiber DEF vars, InCode, Asleep
<1> QED
  BY <1>1, <1>2, <1>3, <1>4, <1>5, LifecyclePhases DEF Next, Gone

\* The pool implements the scheduler its users rely on: a task is run by one thread at a
\* time and by no more threads than there are, it goes on after a yield or a wake-up and
\* only then, and it finishes once, whichever queues and fibers it goes through.
THEOREM PoolImplementsScheduler == Spec => Implements
<1>1. Spec => []Inv
  <2>1. (TypeOK /\ Custody) /\ (TypeOK /\ Custody)' /\ Employment /\ Conserved /\ [Next]_vars
          => Conserved'
    BY NextConserved
  <2> QED
    BY <2>1, InitConserved, Inductive, EmploymentInvariant, PTL DEF Spec, Inv
<1>2. Init => Contract!Init
  BY DEF Init, Contract!Init, PhaseOf
<1>3. Inv /\ Inv' /\ [Next]_vars => [Contract!Next]_([k \in Tasks |-> PhaseOf(k)])
  BY StepImplements DEF phases
<1> QED
  BY <1>1, <1>2, <1>3, PTL DEF Spec, Implements, Contract!Spec
=============================================================================
