-------------------------- MODULE FiberPoolProofs --------------------------
(***************************************************************************)
(* Machine-checked properties of FiberPool, for every set of threads, of   *)
(* fibers and of tasks.  Custody, the conjunction of NoDuplicate, NoLeak   *)
(* and ExclusiveRun with what a thread at each program point holds, is     *)
(* inductive once the variables are typed.  The steps that cannot disturb  *)
(* it, because the thread keeps what it holds, share one lemma (Quiet);    *)
(* each other action has a lemma with one step per conjunct.               *)
(***************************************************************************)
EXTENDS FiberPool, FiniteSetTheorems, TLAPS

USE DEF Threads, pool, queues, fiber, thread, hist

-----------------------------------------------------------------------------
(* Type correctness *)

LEMMA PointsArePCs ==
  /\ PushPC \cup {"body", "unblock", "wake", "back", "release", "rebind", "shelve"} \subseteq PCs
  /\ {"check", "requeue", "dispatch", "gettask", "bind", "giveback"} \subseteq PCs
  /\ IdlePC \cup MainPC \cup {"exited"} \subseteq PCs
BY DEF PCs, IdlePC, HandPC, ExecPC, UserPC, TailPC, PushPC, MainPC

LEMMA CountUp ==
  ASSUME NEW c \in [Fibers -> Nat], NEW f PROVE [c EXCEPT ![f] = @ + 1] \in [Fibers -> Nat]
<1>1. \A g \in Fibers : [c EXCEPT ![f] = @ + 1][g] \in Nat
  OBVIOUS
<1> QED
  BY <1>1

LEMMA PoolSizeType == Cardinality(Workers) \in Nat
BY FS_CardinalityType, ConstantsAssumption

LEMMA InitTypeOK == Init => TypeOK
<1> SUFFICES ASSUME Init PROVE TypeOK
  OBVIOUS
<1>1. fibers \in [Fibers -> Nat] /\ awaiting \in [Fibers -> Nat]
  BY DEF Init
<1>2. spawned \in Int /\ created \subseteq Fibers
  BY ConstantsAssumption DEF Init
<1>3. pc \in [Threads -> PCs]
  BY PointsArePCs DEF Init, IdlePC
<1>4. reg \in [Threads -> Int] /\ parking \in [Threads -> BOOLEAN]
  BY DEF Init
<1>5. running \in BOOLEAN /\ barrier = 0 /\ blocked = 0 /\ number_of_threads = 0
  BY DEF Init
<1> QED
  BY <1>1, <1>2, <1>3, <1>4, <1>5 DEF Init, TypeOK

LEMMA LifecycleTypeOK ==
  ASSUME TypeOK, Custody, Lifecycle
  PROVE  TypeOK'
<1> USE PointsArePCs DEF TypeOK, Goto
<1>1. CASE Start
  BY <1>1, PoolSizeType DEF Start, IdlePC, MainPC
<1>2. CASE Spawned
  BY <1>2 DEF Spawned, IdlePC, MainPC
<1>3. CASE Join
  BY <1>3 DEF Join, IdlePC, MainPC
<1>4. CASE Destroy
  BY <1>4 DEF Destroy, IdlePC, MainPC
<1>5. ASSUME NEW w \in Workers, SpawnWorker(w) PROVE TypeOK'
  BY <1>5 DEF SpawnWorker, IdlePC
<1>6. ASSUME NEW w \in Workers, Arrive(w) PROVE TypeOK'
  BY <1>6 DEF Arrive, IdlePC
<1>7. ASSUME NEW w \in Workers, Pass(w) PROVE TypeOK'
  BY <1>7 DEF Pass, IdlePC
<1> QED
  BY <1>1, <1>2, <1>3, <1>4, <1>5, <1>6, <1>7 DEF Lifecycle

LEMMA UserCallTypeOK ==
  ASSUME TypeOK, Custody, NEW t \in Threads, UserCall(t)
  PROVE  TypeOK'
<1> USE PointsArePCs DEF TypeOK, Goto
<1>1. CASE End(t)
  BY <1>1 DEF End
<1>2. ASSUME NEW k \in Tasks, PushFindsNoFiber(t, k) PROVE TypeOK'
  BY <1>2 DEF PushFindsNoFiber, PushPC
<1>3. ASSUME NEW k \in Tasks, NEW f \in Fibers, PushTakesFiber(t, k, f) PROVE TypeOK'
  BY <1>3 DEF PushTakesFiber, PushPC
<1>4. ASSUME NEW f \in Fibers, TakeWaiter(t, f) PROVE TypeOK'
  BY <1>4 DEF TakeWaiter
<1> QED
  BY <1>1, <1>2, <1>3, <1>4 DEF UserCall

LEMMA InCallTypeOK ==
  ASSUME TypeOK, Custody, NEW t \in Threads, InCall(t)
  PROVE  TypeOK'
<1> USE PointsArePCs DEF TypeOK, Goto
<1>1. CASE GrowLoad(t)
  BY <1>1 DEF GrowLoad, PushPC
<1>2. CASE GrowStore(t)
  <2>1. pc' \in [Threads -> PCs]
    BY <1>2 DEF GrowStore, PushPC
  <2> QED
    BY <2>1, <1>2 DEF GrowStore
<1>3. CASE GrowCap(t)
  BY <1>3, ConstantsAssumption DEF GrowCap, PushPC
<1>4. CASE PushFiber(t)
  BY <1>4, CountUp DEF PushFiber, ResetAndAwait, PushPC
<1>5. CASE PushTask(t)
  BY <1>5 DEF PushTask, PushPC, Custody, HasTask
<1>6. CASE UnblockCount(t)
  BY <1>6 DEF UnblockCount
<1>7. CASE UnblockEnqueue(t)
  BY <1>7, CountUp DEF UnblockEnqueue
<1> QED
  BY <1>1, <1>2, <1>3, <1>4, <1>5, <1>6, <1>7 DEF InCall

LEMMA LeaveTypeOK ==
  ASSUME TypeOK, Custody, NEW w \in Workers, Publish(w) \/ Leave(w) \/ Poll(w)
  PROVE  TypeOK'
<1> USE PointsArePCs DEF TypeOK, Goto
<1>1. CASE Publish(w)
  BY <1>1 DEF Publish
<1>2. CASE Block(w)
  BY <1>2 DEF Block
<1>3. CASE Yield(w)
  BY <1>3 DEF Yield
<1>4. CASE Finish(w)
  BY <1>4 DEF Finish, Custody, HasTask, UserPC
<1>5. CASE PollEmpty(w)
  BY <1>5 DEF PollEmpty, IdlePC
<1>6. ASSUME NEW f \in Fibers, PollTake(w, f) PROVE TypeOK'
  BY <1>6 DEF PollTake, IdlePC
<1> QED
  BY <1>1, <1>2, <1>3, <1>4, <1>5, <1>6 DEF Leave, Poll

LEMMA DispatcherTypeOK ==
  ASSUME TypeOK, Custody, NEW w \in Workers, Dispatcher(w)
  PROVE  TypeOK'
<1> USE PointsArePCs DEF TypeOK, Goto
<1>1. CASE Cold(w)
  BY <1>1 DEF Cold, IdlePC
<1>2. CASE ExitCheck(w)
  BY <1>2 DEF ExitCheck, IdlePC
<1>3. CASE GetNoFiber(w)
  BY <1>3 DEF GetNoFiber, IdlePC
<1>4. CASE LoadBlocked(w)
  BY <1>4 DEF LoadBlocked, IdlePC
<1>5. CASE Compare(w) \/ SpawnLoad(w)
  BY <1>5 DEF Compare, SpawnLoad, IdlePC
<1>6. CASE SpawnStore(w)
  BY <1>6 DEF SpawnStore, IdlePC
<1>7. ASSUME NEW f \in Fibers, GetFiber(w, f) PROVE TypeOK'
  BY <1>7 DEF GetFiber, IdlePC
<1>8. ASSUME NEW k \in Tasks, GetTask(w, k) PROVE TypeOK'
  BY <1>8 DEF GetTask
<1>9. CASE GetNoTask(w)
  BY <1>9 DEF GetNoTask
<1>10. CASE GiveBack(w)
  BY <1>10, CountUp DEF GiveBack, IdlePC
<1>11. CASE Bind(w)
  BY <1>11, CountUp DEF Bind, ResetAndAwait, IdlePC
<1>12. CASE Check(w)
  BY <1>12 DEF Check
<1>13. CASE Requeue(w)
  BY <1>13, CountUp DEF Requeue, IdlePC
<1>14. CASE Dispatch(w)
  BY <1>14 DEF Dispatch
<1>15. CASE BackEnded(w)
  BY <1>15 DEF BackEnded
<1>16. CASE Rebind(w)
  BY <1>16, CountUp DEF Rebind, ResetAndAwait
<1>17. CASE Shelve(w)
  BY <1>17, CountUp DEF Shelve
<1>18. CASE BackYielded(w)
  BY <1>18, CountUp DEF BackYielded
<1>19. CASE BackBlocked(w)
  BY <1>19 DEF BackBlocked
<1>20. CASE Release(w)
  BY <1>20 DEF Release, IdlePC
<1> QED
  BY <1>1, <1>2, <1>3, <1>4, <1>5, <1>6, <1>7, <1>8, <1>9, <1>10, <1>11, <1>12, <1>13, <1>14, <1>15, <1>16, <1>17, <1>18, <1>19, <1>20 DEF Dispatcher

LEMMA NextTypeOK == TypeOK /\ Custody /\ [Next]_vars => TypeOK'
<1> SUFFICES ASSUME TypeOK, Custody, [Next]_vars PROVE TypeOK'
  OBVIOUS
<1>1. CASE UNCHANGED vars
  BY <1>1 DEF TypeOK, vars
<1> QED
  BY <1>1, LifecycleTypeOK, UserCallTypeOK, InCallTypeOK, LeaveTypeOK, DispatcherTypeOK
     DEF Next, Gone

-----------------------------------------------------------------------------
(* Custody *)

LEMMA InitCustody == Init => Custody
<1> SUFFICES ASSUME Init PROVE Custody
  OBVIOUS
<1> USE ConstantsAssumption DEF Init, HandPC, UserPC, PushPC, ExecPC, TailPC
<1>1. NoDuplicate
  BY DEF NoDuplicate, Holds
<1>2. NoLeak
  BY DEF NoLeak
<1>3. ExclusiveRun
  BY DEF ExclusiveRun, Executes
<1>4. Hands
  BY DEF Hands
<1>5. Handshake
  BY DEF Handshake, Executes
<1>6. BackStatus
  BY DEF BackStatus
<1>7. HasTask
  BY DEF HasTask
<1>8. FreeIsIdle
  BY DEF FreeIsIdle
<1>9. UncreatedIsNowhere
  BY DEF UncreatedIsNowhere, Holds, Executes
<1>10. JoinedAll
  BY DEF JoinedAll
<1> QED
  BY <1>1, <1>2, <1>3, <1>4, <1>5, <1>6, <1>7, <1>8, <1>9, <1>10 DEF Custody

\* Nothing that Custody speaks of changes.
LEMMA StutterKeepsCustody ==
  ASSUME Custody, UNCHANGED <<created, queues, fiber, pc, fib, arg, task, parking>>
  PROVE  Custody'
BY DEF Custody, NoDuplicate, NoLeak, ExclusiveRun, Hands, Handshake, BackStatus, FreeIsIdle,
       Free, UncreatedIsNowhere, JoinedAll, HasTask, Holds, Executes

\* The program points between which a thread keeps what it holds.
Zones == {{"body", "ptask", "pgrow", "pstore", "pcap"}, {"unblock", "wake"},
          {"gettask", "bind", "giveback"}, IdlePC \cup {"exited"}}

LEMMA Quiet ==
  ASSUME TypeOK, Custody, NEW t \in Threads, NEW Z \in Zones,
         pc[t] \in Z, pc[t] # "exited", NEW to \in Z, pc' = [pc EXCEPT ![t] = to],
         UNCHANGED <<created, fibers, awaiting, waiting, fiber, fib, arg, parking>>,
         \A u \in Threads : pc'[u] \in PushPC \cup {"bind", "rebind"} => task'[u] \in Tasks
  PROVE  Custody'
<1> USE DEF TypeOK, Custody, Zones, HandPC, UserPC, PushPC, ExecPC, TailPC, IdlePC
<1>0. \A f \in Fibers, u \in Threads :
        (Holds(u, f)' <=> Holds(u, f)) /\ (Executes(u, f)' <=> Executes(u, f))
  BY DEF Holds, Executes
<1>1. NoDuplicate'
  BY <1>0 DEF NoDuplicate
<1>2. NoLeak'
  BY <1>0 DEF NoLeak
<1>3. ExclusiveRun'
  BY <1>0 DEF ExclusiveRun
<1>4. Hands'
  BY DEF Hands
<1>5. Handshake'
  BY <1>0 DEF Handshake
<1>6. BackStatus'
  BY DEF BackStatus
<1>7. HasTask'
  BY DEF HasTask
<1>8. FreeIsIdle'
  BY DEF FreeIsIdle, Free
<1>9. UncreatedIsNowhere'
  BY <1>0 DEF UncreatedIsNowhere
<1>10. JoinedAll'
  BY DEF JoinedAll
<1> QED
  BY <1>1, <1>2, <1>3, <1>4, <1>5, <1>6, <1>7, <1>8, <1>9, <1>10

LEMMA StartKeepsCustody ==
  ASSUME TypeOK, TypeOK', Custody,
         Start
  PROVE  Custody'
<1> USE ConstantsAssumption DEF Start, Goto, TypeOK, Custody
<1> USE DEF HandPC, UserPC, PushPC, ExecPC, TailPC
<1>1. NoDuplicate' BY DEF NoDuplicate, Holds
<1>2. NoLeak' BY DEF NoLeak, Holds
<1>3. ExclusiveRun' BY DEF ExclusiveRun, Executes
<1>4. Hands' BY DEF Hands
<1>5. Handshake' BY DEF Handshake, Executes
<1>6. BackStatus' BY DEF BackStatus
<1>7. HasTask' BY DEF HasTask
<1>8. FreeIsIdle' BY DEF FreeIsIdle, Free
<1>9. UncreatedIsNowhere' BY DEF UncreatedIsNowhere, Holds, Executes
<1>10. JoinedAll' BY DEF JoinedAll
<1> QED
  BY <1>1, <1>2, <1>3, <1>4, <1>5, <1>6, <1>7, <1>8, <1>9, <1>10

LEMMA SpawnedKeepsCustody ==
  ASSUME TypeOK, TypeOK', Custody,
         Spawned
  PROVE  Custody'
<1> USE ConstantsAssumption DEF Spawned, Goto, TypeOK, Custody
<1> USE DEF HandPC, UserPC, PushPC, ExecPC, TailPC
<1>1. NoDuplicate' BY DEF NoDuplicate, Holds, Hands
<1>2. NoLeak' BY DEF NoLeak, Holds
<1>3. ExclusiveRun' BY DEF ExclusiveRun, Executes, Hands
<1>4. Hands' BY DEF Hands
<1>5. Handshake' BY DEF Handshake, Executes, Hands
<1>6. BackStatus' BY DEF BackStatus, Hands
<1>7. HasTask' BY DEF HasTask, Hands
<1>8. FreeIsIdle' BY DEF FreeIsIdle, Free, Hands
<1>9. UncreatedIsNowhere' BY DEF UncreatedIsNowhere, Holds, Executes, Hands
<1>10. JoinedAll' BY DEF JoinedAll
<1> QED
  BY <1>1, <1>2, <1>3, <1>4, <1>5, <1>6, <1>7, <1>8, <1>9, <1>10

LEMMA JoinKeepsCustody ==
  ASSUME TypeOK, TypeOK', Custody,
         Join
  PROVE  Custody'
<1> USE ConstantsAssumption DEF Join, Goto, TypeOK, Custody
<1> USE DEF HandPC, UserPC, PushPC, ExecPC, TailPC
<1>1. NoDuplicate' BY DEF NoDuplicate, Holds
<1>2. NoLeak' BY DEF NoLeak, Holds, Hands
<1>3. ExclusiveRun' BY DEF ExclusiveRun, Executes
<1>4. Hands' BY DEF Hands
<1>5. Handshake' BY DEF Handshake, Executes
<1>6. BackStatus' BY DEF BackStatus
<1>7. HasTask' BY DEF HasTask
<1>8. FreeIsIdle' BY DEF FreeIsIdle, Free
<1>9. UncreatedIsNowhere' BY DEF UncreatedIsNowhere, Holds, Executes
<1>10. JoinedAll' BY DEF JoinedAll
<1> QED
  BY <1>1, <1>2, <1>3, <1>4, <1>5, <1>6, <1>7, <1>8, <1>9, <1>10

LEMMA DestroyKeepsCustody ==
  ASSUME TypeOK, TypeOK', Custody,
         Destroy
  PROVE  Custody'
<1> USE ConstantsAssumption DEF Destroy, Goto, TypeOK, Custody
<1> USE DEF HandPC, UserPC, PushPC, ExecPC, TailPC
<1>1. NoDuplicate' BY DEF NoDuplicate, Holds
<1>2. NoLeak' BY DEF NoLeak, Holds
<1>3. ExclusiveRun' BY DEF ExclusiveRun, Executes
<1>4. Hands' BY DEF Hands
<1>5. Handshake' BY DEF Handshake, Executes
<1>6. BackStatus' BY DEF BackStatus
<1>7. HasTask' BY DEF HasTask
<1>8. FreeIsIdle' BY DEF FreeIsIdle, Free
<1>9. UncreatedIsNowhere'
  BY DEF UncreatedIsNowhere, JoinedAll, NoDuplicate, Holds, Executes, Hands
<1>10. JoinedAll' BY DEF JoinedAll
<1> QED
  BY <1>1, <1>2, <1>3, <1>4, <1>5, <1>6, <1>7, <1>8, <1>9, <1>10

LEMMA PushTakesFiberKeepsCustody ==
  ASSUME TypeOK, TypeOK', Custody, NEW t \in Threads, NEW k \in Tasks, NEW f \in Fibers,
         PushTakesFiber(t, k, f)
  PROVE  Custody'
<1> USE ConstantsAssumption DEF PushTakesFiber, Goto, TypeOK, Custody
<1> USE DEF HandPC, UserPC, PushPC, ExecPC, TailPC
<1>1. NoDuplicate' BY DEF NoDuplicate, Holds
<1>2. NoLeak' BY DEF NoLeak, Holds
<1>3. ExclusiveRun' BY DEF ExclusiveRun, Executes
<1>4. Hands' BY DEF Hands, NoDuplicate, Holds
<1>5. Handshake' BY DEF Handshake, Executes
<1>6. BackStatus' BY DEF BackStatus
<1>7. HasTask' BY DEF HasTask
<1>8. FreeIsIdle' BY DEF FreeIsIdle, Free
<1>9. UncreatedIsNowhere' BY DEF UncreatedIsNowhere, Holds, Executes
<1>10. JoinedAll' BY DEF JoinedAll
<1> QED
  BY <1>1, <1>2, <1>3, <1>4, <1>5, <1>6, <1>7, <1>8, <1>9, <1>10

LEMMA GrowStoreKeepsCustody ==
  ASSUME TypeOK, TypeOK', Custody, NEW t \in Threads,
         GrowStore(t)
  PROVE  Custody'
<1> USE ConstantsAssumption DEF GrowStore, Goto, TypeOK, Custody
<1> USE DEF HandPC, UserPC, PushPC, ExecPC, TailPC
<1>1. NoDuplicate' BY DEF NoDuplicate, Holds, UncreatedIsNowhere, Executes
<1>2. NoLeak' BY DEF NoLeak, Holds
<1>3. ExclusiveRun' BY DEF ExclusiveRun, Executes
<1>4. Hands' BY DEF Hands, UncreatedIsNowhere, Holds, Executes
<1>5. Handshake' BY DEF Handshake, Executes
<1>6. BackStatus' BY DEF BackStatus
<1>7. HasTask' BY DEF HasTask
<1>8. FreeIsIdle' BY DEF FreeIsIdle, Free, UncreatedIsNowhere, Holds, Executes
<1>9. UncreatedIsNowhere' BY DEF UncreatedIsNowhere, Holds, Executes
<1>10. JoinedAll' BY DEF JoinedAll
<1> QED
  BY <1>1, <1>2, <1>3, <1>4, <1>5, <1>6, <1>7, <1>8, <1>9, <1>10

LEMMA PushFiberKeepsCustody ==
  ASSUME TypeOK, TypeOK', Custody, NEW t \in Threads,
         PushFiber(t)
  PROVE  Custody'
<1> USE ConstantsAssumption DEF PushFiber, Goto, ResetAndAwait, TypeOK, Custody
<1> USE DEF HandPC, UserPC, PushPC, ExecPC, TailPC
<1>1. NoDuplicate' BY DEF NoDuplicate, Holds, Hands
<1>2. NoLeak' BY DEF NoLeak, Holds
<1>3. ExclusiveRun' BY DEF ExclusiveRun, Executes
<1>4. Hands' BY DEF Hands
<1>5. Handshake' BY DEF Handshake, Executes
<1>6. BackStatus' BY DEF BackStatus, Hands, FreeIsIdle, Free
<1>7. HasTask' BY DEF HasTask
<1>8. FreeIsIdle' BY DEF FreeIsIdle, Free
<1>9. UncreatedIsNowhere' BY DEF UncreatedIsNowhere, Holds, Executes
<1>10. JoinedAll' BY DEF JoinedAll
<1> QED
  BY <1>1, <1>2, <1>3, <1>4, <1>5, <1>6, <1>7, <1>8, <1>9, <1>10

LEMMA PublishKeepsCustody ==
  ASSUME TypeOK, TypeOK', Custody, NEW w \in Workers,
         Publish(w)
  PROVE  Custody'
<1> USE ConstantsAssumption DEF Publish, Goto, TypeOK, Custody
<1> USE DEF HandPC, UserPC, PushPC, ExecPC, TailPC
<1>1. NoDuplicate' BY DEF NoDuplicate, Holds
<1>2. NoLeak' BY DEF NoLeak, Holds
<1>3. ExclusiveRun' BY DEF ExclusiveRun, Executes
<1>4. Hands' BY DEF Hands
<1>5. Handshake' BY DEF Handshake, Executes
<1>6. BackStatus' BY DEF BackStatus
<1>7. HasTask' BY DEF HasTask
<1>8. FreeIsIdle' BY DEF FreeIsIdle, Free
<1>9. UncreatedIsNowhere' BY DEF UncreatedIsNowhere, Holds, Executes
<1>10. JoinedAll' BY DEF JoinedAll
<1> QED
  BY <1>1, <1>2, <1>3, <1>4, <1>5, <1>6, <1>7, <1>8, <1>9, <1>10

LEMMA BlockKeepsCustody ==
  ASSUME TypeOK, TypeOK', Custody, NEW w \in Workers,
         Block(w)
  PROVE  Custody'
<1> USE ConstantsAssumption DEF Block, Goto, TypeOK, Custody
<1> USE DEF HandPC, UserPC, PushPC, ExecPC, TailPC
<1>1. NoDuplicate' BY DEF NoDuplicate, Holds
<1>2. NoLeak' BY DEF NoLeak, Holds
<1>3. ExclusiveRun' BY DEF ExclusiveRun, Executes
<1>4. Hands' BY DEF Hands
<1>5. Handshake' BY DEF Handshake, Executes
<1>6. BackStatus' BY DEF BackStatus, Hands, ExclusiveRun, Executes
<1>7. HasTask' BY DEF HasTask
<1>8. FreeIsIdle' BY DEF FreeIsIdle, Free
<1>9. UncreatedIsNowhere' BY DEF UncreatedIsNowhere, Holds, Executes
<1>10. JoinedAll' BY DEF JoinedAll
<1> QED
  BY <1>1, <1>2, <1>3, <1>4, <1>5, <1>6, <1>7, <1>8, <1>9, <1>10

LEMMA TakeWaiterKeepsCustody ==
  ASSUME TypeOK, TypeOK', Custody, NEW t \in Threads, NEW f \in Fibers,
         TakeWaiter(t, f)
  PROVE  Custody'
<1> USE ConstantsAssumption DEF TakeWaiter, Goto, TypeOK, Custody
<1> USE DEF HandPC, UserPC, PushPC, ExecPC, TailPC
<1>1. NoDuplicate' BY DEF NoDuplicate, Holds
<1>2. NoLeak' BY DEF NoLeak, Holds
<1>3. ExclusiveRun' BY DEF ExclusiveRun, Executes
<1>4. Hands' BY DEF Hands
<1>5. Handshake' BY DEF Handshake, Executes
<1>6. BackStatus' BY DEF BackStatus
<1>7. HasTask' BY DEF HasTask
<1>8. FreeIsIdle' BY DEF FreeIsIdle, Free
<1>9. UncreatedIsNowhere' BY DEF UncreatedIsNowhere, Holds, Executes
<1>10. JoinedAll' BY DEF JoinedAll
<1> QED
  BY <1>1, <1>2, <1>3, <1>4, <1>5, <1>6, <1>7, <1>8, <1>9, <1>10

LEMMA UnblockEnqueueKeepsCustody ==
  ASSUME TypeOK, TypeOK', Custody, NEW t \in Threads,
         UnblockEnqueue(t)
  PROVE  Custody'
<1> USE ConstantsAssumption DEF UnblockEnqueue, Goto, TypeOK, Custody
<1> USE DEF HandPC, UserPC, PushPC, ExecPC, TailPC
<1>1. NoDuplicate' BY DEF NoDuplicate, Holds, Hands
<1>2. NoLeak' BY DEF NoLeak, Holds
<1>3. ExclusiveRun' BY DEF ExclusiveRun, Executes
<1>4. Hands' BY DEF Hands
<1>5. Handshake' BY DEF Handshake, Executes
<1>6. BackStatus' BY DEF BackStatus
<1>7. HasTask' BY DEF HasTask
<1>8. FreeIsIdle' BY DEF FreeIsIdle, Free
<1>9. UncreatedIsNowhere' BY DEF UncreatedIsNowhere, Holds, Executes
<1>10. JoinedAll' BY DEF JoinedAll
<1> QED
  BY <1>1, <1>2, <1>3, <1>4, <1>5, <1>6, <1>7, <1>8, <1>9, <1>10

LEMMA YieldKeepsCustody ==
  ASSUME TypeOK, TypeOK', Custody, NEW w \in Workers,
         Yield(w)
  PROVE  Custody'
<1> USE ConstantsAssumption DEF Yield, Goto, TypeOK, Custody
<1> USE DEF HandPC, UserPC, PushPC, ExecPC, TailPC
<1>1. NoDuplicate' BY DEF NoDuplicate, Holds
<1>2. NoLeak' BY DEF NoLeak, Holds
<1>3. ExclusiveRun' BY DEF ExclusiveRun, Executes
<1>4. Hands' BY DEF Hands
<1>5. Handshake' BY DEF Handshake, Executes
<1>6. BackStatus' BY DEF BackStatus, Hands, ExclusiveRun, Executes
<1>7. HasTask' BY DEF HasTask
<1>8. FreeIsIdle' BY DEF FreeIsIdle, Free
<1>9. UncreatedIsNowhere' BY DEF UncreatedIsNowhere, Holds, Executes
<1>10. JoinedAll' BY DEF JoinedAll
<1> QED
  BY <1>1, <1>2, <1>3, <1>4, <1>5, <1>6, <1>7, <1>8, <1>9, <1>10

LEMMA FinishKeepsCustody ==
  ASSUME TypeOK, TypeOK', Custody, NEW w \in Workers,
         Finish(w)
  PROVE  Custody'
<1> USE ConstantsAssumption DEF Finish, Goto, TypeOK, Custody
<1> USE DEF HandPC, UserPC, PushPC, ExecPC, TailPC
<1>1. NoDuplicate' BY DEF NoDuplicate, Holds
<1>2. NoLeak' BY DEF NoLeak, Holds
<1>3. ExclusiveRun' BY DEF ExclusiveRun, Executes
<1>4. Hands' BY DEF Hands
<1>5. Handshake' BY DEF Handshake, Executes
<1>6. BackStatus' BY DEF BackStatus, Hands, ExclusiveRun, Executes
<1>7. HasTask' BY DEF HasTask
<1>8. FreeIsIdle' BY DEF FreeIsIdle, Free
<1>9. UncreatedIsNowhere' BY DEF UncreatedIsNowhere, Holds, Executes
<1>10. JoinedAll' BY DEF JoinedAll
<1> QED
  BY <1>1, <1>2, <1>3, <1>4, <1>5, <1>6, <1>7, <1>8, <1>9, <1>10

LEMMA PollTakeKeepsCustody ==
  ASSUME TypeOK, TypeOK', Custody, NEW w \in Workers, NEW f \in Fibers,
         PollTake(w, f)
  PROVE  Custody'
<1> USE ConstantsAssumption DEF PollTake, Goto, TypeOK, Custody
<1> USE DEF HandPC, UserPC, PushPC, ExecPC, TailPC
<1>1. NoDuplicate' BY DEF NoDuplicate, Holds
<1>2. NoLeak' BY DEF NoLeak, Holds
<1>3. ExclusiveRun' BY DEF ExclusiveRun, Executes
<1>4. Hands' BY DEF Hands
<1>5. Handshake' BY DEF Handshake, Executes
<1>6. BackStatus' BY DEF BackStatus
<1>7. HasTask' BY DEF HasTask
<1>8. FreeIsIdle' BY DEF FreeIsIdle, Free
<1>9. UncreatedIsNowhere' BY DEF UncreatedIsNowhere, Holds, Executes
<1>10. JoinedAll' BY DEF JoinedAll
<1> QED
  BY <1>1, <1>2, <1>3, <1>4, <1>5, <1>6, <1>7, <1>8, <1>9, <1>10

LEMMA GetFiberKeepsCustody ==
  ASSUME TypeOK, TypeOK', Custody, NEW w \in Workers, NEW f \in Fibers,
         GetFiber(w, f)
  PROVE  Custody'
<1> USE ConstantsAssumption DEF GetFiber, Goto, TypeOK, Custody
<1> USE DEF HandPC, UserPC, PushPC, ExecPC, TailPC
<1>1. NoDuplicate' BY DEF NoDuplicate, Holds
<1>2. NoLeak' BY DEF NoLeak, Holds
<1>3. ExclusiveRun' BY DEF ExclusiveRun, Executes
<1>4. Hands' BY DEF Hands
<1>5. Handshake' BY DEF Handshake, Executes
<1>6. BackStatus' BY DEF BackStatus
<1>7. HasTask' BY DEF HasTask
<1>8. FreeIsIdle' BY DEF FreeIsIdle, Free
<1>9. UncreatedIsNowhere' BY DEF UncreatedIsNowhere, Holds, Executes
<1>10. JoinedAll' BY DEF JoinedAll
<1> QED
  BY <1>1, <1>2, <1>3, <1>4, <1>5, <1>6, <1>7, <1>8, <1>9, <1>10

LEMMA SpawnStoreKeepsCustody ==
  ASSUME TypeOK, TypeOK', Custody, NEW w \in Workers,
         SpawnStore(w)
  PROVE  Custody'
<1> USE ConstantsAssumption DEF SpawnStore, Goto, TypeOK, Custody
<1> USE DEF HandPC, UserPC, PushPC, ExecPC, TailPC
<1>1. NoDuplicate' BY DEF NoDuplicate, Holds, UncreatedIsNowhere, Executes
<1>2. NoLeak' BY DEF NoLeak, Holds
<1>3. ExclusiveRun' BY DEF ExclusiveRun, Executes
<1>4. Hands' BY DEF Hands
<1>5. Handshake' BY DEF Handshake, Executes
<1>6. BackStatus' BY DEF BackStatus
<1>7. HasTask' BY DEF HasTask
<1>8. FreeIsIdle' BY DEF FreeIsIdle, Free, UncreatedIsNowhere, Holds, Executes
<1>9. UncreatedIsNowhere' BY DEF UncreatedIsNowhere, Holds, Executes
<1>10. JoinedAll' BY DEF JoinedAll
<1> QED
  BY <1>1, <1>2, <1>3, <1>4, <1>5, <1>6, <1>7, <1>8, <1>9, <1>10

LEMMA GiveBackKeepsCustody ==
  ASSUME TypeOK, TypeOK', Custody, NEW w \in Workers,
         GiveBack(w)
  PROVE  Custody'
<1> USE ConstantsAssumption DEF GiveBack, Goto, TypeOK, Custody
<1> USE DEF HandPC, UserPC, PushPC, ExecPC, TailPC
<1>1. NoDuplicate' BY DEF NoDuplicate, Holds
<1>2. NoLeak' BY DEF NoLeak, Holds
<1>3. ExclusiveRun' BY DEF ExclusiveRun, Executes
<1>4. Hands' BY DEF Hands
<1>5. Handshake' BY DEF Handshake, Executes
<1>6. BackStatus' BY DEF BackStatus
<1>7. HasTask' BY DEF HasTask
<1>8. FreeIsIdle' BY DEF FreeIsIdle, Free
<1>9. UncreatedIsNowhere' BY DEF UncreatedIsNowhere, Holds, Executes
<1>10. JoinedAll' BY DEF JoinedAll
<1> QED
  BY <1>1, <1>2, <1>3, <1>4, <1>5, <1>6, <1>7, <1>8, <1>9, <1>10

LEMMA BindKeepsCustody ==
  ASSUME TypeOK, TypeOK', Custody, NEW w \in Workers,
         Bind(w)
  PROVE  Custody'
<1> USE ConstantsAssumption DEF Bind, Goto, ResetAndAwait, TypeOK, Custody
<1> USE DEF HandPC, UserPC, PushPC, ExecPC, TailPC
<1>1. NoDuplicate' BY DEF NoDuplicate, Holds
<1>2. NoLeak' BY DEF NoLeak, Holds
<1>3. ExclusiveRun' BY DEF ExclusiveRun, Executes
<1>4. Hands' BY DEF Hands
<1>5. Handshake' BY DEF Handshake, Executes
<1>6. BackStatus' BY DEF BackStatus, Hands, FreeIsIdle, Free
<1>7. HasTask' BY DEF HasTask
<1>8. FreeIsIdle' BY DEF FreeIsIdle, Free
<1>9. UncreatedIsNowhere' BY DEF UncreatedIsNowhere, Holds, Executes
<1>10. JoinedAll' BY DEF JoinedAll
<1> QED
  BY <1>1, <1>2, <1>3, <1>4, <1>5, <1>6, <1>7, <1>8, <1>9, <1>10

LEMMA CheckKeepsCustody ==
  ASSUME TypeOK, TypeOK', Custody, NEW w \in Workers,
         Check(w)
  PROVE  Custody'
<1> USE ConstantsAssumption DEF Check, Goto, TypeOK, Custody
<1> USE DEF HandPC, UserPC, PushPC, ExecPC, TailPC
<1>1. NoDuplicate' BY DEF NoDuplicate, Holds
<1>2. NoLeak' BY DEF NoLeak, Holds
<1>3. ExclusiveRun' BY DEF ExclusiveRun, Executes
<1>4. Hands' BY DEF Hands
<1>5. Handshake' BY DEF Handshake, Executes
<1>6. BackStatus' BY DEF BackStatus
<1>7. HasTask' BY DEF HasTask
<1>8. FreeIsIdle' BY DEF FreeIsIdle, Free
<1>9. UncreatedIsNowhere' BY DEF UncreatedIsNowhere, Holds, Executes
<1>10. JoinedAll' BY DEF JoinedAll
<1> QED
  BY <1>1, <1>2, <1>3, <1>4, <1>5, <1>6, <1>7, <1>8, <1>9, <1>10

LEMMA RequeueKeepsCustody ==
  ASSUME TypeOK, TypeOK', Custody, NEW w \in Workers,
         Requeue(w)
  PROVE  Custody'
<1> USE ConstantsAssumption DEF Requeue, Goto, TypeOK, Custody
<1> USE DEF HandPC, UserPC, PushPC, ExecPC, TailPC
<1>1. NoDuplicate' BY DEF NoDuplicate, Holds
<1>2. NoLeak' BY DEF NoLeak, Holds
<1>3. ExclusiveRun' BY DEF ExclusiveRun, Executes
<1>4. Hands' BY DEF Hands
<1>5. Handshake' BY DEF Handshake, Executes
<1>6. BackStatus' BY DEF BackStatus
<1>7. HasTask' BY DEF HasTask
<1>8. FreeIsIdle' BY DEF FreeIsIdle, Free
<1>9. UncreatedIsNowhere' BY DEF UncreatedIsNowhere, Holds, Executes
<1>10. JoinedAll' BY DEF JoinedAll
<1> QED
  BY <1>1, <1>2, <1>3, <1>4, <1>5, <1>6, <1>7, <1>8, <1>9, <1>10

LEMMA DispatchKeepsCustody ==
  ASSUME TypeOK, TypeOK', Custody, NEW w \in Workers,
         Dispatch(w)
  PROVE  Custody'
<1> USE ConstantsAssumption DEF Dispatch, Goto, TypeOK, Custody
<1> USE DEF HandPC, UserPC, PushPC, ExecPC, TailPC
<1>1. NoDuplicate' BY DEF NoDuplicate, Holds
<1>2. NoLeak' BY DEF NoLeak, Holds, Hands
<1>3. ExclusiveRun' BY DEF ExclusiveRun, Executes, Hands, Handshake
<1>4. Hands' BY DEF Hands
<1>5. Handshake' BY DEF Handshake, Executes, NoDuplicate, Holds
<1>6. BackStatus' BY DEF BackStatus, Hands, Handshake, Executes
<1>7. HasTask' BY DEF HasTask
<1>8. FreeIsIdle' BY DEF FreeIsIdle, Free, NoDuplicate, Holds
<1>9. UncreatedIsNowhere' BY DEF UncreatedIsNowhere, Holds, Executes
<1>10. JoinedAll' BY DEF JoinedAll
<1> QED
  BY <1>1, <1>2, <1>3, <1>4, <1>5, <1>6, <1>7, <1>8, <1>9, <1>10

LEMMA BackEndedKeepsCustody ==
  ASSUME TypeOK, TypeOK', Custody, NEW w \in Workers,
         BackEnded(w)
  PROVE  Custody'
<1> USE ConstantsAssumption DEF BackEnded, Goto, TypeOK, Custody
<1> USE DEF HandPC, UserPC, PushPC, ExecPC, TailPC
<1>1. NoDuplicate' BY DEF NoDuplicate, Holds, Hands, BackStatus
<1>2. NoLeak' BY DEF NoLeak, Holds
<1>3. ExclusiveRun' BY DEF ExclusiveRun, Executes
<1>4. Hands' BY DEF Hands, BackStatus
<1>5. Handshake' BY DEF Handshake, Executes
<1>6. BackStatus' BY DEF BackStatus
<1>7. HasTask' BY DEF HasTask
<1>8. FreeIsIdle' BY DEF FreeIsIdle, Free
<1>9. UncreatedIsNowhere' BY DEF UncreatedIsNowhere, Holds, Executes
<1>10. JoinedAll' BY DEF JoinedAll
<1> QED
  BY <1>1, <1>2, <1>3, <1>4, <1>5, <1>6, <1>7, <1>8, <1>9, <1>10

LEMMA RebindKeepsCustody ==
  ASSUME TypeOK, TypeOK', Custody, NEW w \in Workers,
         Rebind(w)
  PROVE  Custody'
<1> USE ConstantsAssumption DEF Rebind, Goto, ResetAndAwait, TypeOK, Custody
<1> USE DEF HandPC, UserPC, PushPC, ExecPC, TailPC
<1>1. NoDuplicate' BY DEF NoDuplicate, Holds
<1>2. NoLeak' BY DEF NoLeak, Holds
<1>3. ExclusiveRun' BY DEF ExclusiveRun, Executes
<1>4. Hands' BY DEF Hands
<1>5. Handshake' BY DEF Handshake, Executes
<1>6. BackStatus' BY DEF BackStatus, Hands, ExclusiveRun, Executes
<1>7. HasTask' BY DEF HasTask
<1>8. FreeIsIdle' BY DEF FreeIsIdle, Free
<1>9. UncreatedIsNowhere' BY DEF UncreatedIsNowhere, Holds, Executes
<1>10. JoinedAll' BY DEF JoinedAll
<1> QED
  BY <1>1, <1>2, <1>3, <1>4, <1>5, <1>6, <1>7, <1>8, <1>9, <1>10

LEMMA ShelveKeepsCustody ==
  ASSUME TypeOK, TypeOK', Custody, NEW w \in Workers,
         Shelve(w)
  PROVE  Custody'
<1> USE ConstantsAssumption DEF Shelve, Goto, TypeOK, Custody
<1> USE DEF HandPC, UserPC, PushPC, ExecPC, TailPC
<1>1. NoDuplicate' BY DEF NoDuplicate, Holds
<1>2. NoLeak' BY DEF NoLeak, Holds
<1>3. ExclusiveRun' BY DEF ExclusiveRun, Executes
<1>4. Hands' BY DEF Hands
<1>5. Handshake' BY DEF Handshake, Executes
<1>6. BackStatus' BY DEF BackStatus
<1>7. HasTask' BY DEF HasTask
<1>8. FreeIsIdle' BY DEF FreeIsIdle, Free, Hands, ExclusiveRun, Executes
<1>9. UncreatedIsNowhere' BY DEF UncreatedIsNowhere, Holds, Executes
<1>10. JoinedAll' BY DEF JoinedAll
<1> QED
  BY <1>1, <1>2, <1>3, <1>4, <1>5, <1>6, <1>7, <1>8, <1>9, <1>10

LEMMA BackYieldedKeepsCustody ==
  ASSUME TypeOK, TypeOK', Custody, NEW w \in Workers,
         BackYielded(w)
  PROVE  Custody'
<1> USE ConstantsAssumption DEF BackYielded, Goto, TypeOK, Custody
<1> USE DEF HandPC, UserPC, PushPC, ExecPC, TailPC
<1>1. NoDuplicate' BY DEF NoDuplicate, Holds, Hands, BackStatus
<1>2. NoLeak' BY DEF NoLeak, Holds
<1>3. ExclusiveRun' BY DEF ExclusiveRun, Executes
<1>4. Hands' BY DEF Hands, BackStatus
<1>5. Handshake' BY DEF Handshake, Executes
<1>6. BackStatus' BY DEF BackStatus
<1>7. HasTask' BY DEF HasTask
<1>8. FreeIsIdle' BY DEF FreeIsIdle, Free
<1>9. UncreatedIsNowhere' BY DEF UncreatedIsNowhere, Holds, Executes
<1>10. JoinedAll' BY DEF JoinedAll
<1> QED
  BY <1>1, <1>2, <1>3, <1>4, <1>5, <1>6, <1>7, <1>8, <1>9, <1>10

LEMMA BackBlockedKeepsCustody ==
  ASSUME TypeOK, TypeOK', Custody, NEW w \in Workers,
         BackBlocked(w)
  PROVE  Custody'
<1> USE ConstantsAssumption DEF BackBlocked, Goto, TypeOK, Custody
<1> USE DEF HandPC, UserPC, PushPC, ExecPC, TailPC
<1>1. NoDuplicate' BY DEF NoDuplicate, Holds
<1>2. NoLeak' BY DEF NoLeak, Holds, Hands, BackStatus
<1>3. ExclusiveRun' BY DEF ExclusiveRun, Executes
<1>4. Hands' BY DEF Hands
<1>5. Handshake' BY DEF Handshake, Executes
<1>6. BackStatus' BY DEF BackStatus
<1>7. HasTask' BY DEF HasTask
<1>8. FreeIsIdle' BY DEF FreeIsIdle, Free
<1>9. UncreatedIsNowhere' BY DEF UncreatedIsNowhere, Holds, Executes
<1>10. JoinedAll' BY DEF JoinedAll
<1> QED
  BY <1>1, <1>2, <1>3, <1>4, <1>5, <1>6, <1>7, <1>8, <1>9, <1>10

LEMMA ReleaseKeepsCustody ==
  ASSUME TypeOK, TypeOK', Custody, NEW w \in Workers,
         Release(w)
  PROVE  Custody'
<1> USE ConstantsAssumption DEF Release, Goto, TypeOK, Custody
<1> USE DEF HandPC, UserPC, PushPC, ExecPC, TailPC
<1>1. NoDuplicate' BY DEF NoDuplicate, Holds
<1>2. NoLeak' BY DEF NoLeak, Holds
<1>3. ExclusiveRun' BY DEF ExclusiveRun, Executes
<1>4. Hands' BY DEF Hands
<1>5. Handshake' BY DEF Handshake, Executes, Hands, ExclusiveRun
<1>6. BackStatus' BY DEF BackStatus
<1>7. HasTask' BY DEF HasTask
<1>8. FreeIsIdle' BY DEF FreeIsIdle, Free
<1>9. UncreatedIsNowhere' BY DEF UncreatedIsNowhere, Holds, Executes
<1>10. JoinedAll' BY DEF JoinedAll
<1> QED
  BY <1>1, <1>2, <1>3, <1>4, <1>5, <1>6, <1>7, <1>8, <1>9, <1>10

LEMMA LifecycleKeepsCustody ==
  ASSUME TypeOK, TypeOK', Custody, Lifecycle
  PROVE  Custody'
<1>1. ASSUME NEW w \in Workers, SpawnWorker(w) PROVE Custody'
  <2>1. \A u \in Threads : pc'[u] \in PushPC \cup {"bind", "rebind"} => task'[u] \in Tasks
    BY <1>1 DEF SpawnWorker, Goto, TypeOK, Custody, HasTask, PushPC
  <2> QED
    BY <1>1, <2>1, Quiet DEF SpawnWorker, Goto, Zones, IdlePC
<1>2. ASSUME NEW w \in Workers, Arrive(w) PROVE Custody'
  <2>1. \A u \in Threads : pc'[u] \in PushPC \cup {"bind", "rebind"} => task'[u] \in Tasks
    BY <1>2 DEF Arrive, Goto, TypeOK, Custody, HasTask, PushPC
  <2> QED
    BY <1>2, <2>1, Quiet DEF Arrive, Goto, Zones, IdlePC
<1>3. ASSUME NEW w \in Workers, Pass(w) PROVE Custody'
  <2>1. \A u \in Threads : pc'[u] \in PushPC \cup {"bind", "rebind"} => task'[u] \in Tasks
    BY <1>3 DEF Pass, Goto, TypeOK, Custody, HasTask, PushPC
  <2> QED
    BY <1>3, <2>1, Quiet DEF Pass, Goto, Zones, IdlePC
<1> QED
  BY <1>1, <1>2, <1>3, StartKeepsCustody, SpawnedKeepsCustody, JoinKeepsCustody,
     DestroyKeepsCustody DEF Lifecycle

LEMMA UserCallKeepsCustody ==
  ASSUME TypeOK, TypeOK', Custody, NEW t \in Threads, UserCall(t)
  PROVE  Custody'
<1>1. CASE End(t)
  BY <1>1, StutterKeepsCustody DEF End
<1>2. ASSUME NEW k \in Tasks, PushFindsNoFiber(t, k) PROVE Custody'
  <2>1. \A u \in Threads : pc'[u] \in PushPC \cup {"bind", "rebind"} => task'[u] \in Tasks
    BY <1>2 DEF PushFindsNoFiber, Goto, TypeOK, Custody, HasTask, PushPC
  <2> QED
    BY <1>2, <2>1, Quiet DEF PushFindsNoFiber, Goto, Zones, IdlePC
<1> QED
  BY <1>1, <1>2, PushTakesFiberKeepsCustody, TakeWaiterKeepsCustody DEF UserCall

LEMMA InCallKeepsCustody ==
  ASSUME TypeOK, TypeOK', Custody, NEW t \in Threads, InCall(t)
  PROVE  Custody'
<1>1. CASE GrowLoad(t)
  <2>1. \A u \in Threads : pc'[u] \in PushPC \cup {"bind", "rebind"} => task'[u] \in Tasks
    BY <1>1 DEF GrowLoad, Goto, TypeOK, Custody, HasTask, PushPC
  <2> QED
    BY <1>1, <2>1, Quiet DEF GrowLoad, Goto, Zones, IdlePC
<1>2. CASE GrowCap(t)
  <2>1. \A u \in Threads : pc'[u] \in PushPC \cup {"bind", "rebind"} => task'[u] \in Tasks
    BY <1>2 DEF GrowCap, Goto, TypeOK, Custody, HasTask, PushPC
  <2> QED
    BY <1>2, <2>1, Quiet DEF GrowCap, Goto, Zones, IdlePC
<1>3. CASE PushTask(t)
  <2>1. \A u \in Threads : pc'[u] \in PushPC \cup {"bind", "rebind"} => task'[u] \in Tasks
    BY <1>3 DEF PushTask, Goto, TypeOK, Custody, HasTask, PushPC
  <2> QED
    BY <1>3, <2>1, Quiet DEF PushTask, Goto, Zones, IdlePC
<1>4. CASE UnblockCount(t)
  <2>1. \A u \in Threads : pc'[u] \in PushPC \cup {"bind", "rebind"} => task'[u] \in Tasks
    BY <1>4 DEF UnblockCount, Goto, TypeOK, Custody, HasTask, PushPC
  <2> QED
    BY <1>4, <2>1, Quiet DEF UnblockCount, Goto, Zones, IdlePC
<1> QED
  BY <1>1, <1>2, <1>3, <1>4, GrowStoreKeepsCustody, PushFiberKeepsCustody,
     UnblockEnqueueKeepsCustody DEF InCall

LEMMA LeaveKeepsCustody ==
  ASSUME TypeOK, TypeOK', Custody, NEW w \in Workers, Publish(w) \/ Leave(w) \/ Poll(w)
  PROVE  Custody'
<1>1. CASE PollEmpty(w)
  <2>1. \A u \in Threads : pc'[u] \in PushPC \cup {"bind", "rebind"} => task'[u] \in Tasks
    BY <1>1 DEF PollEmpty, Goto, TypeOK, Custody, HasTask, PushPC
  <2> QED
    BY <1>1, <2>1, Quiet DEF PollEmpty, Goto, Zones, IdlePC
<1> QED
  BY <1>1, PublishKeepsCustody, BlockKeepsCustody, YieldKeepsCustody,
     FinishKeepsCustody, PollTakeKeepsCustody DEF Leave, Poll

LEMMA DispatcherKeepsCustody ==
  ASSUME TypeOK, TypeOK', Custody, NEW w \in Workers, Dispatcher(w)
  PROVE  Custody'
<1>1. CASE Cold(w)
  <2>1. \A u \in Threads : pc'[u] \in PushPC \cup {"bind", "rebind"} => task'[u] \in Tasks
    BY <1>1 DEF Cold, Goto, TypeOK, Custody, HasTask, PushPC
  <2> QED
    BY <1>1, <2>1, Quiet DEF Cold, Goto, Zones, IdlePC
<1>2. CASE ExitCheck(w)
  <2>1. \A u \in Threads : pc'[u] \in PushPC \cup {"bind", "rebind"} => task'[u] \in Tasks
    BY <1>2 DEF ExitCheck, Goto, TypeOK, Custody, HasTask, PushPC
  <2> QED
    BY <1>2, <2>1, Quiet DEF ExitCheck, Goto, Zones, IdlePC
<1>3. CASE GetNoFiber(w)
  <2>1. \A u \in Threads : pc'[u] \in PushPC \cup {"bind", "rebind"} => task'[u] \in Tasks
    BY <1>3 DEF GetNoFiber, Goto, TypeOK, Custody, HasTask, PushPC
  <2> QED
    BY <1>3, <2>1, Quiet DEF GetNoFiber, Goto, Zones, IdlePC
<1>4. CASE LoadBlocked(w)
  <2>1. \A u \in Threads : pc'[u] \in PushPC \cup {"bind", "rebind"} => task'[u] \in Tasks
    BY <1>4 DEF LoadBlocked, Goto, TypeOK, Custody, HasTask, PushPC
  <2> QED
    BY <1>4, <2>1, Quiet DEF LoadBlocked, Goto, Zones, IdlePC
<1>5. CASE Compare(w) \/ SpawnLoad(w)
  <2>1. \A u \in Threads : pc'[u] \in PushPC \cup {"bind", "rebind"} => task'[u] \in Tasks
    BY <1>5 DEF Compare, SpawnLoad, Goto, TypeOK, Custody, HasTask, PushPC
  <2> QED
    BY <1>5, <2>1, Quiet DEF Compare, SpawnLoad, Goto, Zones, IdlePC
<1>6. ASSUME NEW k \in Tasks, GetTask(w, k) PROVE Custody'
  <2>1. \A u \in Threads : pc'[u] \in PushPC \cup {"bind", "rebind"} => task'[u] \in Tasks
    BY <1>6 DEF GetTask, Goto, TypeOK, Custody, HasTask, PushPC
  <2> QED
    BY <1>6, <2>1, Quiet DEF GetTask, Goto, Zones, IdlePC
<1>7. CASE GetNoTask(w)
  <2>1. \A u \in Threads : pc'[u] \in PushPC \cup {"bind", "rebind"} => task'[u] \in Tasks
    BY <1>7 DEF GetNoTask, Goto, TypeOK, Custody, HasTask, PushPC
  <2> QED
    BY <1>7, <2>1, Quiet DEF GetNoTask, Goto, Zones, IdlePC
<1> QED
  BY <1>1, <1>2, <1>3, <1>4, <1>5, <1>6, <1>7, SpawnStoreKeepsCustody,
     GetFiberKeepsCustody, GiveBackKeepsCustody, BindKeepsCustody, CheckKeepsCustody,
     RequeueKeepsCustody, DispatchKeepsCustody, BackEndedKeepsCustody,
     RebindKeepsCustody, ShelveKeepsCustody, BackYieldedKeepsCustody,
     BackBlockedKeepsCustody, ReleaseKeepsCustody DEF Dispatcher

LEMMA NextCustody == TypeOK /\ TypeOK' /\ Custody /\ [Next]_vars => Custody'
<1> SUFFICES ASSUME TypeOK, TypeOK', Custody, [Next]_vars PROVE Custody'
  OBVIOUS
<1>1. CASE UNCHANGED vars
  BY <1>1, StutterKeepsCustody DEF vars
<1> QED
  BY <1>1, LifecycleKeepsCustody, UserCallKeepsCustody, InCallKeepsCustody,
     LeaveKeepsCustody, DispatcherKeepsCustody
     DEF Next, Gone

LEMMA Inductive == Spec => [](TypeOK /\ Custody)
<1>1. Init => TypeOK /\ Custody
  BY InitTypeOK, InitCustody
<1>2. (TypeOK /\ Custody) /\ [Next]_vars => (TypeOK /\ Custody)'
  BY NextTypeOK, NextCustody
<1> QED
  BY <1>1, <1>2, PTL DEF Spec

-----------------------------------------------------------------------------
(* Leaving.  When the main thread is a worker, whatever is enqueued is     *)
(* enqueued by a worker that will look at the queues again: one that is    *)
(* on its way out has found the queue empty that it looked at last, and    *)
(* what has come into it since has come from another.                      *)

LeftPC == {"exitcheck", "exited", "joined", "gone"}

Drained ==
  Main \in Workers =>
    /\ (\E f \in Fibers : awaiting[f] > 0)
         => \E w \in Workers : pc[w] \notin LeftPC \cup {"cold"}
    /\ tasks # {} => \E w \in Workers : pc[w] \notin LeftPC

\* A fiber is only marked as executing while a thread has it.
ExecutingIsExecuted ==
  \A f \in Fibers : exec[f] = "executing" => \E t \in Threads : Executes(t, f)

Leaving == Drained /\ ExecutingIsExecuted /\ LeakOnlyBlocked

LEMMA InitLeaving == Init => Leaving
BY DEF Init, Leaving, Drained, ExecutingIsExecuted, LeakOnlyBlocked

\* Once the pool is gone no thread does anything.
LEMMA NothingAfterGone ==
  ASSUME TypeOK, Custody, Main \in Workers, pc[Main] = "gone", [Next]_vars
  PROVE  UNCHANGED vars
<1>1. \A t \in Threads : pc[t] \in {"exited", "gone"}
  BY DEF Custody, JoinedAll
<1>2. ~Lifecycle
  BY <1>1 DEF Lifecycle, Start, Spawned, Join, Destroy, SpawnWorker, Arrive, Pass, Goto
<1>3. \A t \in Threads : ~UserCall(t) /\ ~InCall(t)
  BY <1>1 DEF UserCall, End, PushFindsNoFiber, PushTakesFiber, TakeWaiter, InCall, GrowLoad,
     GrowStore, GrowCap, PushFiber, PushTask, UnblockCount, UnblockEnqueue, Goto
<1>4. \A w \in Workers : ~Publish(w) /\ ~Leave(w) /\ ~Poll(w)
  BY <1>1 DEF Publish, Leave, Block, Yield, Finish, Poll, PollEmpty, PollTake, Goto
<1>5. \A w \in Workers : ~Dispatcher(w)
  BY <1>1 DEF Dispatcher, Cold, ExitCheck, GetNoFiber, LoadBlocked, Compare, SpawnLoad,
     SpawnStore, GetFiber, GetTask, GetNoTask, GiveBack, Bind, Check, Requeue, Dispatch, BackEnded, Rebind,
     Shelve, BackYielded, BackBlocked, Release, Goto
<1> QED
  BY <1>2, <1>3, <1>4, <1>5 DEF Next, Gone

\* A thread that is still at work when it has done its step will see what it has enqueued.
LEMMA AtWorkDrains ==
  ASSUME TypeOK, Main \in Workers, NEW t \in Threads,
         NEW to \in PCs, pc' = [pc EXCEPT ![t] = to], to \notin LeftPC \cup {"cold"}
  PROVE  Drained'
<1>1. pc'[t] = to /\ t \in Workers
  BY DEF TypeOK
<1> QED
  BY <1>1 DEF Drained

LEMMA NextDrained ==
  ASSUME TypeOK, TypeOK', Custody, Drained, [Next]_vars
  PROVE  Drained'
<1> SUFFICES ASSUME Main \in Workers PROVE Drained'
  BY DEF Drained
<1> USE DEF Goto, LeftPC
<1>1. ASSUME UNCHANGED <<pc, awaiting, tasks>> PROVE Drained'
  BY <1>1 DEF Drained
<1>2. CASE Lifecycle
  <2>1. CASE Join
    BY <2>1 DEF Join, Drained, TypeOK
  <2>2. CASE Destroy
    BY <2>2 DEF Destroy, Drained, TypeOK
  <2>3. CASE Start
    BY <2>3, AtWorkDrains, PointsArePCs DEF Start, MainPC
  <2>4. CASE Spawned
    BY <2>4, AtWorkDrains, PointsArePCs DEF Spawned, IdlePC
  <2>5. ASSUME NEW w \in Workers, SpawnWorker(w) \/ Arrive(w) \/ Pass(w) PROVE Drained'
    BY <2>5, AtWorkDrains, PointsArePCs DEF SpawnWorker, Arrive, Pass, IdlePC
  <2> QED
    BY <1>2, <2>1, <2>2, <2>3, <2>4, <2>5 DEF Lifecycle
<1>3. ASSUME NEW t \in Threads, UserCall(t) PROVE Drained'
  BY <1>3, <1>1, AtWorkDrains, PointsArePCs
     DEF UserCall, End, PushFindsNoFiber, PushTakesFiber, TakeWaiter, PushPC
<1>4. ASSUME NEW t \in Threads, InCall(t) PROVE Drained'
  BY <1>4, AtWorkDrains, PointsArePCs
     DEF InCall, GrowLoad, GrowStore, GrowCap, PushFiber, PushTask, UnblockCount,
         UnblockEnqueue, PushPC
<1>5. ASSUME NEW w \in Workers, Publish(w) \/ Leave(w) PROVE Drained'
  BY <1>5, <1>1, AtWorkDrains, PointsArePCs DEF Publish, Leave, Block, Yield, Finish
<1>6. ASSUME NEW w \in Workers, Poll(w) PROVE Drained'
  <2>1. CASE PollEmpty(w)
    BY <2>1 DEF PollEmpty, Drained, TypeOK
  <2>2. ASSUME NEW f \in Fibers, PollTake(w, f) PROVE Drained'
    BY <2>2, AtWorkDrains, PointsArePCs DEF PollTake
  <2> QED
    BY <1>6, <2>1, <2>2 DEF Poll
<1>7. ASSUME NEW w \in Workers, Dispatcher(w) PROVE Drained'
  <2>1. CASE Cold(w)
    BY <2>1 DEF Cold, Drained, TypeOK
  <2>2. CASE ExitCheck(w)
    BY <2>2 DEF ExitCheck, Drained, TypeOK
  <2>3. CASE GetNoFiber(w) \/ LoadBlocked(w) \/ Compare(w)
              \/ SpawnLoad(w) \/ SpawnStore(w) \/ \E f \in Fibers : GetFiber(w, f)
    BY <2>3, AtWorkDrains, PointsArePCs
       DEF GetNoFiber, LoadBlocked, Compare, SpawnLoad, SpawnStore, GetFiber,
           IdlePC
  <2>4. CASE (\E k \in Tasks : GetTask(w, k)) \/ GetNoTask(w) \/ GiveBack(w) \/ Bind(w)
              \/ Check(w) \/ Requeue(w) \/ Dispatch(w)
    BY <2>4, AtWorkDrains, PointsArePCs
       DEF GetTask, GetNoTask, GiveBack, Bind, Check, Requeue, Dispatch, IdlePC
  <2>5. CASE BackEnded(w) \/ Rebind(w) \/ Shelve(w) \/ BackYielded(w) \/ BackBlocked(w)
              \/ Release(w)
    BY <2>5, AtWorkDrains, PointsArePCs
       DEF BackEnded, Rebind, Shelve, BackYielded, BackBlocked, Release, IdlePC
  <2> QED
    BY <1>7, <2>1, <2>2, <2>3, <2>4, <2>5 DEF Dispatcher
<1>8. CASE UNCHANGED vars
  BY <1>8, <1>1 DEF vars
<1> QED
  BY <1>2, <1>3, <1>4, <1>5, <1>6, <1>7, <1>8 DEF Next, Gone

\* A thread that has resumed a fiber keeps it, on its stack, until it releases it.
LEMMA StillExecutes ==
  ASSUME TypeOK, ExecutingIsExecuted, exec' = exec,
         NEW t \in Threads, NEW to, pc' = [pc EXCEPT ![t] = to],
         NEW g, fib' = [fib EXCEPT ![t] = g],
         pc[t] \in ExecPC /\ fib[t] # NoFiber => to \in ExecPC /\ g = fib[t]
  PROVE  ExecutingIsExecuted'
<1> SUFFICES ASSUME NEW f \in Fibers, exec[f] = "executing"
             PROVE  \E u \in Threads : Executes(u, f)'
  BY DEF ExecutingIsExecuted
<1>1. PICK u \in Threads : fib[u] = f /\ pc[u] \in ExecPC
  BY DEF ExecutingIsExecuted, Executes
<1>2. f # NoFiber
  BY ConstantsAssumption
<1>3. fib'[u] = f /\ pc'[u] \in ExecPC
  BY <1>1, <1>2 DEF TypeOK
<1> QED
  BY <1>3 DEF Executes

\* The same for a step that leaves every thread the fiber it has.
LEMMA SameFiberExecutes ==
  ASSUME TypeOK, ExecutingIsExecuted, exec' = exec, fib' = fib,
         NEW t \in Threads, NEW to, pc' = [pc EXCEPT ![t] = to],
         pc[t] \in ExecPC /\ fib[t] # NoFiber => to \in ExecPC
  PROVE  ExecutingIsExecuted'
<1>1. fib' = [fib EXCEPT ![t] = fib[t]]
  BY DEF TypeOK
<1> QED
  BY <1>1, StillExecutes

LEMMA NextExecuting ==
  ASSUME TypeOK, TypeOK', Custody, ExecutingIsExecuted, [Next]_vars
  PROVE  ExecutingIsExecuted'
<1> USE DEF Goto, ExecPC, UserPC, TailPC, PushPC
<1>1. ASSUME UNCHANGED <<pc, fib, exec>> PROVE ExecutingIsExecuted'
  BY <1>1 DEF ExecutingIsExecuted, Executes
<1>2. CASE Lifecycle
  <2>1. CASE Start
    BY <2>1, SameFiberExecutes DEF Start
  <2>2. CASE Spawned \/ Destroy
    BY <2>2, SameFiberExecutes DEF Spawned, Destroy
  <2>3. CASE Join
    <3>1. fib[Main] = NoFiber
      BY <2>3, ConstantsAssumption DEF Join, Custody, Hands, HandPC, TypeOK
    <3> QED
      BY <2>3, <3>1, SameFiberExecutes DEF Join
  <2>4. ASSUME NEW w \in Workers, SpawnWorker(w) \/ Arrive(w) \/ Pass(w)
        PROVE  ExecutingIsExecuted'
    BY <2>4, SameFiberExecutes DEF SpawnWorker, Arrive, Pass
  <2> QED
    BY <1>2, <2>1, <2>2, <2>3, <2>4 DEF Lifecycle
<1>3. ASSUME NEW t \in Threads, UserCall(t) PROVE ExecutingIsExecuted'
  BY <1>3, <1>1, SameFiberExecutes
     DEF UserCall, End, PushFindsNoFiber, PushTakesFiber, TakeWaiter
<1>4. ASSUME NEW t \in Threads, InCall(t) PROVE ExecutingIsExecuted'
  BY <1>4, SameFiberExecutes
     DEF InCall, GrowLoad, GrowStore, GrowCap, PushFiber, PushTask, UnblockCount,
         UnblockEnqueue, ResetAndAwait
<1>5. ASSUME NEW w \in Workers, Publish(w) \/ Leave(w) PROVE ExecutingIsExecuted'
  BY <1>5, <1>1, SameFiberExecutes DEF Publish, Leave, Block, Yield, Finish
<1>6. ASSUME NEW w \in Workers, Poll(w) PROVE ExecutingIsExecuted'
  BY <1>6, SameFiberExecutes, StillExecutes DEF Poll, PollEmpty, PollTake
<1>7. ASSUME NEW w \in Workers, Dispatcher(w) PROVE ExecutingIsExecuted'
  <2>1. CASE Cold(w) \/ ExitCheck(w) \/ GetNoFiber(w) \/ LoadBlocked(w) \/ Compare(w)
              \/ SpawnLoad(w) \/ GetNoTask(w) \/ Check(w) \/ \E k \in Tasks : GetTask(w, k)
    BY <2>1, SameFiberExecutes
       DEF Cold, ExitCheck, GetNoFiber, LoadBlocked, Compare, SpawnLoad, GetNoTask, Check,
           GetTask
  <2>2. CASE SpawnStore(w) \/ GiveBack(w) \/ Bind(w) \/ Requeue(w)
              \/ \E f \in Fibers : GetFiber(w, f)
    BY <2>2, StillExecutes DEF SpawnStore, GiveBack, Bind, Requeue, GetFiber, ResetAndAwait
  <2>3. CASE BackEnded(w) \/ Rebind(w) \/ Shelve(w) \/ BackYielded(w) \/ BackBlocked(w)
    BY <2>3, SameFiberExecutes
       DEF BackEnded, Rebind, Shelve, BackYielded, BackBlocked, ResetAndAwait
  <2>4. CASE Dispatch(w)
    BY <2>4 DEF Dispatch, ExecutingIsExecuted, Executes, TypeOK
  <2>5. CASE Release(w)
    BY <2>5 DEF Release, ExecutingIsExecuted, Executes, TypeOK
  <2> QED
    BY <1>7, <2>1, <2>2, <2>3, <2>4, <2>5 DEF Dispatcher
<1>8. CASE UNCHANGED vars
  BY <1>8, <1>1 DEF vars
<1> QED
  BY <1>2, <1>3, <1>4, <1>5, <1>6, <1>7, <1>8 DEF Next, Gone

\* What the destructor finds: no thread has a fiber, and no fiber is enqueued.
LEMMA DestroyLeavesBlocked ==
  ASSUME TypeOK, Custody, Drained, ExecutingIsExecuted, Main \in Workers, Destroy
  PROVE  LeakOnlyBlocked'
<1>1. \A t \in Threads : pc[t] \in {"exited", "joined"}
  BY DEF Destroy, Goto, Custody, JoinedAll
<1>2. \A t \in Threads, f \in Fibers : ~Holds(t, f) /\ ~Executes(t, f)
  BY <1>1 DEF Holds, Executes, HandPC, ExecPC, UserPC, TailPC, PushPC
<1>3. \A f \in Fibers : awaiting[f] = 0
  BY <1>1 DEF Drained, LeftPC, TypeOK
<1>4. \A f \in created : fibers[f] = 0 => f \in waiting
  BY <1>2, <1>3 DEF Custody, NoLeak, TypeOK
<1>5. \A f \in Fibers : exec[f] = "ready"
  BY <1>2 DEF ExecutingIsExecuted, TypeOK
<1> QED
  BY <1>4, <1>5 DEF Destroy, LeakOnlyBlocked

\* Only the destructor makes the pool go.
LEMMA OnlyDestroyGoes ==
  ASSUME TypeOK, Main \in Workers, [Next]_vars, pc[Main] # "gone", pc'[Main] = "gone"
  PROVE  Destroy
<1> USE DEF Goto, TypeOK
<1>1. pc' # pc
  OBVIOUS
<1>2. CASE Lifecycle
  BY <1>2 DEF Lifecycle, Start, Spawned, Join, SpawnWorker, Arrive, Pass
<1>3. \A t \in Threads : ~UserCall(t) /\ ~InCall(t)
  BY <1>1 DEF UserCall, End, PushFindsNoFiber, PushTakesFiber, TakeWaiter, InCall, GrowLoad,
     GrowStore, GrowCap, PushFiber, PushTask, UnblockCount, UnblockEnqueue
<1>4. \A w \in Workers : ~Publish(w) /\ ~Leave(w) /\ ~Poll(w)
  BY <1>1 DEF Publish, Leave, Block, Yield, Finish, Poll, PollEmpty, PollTake
<1>5. \A w \in Workers : ~Dispatcher(w)
  BY <1>1 DEF Dispatcher, Cold, ExitCheck, GetNoFiber, LoadBlocked, Compare, SpawnLoad,
     SpawnStore, GetFiber, GetTask, GetNoTask, GiveBack, Bind, Check, Requeue, Dispatch, BackEnded, Rebind,
     Shelve, BackYielded, BackBlocked, Release
<1> QED
  BY <1>1, <1>2, <1>3, <1>4, <1>5 DEF Next, Gone, vars

LEMMA NextLeakOnlyBlocked ==
  ASSUME TypeOK, Custody, Leaving, [Next]_vars
  PROVE  LeakOnlyBlocked'
<1> SUFFICES ASSUME Main \in Workers, pc'[Main] = "gone" PROVE LeakOnlyBlocked'
  BY DEF LeakOnlyBlocked
<1>1. CASE pc[Main] = "gone"
  BY <1>1, NothingAfterGone DEF Leaving, LeakOnlyBlocked, vars
<1>2. CASE pc[Main] # "gone"
  BY <1>2, OnlyDestroyGoes, DestroyLeavesBlocked DEF Leaving
<1> QED
  BY <1>1, <1>2

LEMMA LeavingInductive == Spec => [](TypeOK /\ Custody /\ Leaving)
<1>1. Init => Leaving
  BY InitLeaving
<1>2. TypeOK /\ Custody /\ TypeOK' /\ Leaving /\ [Next]_vars => Leaving'
  BY NextDrained, NextExecuting, NextLeakOnlyBlocked DEF Leaving
<1> QED
  BY <1>1, <1>2, Inductive, PTL DEF Spec

-----------------------------------------------------------------------------
(* The theorems *)

\* Every variable of the pool keeps its type; in particular a count of a queue never
\* goes below zero and only tasks that were pushed are run to their end.
THEOREM TypeCorrect == Spec => []TypeOK
<1> QED
  BY Inductive, PTL

\* The inductive invariant: every fiber that exists is in one queue, in one waiting
\* list or in the hands of one thread, and a thread's hands match its program point.
THEOREM CustodyInvariant == Spec => []Custody
<1> QED
  BY Inductive, PTL

\* No two threads run one fiber or stand on its stack, in whatever order a fiber is
\* published, woken, dequeued, switched out and released.
THEOREM FibersRunExclusively == Spec => []ExclusiveRun
<1>1. Custody => ExclusiveRun
  BY DEF Custody
<1> QED
  BY <1>1, CustodyInvariant, PTL

\* A fiber is never in two queues, nor twice in one.
THEOREM FibersAreNotDuplicated == Spec => []NoDuplicate
<1>1. Custody => NoDuplicate
  BY DEF Custody
<1> QED
  BY <1>1, CustodyInvariant, PTL

\* The dispatcher always finds a status it knows ("Fiber ended with unexpected
\* status", fiber_pool.hpp:561), and no fiber is resumed without a task.
THEOREM DispatcherKnowsStatus == Spec => []StatusKnown
<1>1. TypeOK /\ Custody => StatusKnown
  BY ConstantsAssumption
     DEF Custody, TypeOK, StatusKnown, BackStatus, HasTask, Hands, UserPC, PushPC, HandPC
<1> QED
  BY <1>1, Inductive, PTL

\* The pool never drops a fiber it has created.
THEOREM FibersAreNotLeaked == Spec => []NoLeak
<1>1. Custody => NoLeak
  BY DEF Custody
<1> QED
  BY <1>1, CustodyInvariant, PTL

\* When the main thread works too, the workers leave no runnable fiber and no queued
\* task behind, though each decides to go on three values it reads one by one.
THEOREM ExitLeavesNothing == Spec => []ExitDrains
<1>1. TypeOK /\ Leaving => ExitDrains
  BY DEF TypeOK, Leaving, Drained, LeftPC, ExitDrains, AllExited
<1> QED
  BY <1>1, LeavingInductive, PTL

\* ~fiber_pool frees every fiber but those that are blocked for good, and none of them
\* while a thread stands on its stack.
THEOREM OnlyBlockedFibersLeak == Spec => []LeakOnlyBlocked
<1>1. Leaving => LeakOnlyBlocked
  BY DEF Leaving
<1> QED
  BY <1>1, LeavingInductive, PTL
=============================================================================
