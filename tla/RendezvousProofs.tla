-------------------------- MODULE RendezvousProofs --------------------------
(***************************************************************************)
(* Proofs about Rendezvous and its three parts, the one way barrier, the   *)
(* barrier and the spinlock, for any number of tasks and of rounds.        *)
(***************************************************************************)
EXTENDS Rendezvous, FiniteSetTheorems, TLAPS

-----------------------------------------------------------------------------
(* The one way barrier *)

TypeOK ==
  /\ size \in Nat /\ fiber \in BOOLEAN
  /\ pc \in [Tasks -> {"new", "work", "look", "unblock", "ended"}]
  /\ waiter \in {"body", "block", "returned"} /\ round \in Nat /\ unblocked \in Nat

Left == {k \in Tasks : pc[k] \in {"new", "work"}}
Last(k) == pc[k] \in {"look", "unblock"}

\* _size counts the tasks that have not decreased it, and the last of them is the only
\* one that goes on to the waiter.
Inv ==
  /\ TypeOK
  /\ size = Cardinality(Left)
  /\ fiber <=> waiter \in {"block", "returned"}
  /\ \A k \in Tasks : pc[k] = "unblock" => fiber
  /\ \A k \in Tasks : Last(k) => Left = {} /\ unblocked = 0 /\ waiter # "returned"
  /\ \A k, l \in Tasks : Last(k) /\ Last(l) => k = l
  /\ unblocked > 0 \/ waiter = "returned" => Left = {}
  /\ unblocked <= 1 /\ (unblocked > 0 => waiter = "block")

-----------------------------------------------------------------------------
LEMMA LeftIsFinite == Left \subseteq Tasks /\ IsFiniteSet(Left)
BY ConstantsAssumption, FS_Subset DEF Left, ConstantsAssumption

LEMMA InitInv == ASSUME Init PROVE Inv
<1>1. Left = Tasks /\ \A k \in Tasks : ~Last(k)
  BY DEF Init, Left, Last
<1>2. Cardinality(Tasks) \in Nat
  BY ConstantsAssumption, FS_CardinalityType DEF ConstantsAssumption
<1>3. \A k \in Tasks : pc[k] = "new"
  BY DEF Init
<1>4. TypeOK
  BY <1>2 DEF Init, TypeOK
<1>5. unblocked = 0 /\ waiter = "body" /\ ~fiber /\ size = Cardinality(Left)
  BY <1>1 DEF Init
<1> QED BY <1>1, <1>3, <1>4, <1>5 DEF Inv

LEMMA DecreaseInv ==
  ASSUME Inv, NEW k \in Tasks, Decrease(k)
  PROVE  Inv'
<1> USE DEF Inv, Decrease, Goto
<1>1. k \in Left /\ Left' = Left \ {k}
  BY DEF TypeOK, Left
<1>2. size - 1 \in Nat /\ size' = Cardinality(Left')
  <2>1. Cardinality(Left \ {k}) = Cardinality(Left) - 1 /\ Cardinality(Left \ {k}) \in Nat
    <3>1. IsFiniteSet(Left) /\ IsFiniteSet(Left \ {k})
      BY LeftIsFinite, FS_RemoveElement
    <3> QED BY <1>1, <3>1, FS_RemoveElement, FS_CardinalityType
  <2> QED BY <1>1, <2>1 DEF TypeOK
<1>3. size - 1 = 0 => Left' = {}
  <2>1. IsFiniteSet(Left')
    BY <1>1, LeftIsFinite, FS_RemoveElement
  <2> QED BY <1>2, <2>1, FS_EmptySet
<1>4. TypeOK'
  BY <1>2 DEF TypeOK
<1>5. \A j \in Tasks : ~Last(j)
  BY <1>1
<1>6. \A j \in Tasks : Last(j)' => j = k /\ size - 1 = 0
  BY <1>5 DEF TypeOK, Last
<1>7. pc'[k] # "unblock" /\ unblocked = 0 /\ waiter # "returned"
  BY <1>1 DEF TypeOK
<1>8. \A j \in Tasks : pc'[j] # "unblock"
  BY <1>5, <1>7 DEF TypeOK, Last
<1> QED BY <1>2, <1>3, <1>4, <1>6, <1>7, <1>8

\* The steps that leave the tasks that are left alone.
LEMMA StepInv ==
  ASSUME Inv, [Next]_vars
  PROVE  Inv'
<1> USE DEF Inv
<1>1. ASSUME NEW k \in Tasks, Push(k) PROVE Inv'
  <2>1. Left' = Left /\ \A j \in Tasks : Last(j)' <=> Last(j)
    BY <1>1 DEF Push, Goto, TypeOK, Left, Last
  <2>2. \A j \in Tasks : pc'[j] = "unblock" => pc[j] = "unblock"
    BY <1>1 DEF Push, Goto, TypeOK
  <2> QED BY <1>1, <2>1, <2>2 DEF Push, Goto, TypeOK
<1>2. CASE StoreFiber
  <2>1. Left' = Left /\ \A j \in Tasks : Last(j)' <=> Last(j)
    BY <1>2 DEF StoreFiber, Left, Last
  <2> QED BY <1>2, <2>1 DEF StoreFiber, WaiterGoto, TypeOK
<1>3. CASE Resume
  <2>1. Left' = Left /\ \A j \in Tasks : ~Last(j)'
    BY <1>3 DEF Resume, Left, Last, TypeOK
  <2> QED BY <1>3, <2>1 DEF Resume, WaiterGoto, TypeOK
<1>4. CASE Reset
  <2>1. \A j \in Tasks : pc[j] = "ended"
    BY <1>4 DEF Reset, WaiterGoto, TypeOK, Left, Last
  <2>2. Left' = Tasks /\ \A j \in Tasks : pc'[j] = "new"
    BY <1>4, <2>1 DEF Reset, Left
  <2>3. Cardinality(Tasks) \in Nat
    BY ConstantsAssumption, FS_CardinalityType DEF ConstantsAssumption
  <2>4. TypeOK'
    <3>1. pc' \in [Tasks -> {"new", "work", "look", "unblock", "ended"}]
      BY <1>4, <2>1 DEF Reset
    <3>2. round' \in Nat /\ size' \in Nat
      BY <1>4, <2>3 DEF Reset, TypeOK
    <3> QED BY <1>4, <3>1, <3>2 DEF Reset, WaiterGoto, TypeOK
  <2>5. \A j \in Tasks : ~Last(j)'
    BY <2>2 DEF Last
  <2> QED BY <1>4, <2>2, <2>4, <2>5 DEF Reset, WaiterGoto, TypeOK
<1>5. ASSUME NEW k \in Tasks, SeeWaiter(k) PROVE Inv'
  <2>1. Left' = Left /\ \A j \in Tasks : Last(j)' <=> Last(j)
    BY <1>5 DEF SeeWaiter, Goto, TypeOK, Left, Last
  <2>2. TypeOK'
    BY <1>5 DEF SeeWaiter, Goto, TypeOK
  <2> QED BY <1>5, <2>1, <2>2 DEF SeeWaiter
<1>6. ASSUME NEW k \in Tasks, Unblock(k) PROVE Inv'
  <2>1. Last(k) /\ waiter = "block"
    BY <1>6 DEF Unblock, Goto, Last, TypeOK
  <2>2. Left' = Left /\ \A j \in Tasks : ~Last(j)'
    BY <1>6, <2>1 DEF Unblock, Goto, TypeOK, Left, Last
  <2>3. \A j \in Tasks : pc'[j] # "unblock"
    BY <2>2 DEF Last
  <2> QED BY <1>6, <2>1, <2>2, <2>3 DEF Unblock, Goto, TypeOK
<1>7. CASE UNCHANGED vars
  BY <1>7 DEF vars, TypeOK, Left, Last
<1> QED
  BY <1>1, <1>2, <1>3, <1>4, <1>5, <1>6, <1>7, DecreaseInv
     DEF Next, WaiterStep, TaskStep, Finished

LEMMA Invariant == Spec => []Inv
BY InitInv, StepInv, PTL DEF Spec

\* When wait returns no task will touch the barrier again, in any round.
THEOREM BarrierIsLeftAlone == Spec => []ReturnsLast
<1>1. Inv => ReturnsLast
  BY DEF Inv, TypeOK, Left, Last, ReturnsLast
<1> QED BY <1>1, Invariant, PTL

\* The waiter is unblocked once in every round, while it waits.
THEOREM BarrierUnblocksOnce == Spec => []UnblockedOnce
<1>1. Inv => UnblockedOnce
  BY DEF Inv, Last, UnblockedOnce
<1> QED BY <1>1, Invariant, PTL

-----------------------------------------------------------------------------
(* The spinlock *)

\* The flag is set exactly while somebody has the lock.
LockInv ==
  /\ lock \in BOOLEAN
  /\ spc \in [Tasks -> {"idle", "exchange", "spin", "try", "locked"}]
  /\ \A p, q \in Tasks : spc[p] = "locked" /\ spc[q] = "locked" => p = q
  /\ lock <=> \E p \in Tasks : spc[p] = "locked"

\* The callers look at the result of lock.
Careful == ~IgnoreResult

\* The invariant is kept by every step, and no step but one that takes or gives back the
\* lock changes who has it.
LEMMA LockSteps ==
  ASSUME Careful, LockInv, [S!Next]_(S!vars)
  PROVE  LockInv' /\ [S!Contract!Next]_(S!Contract!vars)
<1> USE DEF LockInv, Careful
<1>1. ASSUME NEW p \in Tasks, spc[p] # "locked",
             NEW q \in {"idle", "exchange", "spin", "try"},
             spc' = [spc EXCEPT ![p] = q], UNCHANGED lock
      PROVE  LockInv' /\ S!Holders' = S!Holders
  BY <1>1 DEF S!Holders
<1>2. ASSUME NEW p \in Tasks, spc[p] # "locked", lock,
             NEW q \in {"idle", "spin"}, spc' = [spc EXCEPT ![p] = q], lock' = TRUE
      PROVE  LockInv' /\ S!Holders' = S!Holders
  BY <1>2 DEF S!Holders
<1>3. ASSUME NEW p \in Tasks, ~lock, spc' = [spc EXCEPT ![p] = "locked"], lock' = TRUE
      PROVE  LockInv' /\ S!Holders = {} /\ S!Holders' = {p}
  BY <1>3 DEF S!Holders
<1>4. ASSUME NEW p \in Tasks, S!Unlock(p)
      PROVE  LockInv' /\ S!Holders = {p} /\ S!Holders' = {}
  BY <1>4 DEF S!Unlock, S!Goto, S!Holders
<1>5. ASSUME NEW p \in Tasks,
             S!CallLock(p) \/ S!TryLoad(p) \/ S!SpinTimesOut(p) \/ S!SpinSeesFree(p)
      PROVE  LockInv' /\ S!Holders' = S!Holders
  <2>1. PICK q \in {"idle", "exchange", "spin", "try"} :
          spc' = [spc EXCEPT ![p] = q] /\ UNCHANGED lock /\ spc[p] # "locked"
    BY <1>5 DEF S!CallLock, S!TryLoad, S!SpinTimesOut, S!SpinSeesFree, S!Goto
  <2> QED BY <1>1, <2>1
<1>6. ASSUME NEW p \in Tasks, S!Exchange(p) \/ S!TryExchange(p)
      PROVE  LockInv' /\ (S!Holders' = S!Holders \/ (S!Holders = {} /\ S!Holders' = {p}))
  <2>1. CASE lock
    <3>1. PICK q \in {"idle", "spin"} :
            spc' = [spc EXCEPT ![p] = q] /\ lock' = TRUE /\ spc[p] # "locked"
      BY <1>6, <2>1 DEF S!Exchange, S!TryExchange, S!Goto
    <3> QED BY <1>2, <2>1, <3>1
  <2>2. CASE ~lock
    <3>1. spc' = [spc EXCEPT ![p] = "locked"] /\ lock' = TRUE
      BY <1>6, <2>2 DEF S!Exchange, S!TryExchange, S!Goto
    <3> QED BY <1>3, <2>2, <3>1
  <2> QED BY <2>1, <2>2
<1>7. CASE UNCHANGED S!vars
  <2>1. LockInv' /\ S!Holders' = S!Holders
    BY <1>7 DEF S!vars, S!Holders
  <2> QED BY <2>1 DEF S!Contract!vars
<1>8. ASSUME NEW p \in Tasks, S!Exchange(p) \/ S!TryExchange(p) \/ S!Unlock(p)
      PROVE  [S!Contract!Next]_(S!Contract!vars)
  <2>1. S!Contract!Acquire(p) \/ S!Contract!Release(p) \/ S!Holders' = S!Holders
    BY <1>4, <1>6, <1>8 DEF S!Contract!Acquire, S!Contract!Release
  <2> QED BY <2>1 DEF S!Contract!Next, S!Contract!vars
<1> QED BY <1>4, <1>5, <1>6, <1>7, <1>8 DEF S!Next, S!Step, S!Contract!vars

LEMMA LockInit == ASSUME S!Init PROVE LockInv /\ S!Contract!Init
BY DEF S!Init, LockInv, S!Contract!Init, S!Holders

\* While callers look at the result of lock, the assert of unlock holds (spinlock.hpp:72),
THEOREM UnlockIsSafe == ASSUME Careful PROVE S!Spec => []S!UnlockFindsLocked
<1>1. LockInv => S!UnlockFindsLocked
  BY DEF LockInv, S!UnlockFindsLocked, S!Holders
<1> QED BY <1>1, LockInit, LockSteps, PTL DEF S!Spec

\* and the spinlock is a lock: one owner at a time, with time-outs and try_lock.
THEOREM SpinLockImplementsLock == ASSUME Careful PROVE S!Spec => S!Implements
BY LockInit, LockSteps, PTL DEF S!Spec, S!Implements, S!Contract!Spec

-----------------------------------------------------------------------------
(* The barrier *)

Absent == {k \in Tasks : bpc[k] = "work"}
Opening(k) == bpc[k] \in {"look", "open"}
Opened == \E k \in Tasks : bpc[k] \in {"open", "passed"}

BarrierTypeOK ==
  /\ waiting \in 0 .. CountMax /\ list \subseteq Tasks /\ woken \subseteq Tasks
  /\ bpc \in [Tasks -> {"work", "look", "open", "enqueue", "block", "passed"}]

\* _waiting is one less than the tasks that are still to arrive, and wraps for the last
\* one; the last but one opens the barrier, alone, when all others have blocked.
BarrierInv ==
  /\ BarrierTypeOK
  /\ waiting = IF Absent = {} THEN CountMax ELSE Cardinality(Absent) - 1
  /\ \A k \in Tasks : bpc[k] = "block" <=> k \in list \cup woken
  /\ list \cap woken = {}
  /\ \A k, l \in Tasks : Opening(k) /\ Opening(l) => k = l
  /\ \A k \in Tasks : Opening(k) => Cardinality(Absent) <= 1
  /\ Opened => \A k \in Tasks : bpc[k] \in {"open", "block", "passed"}
  /\ woken # {} => Opened
  /\ Opened /\ list # {} => \E k \in Tasks : bpc[k] = "open"

\* A task that has decreased the one way barrier is through with the other two.
Through ==
  \A k \in Tasks : pc[k] \notin {"new", "work"} => bpc[k] = "passed" /\ spc[k] = "idle"

\* What it means that the tasks are where they are.
LEMMA AbsentIsFinite ==
  /\ Absent \subseteq Tasks /\ IsFiniteSet(Absent) /\ Cardinality(Absent) \in Nat
  /\ Cardinality(Absent) <= Size + 1 /\ CountMax \in Nat \ {0} /\ Size \in 0 .. CountMax
  /\ \A k \in Tasks : k \in Absent =>
       /\ Cardinality(Absent) >= 1
       /\ IsFiniteSet(Absent \ {k}) /\ Cardinality(Absent \ {k}) = Cardinality(Absent) - 1
<1>1. Absent \subseteq Tasks /\ IsFiniteSet(Tasks)
  BY ConstantsAssumption DEF Absent, ConstantsAssumption
<1>2. IsFiniteSet(Absent) /\ Cardinality(Absent) \in Nat
      /\ Cardinality(Absent) <= Cardinality(Tasks)
  BY <1>1, FS_Subset, FS_CardinalityType
<1>3. ASSUME NEW k \in Absent
      PROVE  /\ Cardinality(Absent) >= 1 /\ IsFiniteSet(Absent \ {k})
             /\ Cardinality(Absent \ {k}) = Cardinality(Absent) - 1
  <2>1. IsFiniteSet(Absent \ {k}) /\ Cardinality(Absent \ {k}) = Cardinality(Absent) - 1
    BY <1>2, FS_RemoveElement
  <2>2. Cardinality(Absent) # 0
    BY <1>2, FS_EmptySet
  <2> QED
    BY <1>2, <2>1, <2>2
<1> QED
  BY <1>1, <1>2, <1>3, RendezvousAssumption

LEMMA MinusIs ==
  /\ B!Minus(0) = CountMax
  /\ \A n \in 1 .. CountMax : B!Minus(n) = n - 1
<1> DEFINE m == CountMax + 1
<1>1. CountMax \in Nat /\ m \in Nat \ {0}
  BY AbsentIsFinite
<1>2. ASSUME NEW n \in 0 .. m - 1 PROVE n % m = n /\ (n + m) % m = n
  BY <1>1, <1>2
<1>3. ASSUME NEW n \in 1 .. CountMax PROVE n + CountMax = (n - 1) + m /\ n - 1 \in 0 .. m - 1
  BY <1>1, <1>3
<1>4. 0 + CountMax = CountMax /\ CountMax \in 0 .. m - 1
  BY <1>1
<1> HIDE DEF m
<1>5. CountMax % m = CountMax
  BY <1>2, <1>4
<1>6. \A n \in 1 .. CountMax : (n + CountMax) % m = n - 1
  BY <1>2, <1>3
<1> QED
  BY <1>4, <1>5, <1>6 DEF B!Minus, m

\* The tasks at the barrier start over together.
LEMMA AllAbsent ==
  ASSUME \A k \in Tasks : bpc'[k] = "work", bpc' \in [Tasks -> {"work"}],
         waiting' = Size, list' = {}, woken' = {}
  PROVE  BarrierInv'
<1>1. Absent' = Tasks /\ Tasks # {} /\ Size = Cardinality(Tasks) - 1
  BY ConstantsAssumption, RendezvousAssumption, AbsentIsFinite, FS_CardinalityType
     DEF Absent, ConstantsAssumption
<1>2. BarrierTypeOK'
  BY AbsentIsFinite DEF BarrierTypeOK
<1>3. ~Opened' /\ \A k \in Tasks : ~Opening(k)'
  BY DEF Opened, Opening
<1> QED
  BY <1>1, <1>2, <1>3 DEF BarrierInv

LEMMA InitBarrier == ASSUME B!Init PROVE BarrierInv
<1>1. Absent = Tasks /\ Tasks # {} /\ Size = Cardinality(Tasks) - 1
  BY ConstantsAssumption, RendezvousAssumption, AbsentIsFinite, FS_CardinalityType
     DEF B!Init, Absent, ConstantsAssumption
<1>2. BarrierTypeOK
  BY AbsentIsFinite DEF BarrierTypeOK, B!Init
<1>3. ~Opened /\ \A k \in Tasks : ~Opening(k)
  BY DEF Opened, Opening, B!Init
<1> QED
  BY <1>1, <1>2, <1>3 DEF BarrierInv, B!Init

LEMMA ArriveInv ==
  ASSUME BarrierInv, NEW k \in Tasks, B!Arrive(k)
  PROVE  BarrierInv'
<1> USE DEF BarrierInv, B!Arrive, B!Goto
<1> DEFINE n == Cardinality(Absent)
<1>1. k \in Absent /\ Absent' = Absent \ {k} /\ k \notin list \cup woken
  BY DEF Absent, BarrierTypeOK
<1>2. n \in Nat /\ n >= 1 /\ n - 1 <= CountMax /\ Cardinality(Absent') = n - 1 /\ waiting = n - 1
      /\ (Absent' = {} <=> n = 1)
  <2>1. IsFiniteSet(Absent') /\ Cardinality(Absent') = n - 1
    BY <1>1, AbsentIsFinite
  <2>2. Absent' = {} <=> n - 1 = 0
    BY <2>1, FS_EmptySet
  <2> QED
    BY <1>1, <2>1, <2>2, AbsentIsFinite
<1> HIDE DEF n
<1>3. /\ waiting' = IF n = 1 THEN CountMax ELSE n - 2
      /\ B!Minus(waiting) = 0 <=> n = 2
      /\ waiting' \in 0 .. CountMax
  <2>1. CASE n = 1
    BY <1>2, <2>1, MinusIs, AbsentIsFinite
  <2>2. CASE n # 1
    <3>1. n - 1 \in 1 .. CountMax
      BY <1>2, <2>2
    <3>2. B!Minus(waiting) = n - 2
      BY <1>2, <3>1, MinusIs
    <3> QED
      BY <1>2, <2>2, <3>1, <3>2
  <2> QED
    BY <2>1, <2>2
<1>4. bpc' = [bpc EXCEPT ![k] = IF n = 2 THEN "look" ELSE "enqueue"] /\ UNCHANGED <<list, woken>>
  BY <1>3
<1>5. BarrierTypeOK'
  BY <1>3, <1>4 DEF BarrierTypeOK
<1>6. waiting' = IF Absent' = {} THEN CountMax ELSE Cardinality(Absent') - 1
  BY <1>2, <1>3
<1>7. ~Opened /\ woken = {} /\ ~Opened'
  BY <1>1, <1>4 DEF Opened, Absent, BarrierTypeOK
<1>8. \A l \in Tasks : Opening(l)' =>
        (Opening(l) /\ n <= 1) \/ (l = k /\ n = 2)
  BY <1>1, <1>4 DEF Opening, Absent, BarrierTypeOK, n
<1>9. /\ \A j, l \in Tasks : Opening(j)' /\ Opening(l)' => j = l
      /\ \A l \in Tasks : Opening(l)' => Cardinality(Absent') <= 1
  BY <1>2, <1>8
<1>10. \A l \in Tasks : bpc'[l] = "block" <=> l \in list \cup woken
  BY <1>1, <1>4 DEF BarrierTypeOK
<1> QED
  BY <1>4, <1>5, <1>6, <1>7, <1>9, <1>10

\* Cardinality is the same in Barrier, which has it from FiniteSets, too.
LEMMA SameCardinality == \A x : B!Cardinality(x) = Cardinality(x)
BY DEF B!Cardinality, Cardinality

LEMMA OthersAre ==
  \A k \in Tasks : IsFiniteSet(Tasks \ {k}) /\ Cardinality(Tasks \ {k}) = Size
<1> TAKE k \in Tasks
<1>1. IsFiniteSet(Tasks) /\ Cardinality(Tasks) = Size + 1 /\ Size \in Nat
  BY ConstantsAssumption, RendezvousAssumption, AbsentIsFinite DEF ConstantsAssumption
<1>2. IsFiniteSet(Tasks \ {k}) /\ Cardinality(Tasks \ {k}) = Cardinality(Tasks) - 1
  BY <1>1, FS_RemoveElement
<1> QED
  BY <1>1, <1>2

LEMMA BarrierSteps ==
  ASSUME BarrierInv, NEW k \in Tasks, B!Step(k)
  PROVE  BarrierInv'
<1> USE DEF BarrierInv, B!Goto
<1>1. CASE B!SeeAll(k)
  <2> USE <1>1 DEF B!SeeAll
  <2>1. list = Tasks \ {k}
    <3>1. list \subseteq Tasks \ {k}
      BY DEF BarrierTypeOK
    <3>2. Cardinality(list) = Size
      BY SameCardinality
    <3> QED
      BY <3>1, <3>2, OthersAre, FS_Subset
  <2>2. Absent' = Absent /\ \A l \in Tasks : Opening(l)' <=> Opening(l)
    BY DEF Absent, Opening, BarrierTypeOK
  <2>3. bpc'[k] = "open" /\ \A l \in Tasks : l # k => bpc'[l] = "block" /\ bpc[l] = "block"
    BY <2>1 DEF BarrierTypeOK
  <2>4. BarrierTypeOK' /\ \A l \in Tasks : bpc'[l] \in {"open", "block", "passed"}
    BY <2>3 DEF BarrierTypeOK
  <2>5. \A l \in Tasks : bpc'[l] = "block" <=> l \in list \cup woken
    BY <2>3 DEF BarrierTypeOK
  <2>6. Opened'
    BY <2>3 DEF Opened
  <2> QED
    BY <2>2, <2>3, <2>4, <2>5, <2>6
<1>2. CASE B!Open(k)
  <2>1. bpc[k] = "open" /\ Opened /\ UNCHANGED waiting
    BY <1>2 DEF B!Open, Opened
  <2>2. ASSUME NEW g \in list, list' = list \ {g}, woken' = woken \cup {g}, UNCHANGED bpc
        PROVE  BarrierInv'
    <3>1. Absent' = Absent /\ (Opened' <=> Opened) /\ \A l \in Tasks : Opening(l)' <=> Opening(l)
      BY <2>2 DEF Absent, Opened, Opening
    <3>2. BarrierTypeOK'
      BY <2>1, <2>2 DEF BarrierTypeOK
    <3> QED
      BY <2>1, <2>2, <3>1, <3>2
  <2>3. ASSUME list = {}, bpc' = [bpc EXCEPT ![k] = "passed"], UNCHANGED <<list, woken>>
        PROVE  BarrierInv'
    <3>1. Absent' = Absent /\ Opened'
      BY <2>1, <2>3 DEF Absent, Opened, BarrierTypeOK
    <3>2. \A l \in Tasks : Opening(l)' => Opening(l)
      BY <2>3 DEF Opening, BarrierTypeOK
    <3>3. BarrierTypeOK' /\ \A l \in Tasks : bpc'[l] \in {"open", "block", "passed"}
      BY <2>1, <2>3 DEF BarrierTypeOK
    <3>4. \A l \in Tasks : bpc'[l] = "block" <=> bpc[l] = "block"
      BY <2>1, <2>3 DEF BarrierTypeOK
    <3> QED
      BY <2>1, <2>3, <3>1, <3>2, <3>3, <3>4
  <2> QED
    BY <1>2, <2>2, <2>3 DEF B!Open
<1>3. CASE B!Enqueue(k)
  <2> USE <1>3 DEF B!Enqueue
  <2>1. Absent' = Absent /\ ~Opened /\ ~Opened' /\ k \notin woken /\ woken = {}
    BY DEF Absent, Opened, BarrierTypeOK
  <2>2. \A l \in Tasks : Opening(l)' <=> Opening(l)
    BY DEF Opening, BarrierTypeOK
  <2>3. BarrierTypeOK' /\ \A l \in Tasks : bpc'[l] = "block" <=> l \in list' \cup woken
    BY DEF BarrierTypeOK
  <2> QED
    BY <2>1, <2>2, <2>3
<1>4. CASE B!Resume(k)
  <2> USE <1>4 DEF B!Resume
  <2>1. Opened /\ Opened' /\ Absent' = Absent
    BY DEF Absent, Opened, BarrierTypeOK
  <2>2. \A l \in Tasks : (Opening(l)' <=> Opening(l)) /\ (bpc'[l] = "open" <=> bpc[l] = "open")
    BY DEF Opening, BarrierTypeOK
  <2>3. BarrierTypeOK' /\ \A l \in Tasks : bpc'[l] \in {"open", "block", "passed"}
    BY <2>1 DEF BarrierTypeOK
  <2>4. \A l \in Tasks : bpc'[l] = "block" <=> l \in list \cup woken'
    BY DEF BarrierTypeOK
  <2> QED
    BY <2>1, <2>2, <2>3, <2>4
<1> QED
  BY <1>1, <1>2, <1>3, <1>4, ArriveInv DEF B!Step

\* reset finds the barrier as it was, but for the tasks.
LEMMA ResetInv ==
  ASSUME BarrierInv, B!Reset
  PROVE  BarrierInv'
<1>1. list = {} /\ woken = {}
  BY DEF BarrierInv, BarrierTypeOK, B!Reset
<1> QED
  BY <1>1, AllAbsent DEF B!Reset

-----------------------------------------------------------------------------
(* The program *)

LEMMA ProgramInvariant == ProgramSpec => []BarrierInv
<1>1. ProgramInit => BarrierInv
  BY InitBarrier DEF ProgramInit
<1>2. BarrierInv /\ [ProgramNext]_program => BarrierInv'
  <2> SUFFICES ASSUME BarrierInv, [ProgramNext]_program PROVE BarrierInv'
    OBVIOUS
  <2>1. CASE UNCHANGED barrier
    BY <2>1 DEF barrier, BarrierInv, BarrierTypeOK, Absent, Opened, Opening
  <2>2. ASSUME NEW k \in Tasks, Meet(k) PROVE BarrierInv'
    BY <2>2, BarrierSteps DEF Meet
  <2>3. CASE B!Reset
    BY <2>3, ResetInv
  <2>4. ASSUME NEW k \in Tasks, Ask(k) \/ Lock(k) \/ GoOn(k) PROVE UNCHANGED barrier
    BY <2>4 DEF Ask, Lock, GoOn
  <2> QED
    BY <2>1, <2>2, <2>3, <2>4 DEF ProgramNext, ProgramFinished, StarterStep, program
<1> QED
  BY <1>1, <1>2, PTL DEF ProgramSpec

\* Nobody passes the barrier before everybody has arrived (barrier.cpp:22-48), in any
\* round.
THEOREM BarrierPassesTogether == ProgramSpec => []PassTogether
<1>1. BarrierInv => PassTogether
  <2> SUFFICES ASSUME BarrierInv, NEW f \in Tasks, bpc[f] = "passed", NEW g \in Tasks
               PROVE  bpc[g] # "work"
    BY DEF PassTogether, B!PassTogether
  <2>1. Opened
    BY DEF Opened
  <2> QED
    BY <2>1 DEF BarrierInv
<1> QED
  BY <1>1, ProgramInvariant, PTL

\* Everybody who blocks at the barrier is woken, and reset finds nobody in the list: its
\* assertion holds (barrier.cpp:16).
THEOREM BarrierStrandsNobody == ProgramSpec => []NobodyStranded
<1>1. BarrierInv => NobodyStranded
  <2> SUFFICES ASSUME BarrierInv PROVE NobodyStranded
    OBVIOUS
  <2>1. ASSUME NEW f \in Tasks, bpc[f] = "open", NEW g \in Tasks PROVE bpc[g] # "enqueue"
    <3>1. Opened
      BY <2>1 DEF Opened
    <3> QED
      BY <3>1 DEF BarrierInv
  <2>2. (\A f \in Tasks : bpc[f] = "passed") => list = {} /\ woken = {}
    BY DEF BarrierInv, BarrierTypeOK
  <2>3. \A f \in Tasks : bpc[f] = "block" => f \in list \cup woken
    BY DEF BarrierInv
  <2> QED
    BY <2>1, <2>2, <2>3 DEF NobodyStranded, B!NobodyStranded
<1> QED
  BY <1>1, ProgramInvariant, PTL

\* The one way barrier does not notice the others.
LEMMA OneWayInProgram == ProgramSpec => Spec
<1>1. ProgramInit => Init
  BY DEF ProgramInit
<1>2. [ProgramNext]_program => [Next]_vars
  <2>1. ASSUME NEW k \in Tasks, GoOn(k) \/ Push(k) PROVE Next
    BY <2>1 DEF GoOn, Next
  <2>2. ASSUME StarterStep PROVE Next
    BY <2>1, <2>2 DEF StarterStep, Next
  <2>3. ASSUME NEW k \in Tasks, Meet(k) \/ Ask(k) \/ Lock(k) PROVE UNCHANGED vars
    BY <2>3 DEF Meet, Ask, Lock
  <2> QED
    BY <2>1, <2>2, <2>3 DEF ProgramNext, ProgramFinished, program
<1> QED
  BY <1>1, <1>2, PTL DEF ProgramSpec, Spec

\* Neither does the spinlock.
LEMMA SpinLockInProgram == ProgramSpec => S!Spec
<1>1. ProgramInit => S!Init
  BY DEF ProgramInit
<1>2. [ProgramNext]_program => [S!Next]_(S!vars)
  <2>1. ASSUME NEW k \in Tasks, Ask(k) \/ Lock(k) PROVE S!Next
    BY <2>1 DEF Ask, Lock, S!Next
  <2>2. ASSUME StarterStep PROVE UNCHANGED S!vars
    BY <2>2 DEF StarterStep, spinlock, S!vars
  <2>3. ASSUME NEW k \in Tasks, Meet(k) \/ GoOn(k) PROVE UNCHANGED S!vars
    BY <2>3 DEF Meet, GoOn, spinlock, S!vars
  <2> QED
    BY <2>1, <2>2, <2>3 DEF ProgramNext, ProgramFinished, program, spinlock, S!vars
<1> QED
  BY <1>1, <1>2, PTL DEF ProgramSpec, S!Spec

\* When the starter's wait returns no task will use the one way barrier again, whatever
\* the tasks do with the other barrier and the lock first.
THEOREM StarterReturnsLast == ProgramSpec => []ReturnsLast
BY OneWayInProgram, BarrierIsLeftAlone, PTL

\* The tasks have the lock one at a time.
THEOREM LockInProgram == ASSUME Careful PROVE ProgramSpec => Implements
<1>1. Careful
  OBVIOUS
<1>2. S!Spec => S!Implements
  BY <1>1, SpinLockImplementsLock
<1> QED
  BY <1>2, SpinLockInProgram, PTL DEF Implements

\* When the wait has returned the starter may reset both barriers, and destroy them and
\* the spinlock (main.cpp:173-180): all tasks have passed the barrier and left the lock.
ResetFindsNobody ==
  waiter = "returned" =>
    /\ \A k \in Tasks : pc[k] = "ended" /\ bpc[k] = "passed" /\ spc[k] = "idle"
    /\ list = {} /\ woken = {}

LEMMA ThroughStep ==
  ASSUME Inv, BarrierInv, LockInv, Through, [ProgramNext]_program
  PROVE  Through'
<1> USE DEF Through
<1>1. ASSUME NEW k \in Tasks, Meet(k) PROVE Through'
  <2>1. pc[k] = "work" /\ pc' = pc /\ spc' = spc
    BY <1>1 DEF Meet, vars, spinlock
  <2>2. \A l \in Tasks : l # k => bpc'[l] = bpc[l]
    BY <1>1 DEF Meet, BarrierInv, BarrierTypeOK, B!Step, B!Arrive, B!SeeAll, B!Open,
              B!Enqueue, B!Resume, B!Goto
  <2> QED
    BY <2>1, <2>2
<1>2. ASSUME NEW k \in Tasks, Ask(k) PROVE Through'
  <2>1. pc[k] = "work" /\ pc' = pc /\ bpc' = bpc
    BY <1>2 DEF Ask, vars, barrier
  <2>2. \A l \in Tasks : l # k => spc'[l] = spc[l]
    BY <1>2 DEF Ask, LockInv, S!CallLock, S!TryLoad, S!SpinTimesOut, S!Goto
  <2> QED
    BY <2>1, <2>2
<1>3. ASSUME NEW k \in Tasks, Lock(k) PROVE Through'
  <2>1. spc[k] # "idle" /\ pc' = pc /\ bpc' = bpc
    BY <1>3 DEF Lock, vars, barrier, S!Step, S!Exchange, S!SpinSeesFree, S!TryExchange,
              S!Unlock, S!Goto
  <2>2. \A l \in Tasks : l # k => spc'[l] = spc[l]
    BY <1>3 DEF Lock, LockInv, S!Step, S!Exchange, S!SpinSeesFree, S!TryExchange,
              S!Unlock, S!Goto
  <2> QED
    BY <2>1, <2>2
<1>4. ASSUME NEW k \in Tasks, GoOn(k) PROVE Through'
  <2>1. bpc' = bpc /\ spc' = spc /\ pc[k] # "new"
        /\ (pc[k] = "work" => bpc[k] = "passed" /\ spc[k] = "idle")
    BY <1>4 DEF GoOn, barrier, spinlock, TaskStep, Decrease, SeeWaiter, Unblock, Goto
  <2>2. \A l \in Tasks : l # k => pc'[l] = pc[l]
    BY <1>4 DEF GoOn, TaskStep, Decrease, SeeWaiter, Unblock, Goto, Inv, TypeOK
  <2> QED
    BY <2>1, <2>2
<1>5. CASE StarterStep
  <2>1. ASSUME NEW k \in Tasks, Push(k), UNCHANGED <<barrier, spinlock>> PROVE Through'
    BY <2>1 DEF Push, Goto, barrier, spinlock, Inv, TypeOK
  <2>2. ASSUME WaiterStep, UNCHANGED <<barrier, spinlock>> PROVE Through'
    BY <2>2 DEF WaiterStep, StoreFiber, Resume, barrier, spinlock
  <2>3. ASSUME Reset PROVE Through'
    <3>1. \A k \in Tasks : pc[k] = "ended"
      BY <2>3 DEF Inv, TypeOK, Left, Last, Reset, WaiterGoto
    <3> QED
      BY <2>3, <3>1 DEF Reset
  <2> QED
    BY <1>5, <2>1, <2>2, <2>3 DEF StarterStep
<1>6. CASE UNCHANGED program
  BY <1>6 DEF program, vars, barrier, spinlock
<1> QED
  BY <1>1, <1>2, <1>3, <1>4, <1>5, <1>6 DEF ProgramNext, ProgramFinished

\* Resetting the barriers when wait has returned is safe in this program.
THEOREM ResetIsAllowed == ASSUME Careful PROVE ProgramSpec => []ResetFindsNobody
<1>1. ProgramSpec => []Inv
  BY OneWayInProgram, Invariant, PTL
<1>2. ProgramSpec => []LockInv
  BY SpinLockInProgram, LockInit, LockSteps, PTL DEF S!Spec
<1>3. ProgramInit => Through
  BY DEF ProgramInit, Init, Through
<1>4. Inv /\ BarrierInv /\ LockInv /\ Through /\ [ProgramNext]_program => Through'
  BY ThroughStep
<1>5. Inv /\ BarrierInv /\ Through => ResetFindsNobody
  <2> SUFFICES ASSUME Inv, BarrierInv, Through, waiter = "returned"
               PROVE  /\ \A k \in Tasks : pc[k] = "ended" /\ bpc[k] = "passed" /\ spc[k] = "idle"
                      /\ list = {} /\ woken = {}
    BY DEF ResetFindsNobody
  <2>1. \A k \in Tasks : pc[k] = "ended"
    BY DEF Inv, TypeOK, Left, Last
  <2>2. \A k \in Tasks : bpc[k] = "passed" /\ spc[k] = "idle"
    BY <2>1 DEF Through
  <2> QED
    BY <2>1, <2>2 DEF BarrierInv, BarrierTypeOK
<1> QED
  BY <1>1, <1>2, <1>3, <1>4, <1>5, ProgramInvariant, PTL DEF ProgramSpec
=============================================================================
