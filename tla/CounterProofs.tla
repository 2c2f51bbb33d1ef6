---------------------------- MODULE CounterProofs ----------------------------
(***************************************************************************)
(* The properties of Counter for any number of tasks, of fibers and of     *)
(* rounds: what the two numbers of the counter count (Exact), that nothing *)
(* is counted before there is a waiter (Waited), and that the task that    *)
(* reads the size is the last one and unblocks once (Last).  All of this   *)
(* is about the tasks of one round: those of the rounds before, O, have    *)
(* ended, until the counter is reset while a task is still in done.        *)
(***************************************************************************)
EXTENDS Counter, FiniteSetTheorems, TLAPS

-----------------------------------------------------------------------------
(* The invariant *)

Pushed(O) == {k \in Tasks \ O : pc[k] # "new"}
Done(O) == {k \in Tasks \ O : Counted(k)}
AllDone == \A k \in Tasks : pc[k] = "new" \/ Counted(k)

\* The tasks of earlier rounds, of which there are none in the first.
Old(O) == (\A k \in O : pc[k] = "ended") /\ round >= 1

\* The two counters count, and no two tasks have read the same value of _done.
Exact(O) ==
  /\ size = Cardinality(Pushed(O)) /\ done = Cardinality(Done(O))
  /\ \A k \in Tasks \ O : Counted(k) => reg[k] \in 1 .. done
  /\ \A k, l \in Tasks \ O : Counted(k) /\ Counted(l) /\ reg[k] = reg[l] => k = l

\* Nothing is counted before there is a waiter.
Waited(O) ==
  /\ fiber => waiter \in {"block", "returned"}
  /\ \A k \in Tasks \ O : pc[k] = "count" \/ Counted(k) => fiber

\* The one task that has read _size is the last one, and it calls unblock once.
Last(O) ==
  /\ \A k \in Tasks : pc[k] = "unblock" => reg[k] = size /\ AllDone
  /\ unblocked > 0 \/ (waiter = "returned" /\ size # 0) =>
       AllDone /\ \E k \in Tasks \ O : pc[k] = "ended" /\ reg[k] = size
  /\ waiter = "returned" => AllDone
  /\ unblocked <= 1
  /\ unblocked > 0 => waiter = "block"

Inv(O) == TypeOK /\ Old(O) /\ Exact(O) /\ Waited(O) /\ Last(O)

-----------------------------------------------------------------------------
\* One more task in a set that is described by a predicate.
LEMMA OneMore ==
  ASSUME NEW S, NEW T, NEW k, IsFiniteSet(Tasks), S \subseteq Tasks,
         k \notin S, T = S \cup {k}
  PROVE  Cardinality(T) = Cardinality(S) + 1
BY FS_Subset, FS_AddElement

\* The value a task reads never exceeds _size, and if it is _size then all are done.
LEMMA LastIsLast ==
  ASSUME NEW O \in SUBSET Tasks, Inv(O)
  PROVE  /\ done \in Nat /\ size \in Nat /\ done <= size
         /\ done = size => AllDone
<1> USE ConstantsAssumption
<1>1. Done(O) \subseteq Pushed(O) /\ Pushed(O) \subseteq Tasks
  BY DEF Done, Pushed, Counted
<1>2. IsFiniteSet(Pushed(O))
  BY <1>1, FS_Subset DEF ConstantsAssumption
<1>3. Cardinality(Done(O)) <= Cardinality(Pushed(O))
      /\ (Cardinality(Done(O)) = Cardinality(Pushed(O)) => Done(O) = Pushed(O))
  BY <1>1, <1>2, FS_Subset
<1>4. Done(O) = Pushed(O) => AllDone
  BY DEF Done, Pushed, AllDone, Inv, Old, Counted
<1> QED BY <1>3, <1>4 DEF Inv, TypeOK, Exact

LEMMA InitInv == ASSUME Init PROVE Inv({})
<1>1. Pushed({}) = {} /\ Done({}) = {}
  BY DEF Init, Pushed, Done, Counted
<1>2. Cardinality({}) = 0
  BY FS_EmptySet
<1>3. TypeOK
  BY DEF Init, TypeOK
<1>4. \A k \in Tasks : pc[k] = "new" /\ ~Counted(k)
  BY DEF Init, Counted
<1>5. Exact({})
  BY <1>1, <1>2, <1>4 DEF Init, Exact
<1>7. Old({})
  BY DEF Init, Old
<1>6. Waited({}) /\ Last({})
  BY <1>4 DEF Init, Waited, Last
<1> QED BY <1>3, <1>5, <1>6, <1>7 DEF Inv

-----------------------------------------------------------------------------
(* One lemma for the steps that change neither counter, and one for each   *)
(* of the others.                                                          *)

\* A task is pushed, by the waiter or by a running task: then no task is last yet.
LEMMA PushInv ==
  ASSUME NEW O \in SUBSET Tasks, Inv(O), NEW k \in Tasks, pc[k] = "new", pc' = [pc EXCEPT ![k] = "queued"],
         size' = size + 1, UNCHANGED <<done, fiber, reg, waiter, round, unblocked, hasty>>,
         waiter = "body" \/ \E p \in Tasks : pc[p] = "run"
  PROVE  Inv(O)'
<1> USE ConstantsAssumption DEF Inv
<1>0. k \in Tasks \ O /\ Old(O)'
  BY DEF Old, TypeOK
<1>1. TypeOK'
  BY DEF TypeOK
<1>2. \A j \in Tasks : Counted(j)' <=> Counted(j)
  BY DEF TypeOK, Counted
<1>3. Pushed(O)' = Pushed(O) \cup {k} /\ k \notin Pushed(O) /\ Pushed(O) \subseteq Tasks
  BY <1>0 DEF TypeOK, Pushed
<1>4. Cardinality(Pushed(O)') = Cardinality(Pushed(O)) + 1
  BY <1>3, OneMore DEF ConstantsAssumption
<1>5. Done(O)' = Done(O)
  BY <1>2 DEF Done
<1>6. Exact(O)'
  BY <1>2, <1>4, <1>5 DEF Exact
<1>7. Waited(O)'
  BY <1>2 DEF Waited, TypeOK
<1>8. ~ (AllDone /\ \E j \in Tasks \ O : Counted(j))
  BY DEF AllDone, Counted, Waited
<1>9. \A j \in Tasks : pc[j] = "unblock" => j \in Tasks \ O /\ Counted(j)
  BY DEF Counted, Old
<1>10. (\A j \in Tasks : pc[j] # "unblock") /\ unblocked = 0 /\ waiter # "returned"
  BY <1>8, <1>9 DEF Last, TypeOK, AllDone, Counted
<1>11. \A j \in Tasks : pc'[j] # "unblock"
  BY <1>10 DEF TypeOK
<1>12. Last(O)'
  BY <1>10, <1>11 DEF Last
<1> QED BY <1>0, <1>1, <1>6, <1>7, <1>12

LEMMA IncrementInv ==
  ASSUME NEW O \in SUBSET Tasks, Inv(O), NEW k \in Tasks, Increment(k)
  PROVE  Inv(O)'
<1> USE ConstantsAssumption DEF Inv, Increment, Goto
<1>a. k \in Tasks \ O /\ Old(O)'
  BY DEF Old, TypeOK
<1>0. done \in Nat /\ done + 1 \in Nat
  BY DEF TypeOK
<1>1. TypeOK'
  BY <1>0 DEF TypeOK
<1>2. \A j \in Tasks : Counted(j)' <=> Counted(j) \/ j = k
  BY DEF TypeOK, Counted
<1>3. ~Counted(k)
  BY DEF Counted
<1>4. Done(O)' = Done(O) \cup {k} /\ k \notin Done(O) /\ Done(O) \subseteq Tasks
  BY <1>2, <1>3, <1>a DEF Done
<1>5. Cardinality(Done(O)') = Cardinality(Done(O)) + 1
  BY <1>4, OneMore DEF ConstantsAssumption
<1>6. Pushed(O)' = Pushed(O)
  BY DEF TypeOK, Pushed
<1>7. \A j \in Tasks : reg'[j] = IF j = k THEN done + 1 ELSE reg[j]
  BY DEF TypeOK
<1>8. \A j \in Tasks \ O : Counted(j)' => reg'[j] \in 1 .. done'
  BY <1>0, <1>2, <1>7 DEF Exact
<1>9. ASSUME NEW i \in Tasks \ O, NEW j \in Tasks \ O, Counted(i)', Counted(j)', reg'[i] = reg'[j]
      PROVE  i = j
  <2>1. CASE i # k /\ j # k
    BY <1>2, <1>7, <1>9, <2>1 DEF Exact
  <2>2. CASE i # k /\ j = k
    <3>1. reg[i] \in 1 .. done /\ reg[i] = done + 1
      BY <1>2, <1>7, <1>9, <2>2 DEF Exact
    <3> QED BY <1>0, <3>1
  <2>3. CASE i = k /\ j # k
    <3>1. reg[j] \in 1 .. done /\ reg[j] = done + 1
      BY <1>2, <1>7, <1>9, <2>3 DEF Exact
    <3> QED BY <1>0, <3>1
  <2> QED BY <2>1, <2>2, <2>3
<1>10. Exact(O)'
  BY <1>5, <1>6, <1>8, <1>9 DEF Exact
<1>11. Waited(O)'
  BY <1>2 DEF Waited, TypeOK
<1>12. ~AllDone
  BY <1>3 DEF AllDone
<1>13. (\A j \in Tasks : pc[j] # "unblock") /\ unblocked = 0 /\ waiter # "returned"
  BY <1>12 DEF Last, TypeOK
<1>14. \A j \in Tasks : pc'[j] # "unblock"
  BY <1>13 DEF TypeOK
<1>15. Last(O)'
  BY <1>13, <1>14 DEF Last
<1> QED BY <1>a, <1>1, <1>10, <1>11, <1>15

\* The steps of a counted task: who is counted, and what was read, stays.
LEMMA CountedStep ==
  ASSUME NEW O \in SUBSET Tasks, Inv(O), NEW k \in Tasks \ O, Counted(k), NEW q \in {"unblock", "ended"},
         pc' = [pc EXCEPT ![k] = q], UNCHANGED <<counter, reg, waiter, round, hasty>>
  PROVE  /\ \A j \in Tasks : Counted(j)' <=> Counted(j)
         /\ Old(O)' /\ Exact(O)' /\ Waited(O)' /\ (AllDone' <=> AllDone)
<1> USE DEF Inv
<1>1. \A j \in Tasks : Counted(j)' <=> Counted(j)
  BY DEF TypeOK, Counted
<1>2. \A j \in Tasks : pc'[j] = "new" <=> pc[j] = "new"
  BY DEF TypeOK, Counted
<1>3. Pushed(O)' = Pushed(O) /\ Done(O)' = Done(O)
  BY <1>1, <1>2 DEF Pushed, Done
<1>4. Exact(O)'
  BY <1>1, <1>3 DEF Exact, counter
<1>5. Waited(O)'
  BY <1>1 DEF Waited, counter, TypeOK
<1>6. AllDone' <=> AllDone
  BY <1>1, <1>2 DEF AllDone
<1>7. Old(O)'
  BY DEF Old, TypeOK
<1> QED BY <1>7, <1>1, <1>4, <1>5, <1>6

LEMMA CompareInv ==
  ASSUME NEW O \in SUBSET Tasks, Inv(O), NEW k \in Tasks, Compare(k)
  PROVE  Inv(O)'
<1> DEFINE q == IF reg[k] = size THEN "unblock" ELSE "ended"
<1> USE DEF Inv, Compare, Goto
<1>0. k \in Tasks \ O
  BY DEF Old
<1>1. Counted(k) /\ pc' = [pc EXCEPT ![k] = q] /\ q \in {"unblock", "ended"}
  BY DEF Counted
<1>2. Old(O)' /\ Exact(O)' /\ Waited(O)' /\ (AllDone' <=> AllDone)
  BY <1>0, <1>1, CountedStep
<1>3. TypeOK'
  BY DEF TypeOK, counter
<1>4. reg[k] = size => AllDone
  <2>1. reg[k] \in 1 .. done
    BY <1>0, <1>1 DEF Exact
  <2> QED BY <2>1, LastIsLast
<1>5. \A j \in Tasks : pc'[j] = "unblock" => reg'[j] = size' /\ AllDone'
  BY <1>2, <1>4 DEF Last, TypeOK, counter
<1>6. /\ unblocked' > 0 \/ (waiter' = "returned" /\ size' # 0) =>
           AllDone' /\ \E j \in Tasks \ O : pc'[j] = "ended" /\ reg'[j] = size'
      /\ waiter' = "returned" => AllDone'
  BY <1>2 DEF Last, TypeOK, counter
<1>7. Last(O)'
  BY <1>5, <1>6 DEF Last
<1> QED BY <1>2, <1>3, <1>7

LEMMA UnblockInv ==
  ASSUME NEW O \in SUBSET Tasks, Inv(O), NEW k \in Tasks, Unblock(k)
  PROVE  Inv(O)'
<1> USE DEF Inv, Unblock, Goto
<1>1. Counted(k) /\ k \in Tasks \ O
  BY DEF Counted, Old
<1>2. Old(O)' /\ Exact(O)' /\ Waited(O)' /\ (AllDone' <=> AllDone)
  BY <1>1, CountedStep
<1>3. TypeOK'
  BY DEF TypeOK, counter
<1>4. reg[k] = size /\ AllDone
  BY DEF Last
<1>5. \A j \in Tasks \ O : Counted(j) /\ reg[j] = size => j = k
  BY <1>1, <1>4 DEF Exact
<1>6. unblocked = 0 /\ waiter # "returned"
  <2>1. size # 0
    BY <1>1, <1>4 DEF Exact, TypeOK
  <2> QED BY <1>5, <2>1 DEF Last, Counted, TypeOK
<1>7. waiter = "block"
  BY <1>1, <1>6 DEF Waited
<1>8. pc'[k] = "ended" /\ reg'[k] = size'
  BY <1>4 DEF TypeOK, counter
<1>9. \A j \in Tasks : pc'[j] = "unblock" => reg'[j] = size' /\ AllDone'
  BY <1>2 DEF Last, TypeOK, counter
<1>10. Last(O)'
  BY <1>1, <1>2, <1>4, <1>6, <1>7, <1>8, <1>9 DEF Last
<1> QED BY <1>2, <1>3, <1>10

\* Task k stays where it is, or moves on and is not counted yet.
QuietMove(k) ==
  \/ pc'[k] = pc[k]
  \/ /\ pc[k] \in {"queued", "run", "done"} /\ pc'[k] \in {"run", "done", "count"}
     /\ pc'[k] = "count" => fiber

\* Only such tasks, or only the waiter, move.
LEMMA QuietInv ==
  ASSUME NEW O \in SUBSET Tasks, Inv(O), UNCHANGED <<size, done, reg, round>>, TypeOK',
         \A k \in Tasks : QuietMove(k),
         fiber => fiber', fiber' => waiter' \in {"block", "returned"},
         \/ UNCHANGED unblocked /\ waiter' = waiter
         \/ UNCHANGED unblocked /\ ~fiber /\ waiter # "block" /\ (waiter' # "returned" \/ size = 0)
         \/ unblocked > 0 /\ unblocked' = unblocked - 1 /\ waiter' = "returned"
  PROVE  Inv(O)'
<1> USE DEF Inv, QuietMove
<1>1. \A j \in Tasks : Counted(j)' <=> Counted(j)
  BY DEF Counted
<1>2. \A j \in Tasks : pc'[j] = "new" <=> pc[j] = "new"
  OBVIOUS
<1>3. Pushed(O)' = Pushed(O) /\ Done(O)' = Done(O)
  BY <1>1, <1>2 DEF Pushed, Done
<1>4. Exact(O)'
  BY <1>1, <1>3 DEF Exact
<1>5. Waited(O)'
  BY <1>1 DEF Waited
<1>6. AllDone' <=> AllDone
  BY <1>1, <1>2 DEF AllDone
<1>7. \A j \in Tasks : pc'[j] \in {"unblock", "ended"} <=> pc[j] \in {"unblock", "ended"}
  OBVIOUS
<1>8. \A j \in Tasks : (pc'[j] = "unblock" <=> pc[j] = "unblock")
                     /\ (pc'[j] = "ended" <=> pc[j] = "ended")
  OBVIOUS
<1>9. unblocked' > 0 \/ (waiter' = "returned" /\ size # 0) =>
        unblocked > 0 \/ (waiter = "returned" /\ size # 0)
  BY DEF TypeOK
<1>10. unblocked' <= 1 /\ (unblocked' > 0 => waiter' = "block")
  BY DEF Last, TypeOK
<1>11. waiter' = "returned" => AllDone
  <2>1. size = 0 => AllDone
    BY LastIsLast
  <2> QED BY <2>1 DEF Last, TypeOK
<1>12. Last(O)'
  BY <1>6, <1>8, <1>9, <1>10, <1>11 DEF Last
<1>13. Old(O)'
  BY DEF Old
<1> QED BY <1>13, <1>4, <1>5, <1>12

-----------------------------------------------------------------------------
\* The steps within a round.
LEMMA RoundInv ==
  ASSUME NEW O \in SUBSET Tasks, Inv(O), [Next]_vars, ~Reset
  PROVE  Inv(O)'
<1> USE ConstantsAssumption
<1>1. CASE Wait
  <2>1. ~fiber
    BY <1>1 DEF Wait, WaiterGoto, Inv, Waited
  <2>2. TypeOK'
    BY <1>1 DEF Wait, WaiterGoto, Inv, TypeOK, counter
  <2> QED BY <1>1, <2>1, <2>2, QuietInv DEF Wait, WaiterGoto, counter, QuietMove
<1>2. CASE StoreFiber
  <2>1. ~fiber
    BY <1>2 DEF StoreFiber, WaiterGoto, Inv, Waited
  <2>2. TypeOK'
    BY <1>2 DEF StoreFiber, WaiterGoto, Inv, TypeOK
  <2> QED BY <1>2, <2>1, <2>2, QuietInv DEF StoreFiber, WaiterGoto, QuietMove
<1>3. CASE Resume
  <2>1. TypeOK'
    BY <1>3 DEF Resume, WaiterGoto, Inv, TypeOK, counter
  <2> QED BY <1>3, <2>1, QuietInv DEF Resume, WaiterGoto, counter, QuietMove
<1>5. CASE Finished \/ UNCHANGED vars
  <2>1. UNCHANGED vars
    BY <1>5 DEF Finished
  <2> QED BY <2>1 DEF vars, counter, Inv, TypeOK, Old, Exact, Waited, Last, Pushed, Done,
                      AllDone, Counted
<1>6. ASSUME NEW k \in Tasks, Push(k) \/ \E p \in Tasks : PushFrom(p, k)
      PROVE  Inv(O)'
  <2>1. pc[k] = "new" /\ pc' = [pc EXCEPT ![k] = "queued"] /\ size' = size + 1
        /\ UNCHANGED <<done, fiber, reg, waiter, round, unblocked, hasty>>
        /\ (waiter = "body" \/ \E p \in Tasks : pc[p] = "run")
    BY <1>6 DEF Push, PushFrom, Goto
  <2> QED BY <2>1, PushInv
<1>7. ASSUME NEW k \in Tasks, Start(k) \/ Return(k) \/ SeeWaiter(k)
      PROVE  Inv(O)'
  <2>1. PICK q \in {"run", "done", "count"} :
          /\ pc' = [pc EXCEPT ![k] = q] /\ pc[k] \in {"queued", "run", "done"}
          /\ q = "count" => fiber
    BY <1>7 DEF Start, Return, SeeWaiter, Goto
  <2>2. UNCHANGED <<size, done, fiber, reg, waiter, round, unblocked, hasty>>
    BY <1>7 DEF Start, Return, SeeWaiter, counter
  <2>3. TypeOK'
    BY <2>1, <2>2 DEF Inv, TypeOK
  <2>4. \A j \in Tasks : pc'[j] = IF j = k THEN q ELSE pc[j]
    BY <2>1 DEF Inv, TypeOK
  <2>5. fiber => waiter \in {"block", "returned"}
    BY DEF Inv, Waited
  <2>6. \A j \in Tasks : QuietMove(j)
    BY <2>1, <2>4 DEF QuietMove
  <2>7. /\ fiber => fiber'
        /\ fiber' => waiter' \in {"block", "returned"}
    BY <2>2, <2>5
  <2>8. /\ UNCHANGED <<size, done, reg, round>>
        /\ UNCHANGED unblocked /\ waiter' = waiter
    BY <2>2
  <2> QED BY Inv(O), <2>3, <2>6, <2>7, <2>8, QuietInv
<1> QED
  BY <1>1, <1>2, <1>3, <1>5, <1>6, <1>7, IncrementInv, CompareInv, UnblockInv
     DEF Next, WaiterStep, TaskStep

\* What reset records is a Boolean.
LEMMA ResetHasty == ASSUME Reset PROVE hasty' \in BOOLEAN
<1>1. CASE hasty \/ \E k \in Tasks : pc[k] \notin {"new", "ended"}
  BY <1>1, Zenon DEF Reset
<1>2. CASE ~ (hasty \/ \E k \in Tasks : pc[k] \notin {"new", "ended"})
  BY <1>2, Zenon DEF Reset
<1> QED
  BY <1>1, <1>2

\* reset forgets the tasks of the round, when they have all ended.
LEMMA ResetInv ==
  ASSUME NEW O \in SUBSET Tasks, Inv(O), Reset, ~hasty'
  PROVE  \E P \in SUBSET Tasks : Inv(P)'
<1> DEFINE P == {k \in Tasks : pc[k] = "ended"}
<1>1. /\ \A k \in Tasks : pc[k] \in {"new", "ended"}
      /\ size' = 0 /\ done' = 0 /\ fiber' = FALSE /\ waiter = "returned" /\ waiter' = "body"
      /\ round \in Nat /\ round >= 1 /\ round' = round + 1
      /\ UNCHANGED <<pc, reg, unblocked>>
  BY DEF Reset, WaiterGoto, Inv, TypeOK, Old
<1>2. \A k \in Tasks \ P : pc[k] = "new"
  BY <1>1
<1>3. Pushed(P)' = {} /\ Done(P)' = {} /\ Cardinality({}) = 0
  BY <1>1, <1>2, FS_EmptySet DEF Pushed, Done, Counted
<1>4. unblocked = 0
  BY <1>1 DEF Inv, TypeOK, Last
<1>n. PICK n \in Nat : n = round /\ n >= 1
  BY <1>1
<1>o. round' = n + 1
  BY <1>1, <1>n
<1>p. round' \in Nat /\ round' >= 1
  BY <1>o
<1>h. hasty' \in BOOLEAN
  BY ResetHasty
<1>q. /\ size' \in Nat /\ done' \in Nat /\ fiber' \in BOOLEAN
      /\ unblocked' \in Nat
  BY <1>1 DEF Inv, TypeOK
<1>r. waiter' \in {"body", "store", "block", "returned"}
  BY <1>1
<1>s. TypeOK'
  BY <1>1, <1>h, <1>p, <1>q, <1>r DEF Inv, TypeOK
<1>t. Old(P)'
  BY <1>1, <1>o, <1>p DEF Inv, TypeOK, Old
<1>5. TypeOK' /\ Old(P)'
  BY <1>s, <1>t
<1>6. Exact(P)'
  BY <1>1, <1>2, <1>3 DEF Exact, Counted
<1>7. Waited(P)'
  BY <1>1, <1>2 DEF Waited, Counted
<1>8. Last(P)'
  BY <1>1, <1>4 DEF Last
<1> QED
  BY <1>5, <1>6, <1>7, <1>8 DEF Inv

\* From a hasty reset on only the types are certain.
CounterInv == TypeOK /\ (hasty \/ \E O \in SUBSET Tasks : Inv(O))

LEMMA TypeStep ==
  ASSUME TypeOK, [Next]_vars
  PROVE  TypeOK'
<1> USE DEF TypeOK, counter, Goto, WaiterGoto
<1>0. CASE Wait
  BY <1>0 DEF Wait
<1>1. CASE StoreFiber
  BY <1>1 DEF StoreFiber
<1>6. CASE Resume
  <2>1. unblocked' \in Nat
    BY <1>6 DEF Resume
  <2>2. UNCHANGED <<size, done, fiber, pc, reg, round, hasty>> /\ waiter' = "returned"
    BY <1>6 DEF Resume
  <2> QED
    BY <2>1, <2>2
<1>5. CASE Reset
  <2>1. hasty' \in BOOLEAN
    BY <1>5, ResetHasty
  <2>2. size' = 0 /\ done' = 0 /\ fiber' = FALSE /\ waiter' = "body" /\ round' = round + 1
    BY <1>5 DEF Reset
  <2>3. UNCHANGED <<pc, reg, unblocked>>
    BY <1>5 DEF Reset
  <2>4. size' \in Nat /\ done' \in Nat /\ round' \in Nat
    BY <2>2
  <2> QED
    BY <2>1, <2>2, <2>3, <2>4
<1>2. CASE Finished \/ UNCHANGED vars
  BY <1>2 DEF Finished, vars
<1>3. ASSUME NEW k \in Tasks, Push(k) \/ \E p \in Tasks : PushFrom(p, k)
      PROVE  TypeOK'
  BY <1>3 DEF Push, PushFrom
<1>4. ASSUME NEW k \in Tasks, TaskStep(k)
      PROVE  TypeOK'
  BY <1>4 DEF TaskStep, Start, Return, SeeWaiter, Increment, Compare, Unblock
<1> QED
  BY <1>0, <1>1, <1>2, <1>3, <1>4, <1>5, <1>6 DEF Next, WaiterStep

LEMMA StaysHasty ==
  ASSUME hasty, [Next]_vars
  PROVE  hasty'
BY DEF Next, vars, Wait, WaiterStep, StoreFiber, Resume, Reset, Finished, Push, PushFrom,
       TaskStep, Start, Return, SeeWaiter, Increment, Compare, Unblock

LEMMA CounterStep ==
  ASSUME CounterInv, [Next]_vars
  PROVE  CounterInv'
<1>1. TypeOK'
  BY TypeStep DEF CounterInv
<1>2. CASE hasty
  BY <1>1, <1>2, StaysHasty DEF CounterInv
<1>3. CASE ~hasty
  <2>1. PICK O \in SUBSET Tasks : Inv(O)
    BY <1>3 DEF CounterInv
  <2> QED
    BY <1>1, <2>1, RoundInv, ResetInv DEF CounterInv
<1> QED
  BY <1>2, <1>3

\* Until a hasty reset the invariant holds for any number of tasks, whether or not they
\* push more tasks, for any number of fibers and of rounds.
THEOREM CounterInvariant == Spec => []CounterInv
<1>1. CounterInv /\ [Next]_vars => CounterInv'
  BY CounterStep
<1>2. Init => CounterInv
  <2>1. Init => Inv({}) /\ TypeOK
    BY InitInv DEF Inv
  <2> QED
    BY <2>1 DEF CounterInv
<1> QED
  BY <1>1, <1>2, PTL DEF Spec

\* Until the counter is reset with a task in done, wait never returns while a task of the
\* counter is still to run (main.cpp:193).
THEOREM WaitIsForAll == Spec => []WaitsForAllUntilHasty
<1>1. CounterInv => WaitsForAllUntilHasty
  BY DEF CounterInv, Inv, Last, AllDone, WaitReturnsDone, WaitsForAllUntilHasty
<1> QED
  BY <1>1, CounterInvariant, PTL

\* Until then the waiter is unblocked at most once in a round, and only while it waits.
THEOREM UnblockedOnce == Spec => []UnblocksOnceUntilHasty
<1>1. CounterInv => UnblocksOnceUntilHasty
  BY DEF CounterInv, Inv, Last, UnblockedOnlyWaiting, UnblocksOnceUntilHasty
<1> QED
  BY <1>1, CounterInvariant, PTL
=============================================================================
