---------------------------- MODULE WorkersProofs ----------------------------
(***************************************************************************)
(* The properties of Workers for any number of threads, pools, fibers and  *)
(* worker ids below the width of the counter.  The inductive invariant has *)
(* three parts: who a slot of the tables belongs to (Slotted), what the    *)
(* threads and their dispatchers are doing (Switched), and where each      *)
(* fiber is (Placed).                                                      *)
(***************************************************************************)
EXTENDS Workers, TLAPS

TablesTyped ==
  /\ started \in 0 .. MaxStarts
  /\ threadIds \in [Ids -> Threads \cup {None}] /\ running \in [Ids -> Fibers \cup {None}]
  /\ dispatcher \in [Ids -> {"none", "alive", "deleted", "twice"}]
  /\ slotPool \in [Ids -> Pools \cup {None}] /\ loop \in [Ids -> Threads \cup {None}]

PoolsTyped ==
  /\ phase \in [Pools -> {"new", "starting", "started", "joined", "gone"}]
  /\ up \in [Pools -> BOOLEAN] /\ left \in [Pools -> Int] /\ withMain \in [Pools -> BOOLEAN]
  /\ mainSlot \in [Pools -> Ids] /\ owner \in [Pools -> Threads \cup {None}]

FibersTyped ==
  /\ free \in [Pools -> SUBSET Fibers] /\ awaiting \in [Pools -> SUBSET Fibers]
  /\ waiting \subseteq Fibers /\ blocking \subseteq Fibers
  /\ status \in [Fibers -> {"initialized", "running", "ended", "yielded", "blocked"}]
  /\ ready \in [Fibers -> BOOLEAN] /\ fiberPool \in [Fibers -> Pools \cup {None}]
  /\ former \in [Fibers -> Ids] /\ saved \in [Fibers -> Fibers]

ThreadsTyped ==
  /\ pc \in [Threads -> {"outside", "starting", "absent", "born", "loop", "resume", "exited"}]
  /\ pool \in [Threads -> Pools \cup {None}] /\ slot \in [Threads -> Ids]
  /\ fiber \in [Threads -> Fibers \cup {None}] /\ code \in [Threads -> Threads \cup Fibers]

TypeOK == TablesTyped /\ PoolsTyped /\ FibersTyped /\ ThreadsTyped

-----------------------------------------------------------------------------
(* The slots *)

Active(t) == pc[t] = "born" \/ Works(t)

\* The last slot of the pool is the main thread's, who is no worker.
MainOwned(p) == phase[p] \in {"started", "joined"} /\ ~withMain[p]

ThreadsOk ==
  \A t \in Threads :
    /\ t \in External => pc[t] \notin {"absent", "exited"}
    /\ t \notin External => pc[t] \notin {"outside", "starting"}
    /\ pc[t] = "born" => Unregistered(t)

PoolsOk ==
  \A p \in Pools :
    /\ phase[p] # "new" => owner[p] \in External
    /\ phase[p] = "starting" =>
         /\ pc[owner[p]] = "starting"
         /\ withMain[p] => Unregistered(owner[p])
         /\ \A q \in Pools : phase[q] = "starting" /\ owner[q] = owner[p] => q = p

ActiveOk ==
  \A t \in Threads : Active(t) =>
    /\ slot[t] < started /\ dispatcher[slot[t]] = "alive"
    /\ pool[t] \in Pools /\ phase[pool[t]] \in {"starting", "started"}
    /\ t \in External => phase[pool[t]] = "started" /\ owner[pool[t]] = t /\ withMain[pool[t]]
    /\ \A u \in Threads : Active(u) /\ slot[u] = slot[t] => u = t
    /\ Works(t) => threadIds[slot[t]] = t

MainOk ==
  \A p \in Pools : MainOwned(p) =>
    /\ mainSlot[p] < started /\ dispatcher[mainSlot[p]] = "alive"
    /\ slotPool[mainSlot[p]] = p
    /\ \A t \in Threads : Active(t) => slot[t] # mainSlot[p]

\* Who an id in the table belongs to, and that it is there once.
IdsHeld ==
  \A i \in Ids : threadIds[i] # None =>
    \/ Works(threadIds[i]) /\ slot[threadIds[i]] = i
    \/ \E p \in Pools : MainOwned(p) /\ owner[p] = threadIds[i] /\ mainSlot[p] = i

IdsUnique == \A i, j \in Ids : threadIds[j] = threadIds[i] /\ threadIds[i] # None => i = j

DispatchersOk ==
  \A i \in Ids :
    /\ dispatcher[i] # "twice"
    /\ dispatcher[i] = "alive" =>
         \/ \E t \in Threads : Active(t) /\ slot[t] = i
         \/ \E p \in Pools : MainOwned(p) /\ mainSlot[p] = i

Slotted == ThreadsOk /\ PoolsOk /\ ActiveOk /\ MainOk /\ IdsHeld /\ IdsUnique /\ DispatchersOk

-----------------------------------------------------------------------------
(* The switches *)

CodeOk ==
  \A u \in Threads :
    \/ code[u] = u
    \/ code[u] \in Fibers /\ pc[u] = "resume" /\ fiber[u] = code[u] /\ status[code[u]] = "running"

ResumeOk ==
  \A u \in Threads : pc[u] = "resume" =>
    /\ fiber[u] \in Fibers /\ ~ready[fiber[u]]
    /\ running[slot[u]] = fiber[u] /\ loop[slot[u]] = u
    /\ former[fiber[u]] = slot[u] /\ fiberPool[fiber[u]] = pool[u]
    /\ code[u] = u => status[fiber[u]] \in {"ended", "yielded", "blocked"}
    /\ \A v \in Threads : pc[v] = "resume" /\ fiber[v] = fiber[u] => v = u

FibersOk ==
  \A f \in Fibers : saved[f] = f /\ (f \in blocking => \E u \in Threads : code[u] = f)

Switched == CodeOk /\ ResumeOk /\ FibersOk

-----------------------------------------------------------------------------
(* The places *)

FreeOk ==
  \A p \in Pools : \A f \in free[p] :
    /\ ready[f] /\ f \notin waiting
    /\ \A q \in Pools : f \notin awaiting[q] /\ (f \in free[q] => q = p)

AwaitingOk ==
  \A p \in Pools : \A f \in awaiting[p] :
    f \notin waiting /\ ~Held(f) /\ \A q \in Pools : f \in awaiting[q] => q = p

WaitingOk == \A f \in waiting : ~Held(f) /\ fiberPool[f] \in Pools

Somewhere ==
  \A f \in Fibers :
    \/ \E p \in Pools : f \in free[p] \/ f \in awaiting[p] \/ phase[p] = "gone"
    \/ f \in waiting \/ Held(f)

Placed == FreeOk /\ AwaitingOk /\ WaitingOk /\ Somewhere

IInv == TypeOK /\ Slotted /\ Switched /\ Placed

-----------------------------------------------------------------------------
(* The counter never wraps: the next id is a slot that was never used. *)

LEMMA SmallMod == ASSUME NEW k \in Nat, NEW n \in Nat, k < n PROVE k % n = k
OBVIOUS

LEMMA WorkerId ==
  ASSUME TypeOK PROVE _fiber_worker_id = started /\ started \in Ids
<1>1. started \in Nat /\ started < Slots /\ Slots \in Nat
  BY WorkersAssumption, FewStarts DEF TypeOK, TablesTyped
<1>2. started % Slots = started
  BY <1>1, SmallMod
<1> QED
  BY <1>1, <1>2 DEF _fiber_worker_id, Ids

LEMMA InitIInv == Init => IInv
<1> SUFFICES ASSUME Init PROVE IInv
  OBVIOUS
<1> USE WorkersAssumption, FewStarts
<1>1. TypeOK
  BY DEF Init, TypeOK, TablesTyped, PoolsTyped, FibersTyped, ThreadsTyped, Ids
<1>2. Slotted
  <2>1. ThreadsOk /\ PoolsOk /\ ActiveOk /\ MainOk
    BY DEF Init, ThreadsOk, PoolsOk, ActiveOk, MainOk, Active, Works, MainOwned, Unregistered
  <2>2. IdsHeld /\ IdsUnique /\ DispatchersOk
    BY DEF Init, IdsHeld, IdsUnique, DispatchersOk
  <2> QED
    BY <2>1, <2>2 DEF Slotted
<1>3. Switched
  BY DEF Init, Switched, CodeOk, ResumeOk, FibersOk
<1>4. Placed
  BY DEF Init, Placed, FreeOk, AwaitingOk, WaitingOk, Somewhere, Held
<1> QED
  BY <1>1, <1>2, <1>3, <1>4 DEF IInv

-----------------------------------------------------------------------------
(* Slotted *)

LEMMA StartSlotted ==
  ASSUME IInv, NEW u \in External, NEW p \in Pools, NEW n \in 0 .. MaxSpawned, NEW main \in BOOLEAN,
         Start(u, p, n, main)
  PROVE Slotted'
<1> USE WorkersAssumption DEF IInv, TypeOK, TablesTyped, PoolsTyped, ThreadsTyped, Slotted, Start, tables
<1>1. \A t \in Threads : Active(t)' = Active(t) /\ Works(t)' = Works(t)
  BY DEF Active, Works
<1>2. \A q \in Pools : MainOwned(q)' = MainOwned(q)
  BY DEF MainOwned
<1>3. ThreadsOk'
  BY DEF ThreadsOk, Unregistered
<1>4. PoolsOk'
  BY DEF PoolsOk, Unregistered
<1>5. ActiveOk'
  BY <1>1 DEF ActiveOk, Active
<1>6. MainOk'
  BY <1>1, <1>2 DEF MainOk
<1>7. IdsHeld'
  BY <1>1, <1>2 DEF IdsHeld, MainOwned
<1>8. IdsUnique'
  BY <1>1, <1>2 DEF IdsHeld, IdsUnique, MainOwned
<1>9. DispatchersOk'
  BY <1>1, <1>2 DEF DispatchersOk, MainOwned
<1> QED
  BY <1>3, <1>4, <1>5, <1>6, <1>7, <1>8, <1>9

LEMMA SpawnSlotted ==
  ASSUME IInv, NEW u \in External, NEW p \in Pools, NEW t \in Threads, Spawn(u, p, t)
  PROVE Slotted'
<1>0. _fiber_worker_id = started /\ started \in Ids
  BY WorkerId DEF IInv
<1> USE WorkersAssumption, <1>0 DEF IInv, TypeOK, TablesTyped, PoolsTyped, ThreadsTyped, Slotted, Spawn, TakeId, Call
<1>a. started \in Int /\ (\A v \in Threads : slot[v] \in Int) /\ \A q \in Pools : mainSlot[q] \in Int
  BY DEF Ids
<1>1. t \notin External /\ Unregistered(t)
  <2>1. t \notin External
    BY DEF ThreadsOk
  <2>2. \A q \in Pools : MainOwned(q) => owner[q] # t
    BY <2>1 DEF PoolsOk, MainOwned
  <2> QED
    BY <2>1, <2>2 DEF IdsHeld, Works, Unregistered
<1>2. \A v \in Threads : Works(v)' = Works(v) /\ (Active(v)' <=> Active(v) \/ v = t)
  BY DEF Active, Works
<1>3. \A q \in Pools : MainOwned(q)' = MainOwned(q)
  BY DEF MainOwned
<1>4. ThreadsOk'
  BY <1>1 DEF ThreadsOk, Unregistered
<1>5. PoolsOk'
  BY <1>1 DEF PoolsOk, Unregistered
<1>4a. \A v \in Threads : Active(v) => v # t /\ slot'[v] = slot[v] /\ pool'[v] = pool[v]
  BY DEF Active, Works
<1>4b. \A v \in Threads : Active(v) => slot[v] < started /\ slot[v] # started
  BY <1>a DEF ActiveOk
<1>6. ActiveOk'
  <2> SUFFICES ASSUME NEW v \in Threads, Active(v)' PROVE ActiveOk!(v)!2'
    BY DEF ActiveOk
  <2>1. CASE v = t
    BY <2>1, <1>1, <1>2, <1>4a, <1>4b, <1>a DEF ActiveOk, Works
  <2>2. CASE v # t
    BY <2>2, <1>1, <1>2, <1>4a, <1>4b, <1>a DEF ActiveOk, Works
  <2> QED
    BY <2>1, <2>2
<1>7. MainOk'
  BY <1>2, <1>3, <1>4a, <1>a DEF MainOk
<1>8. IdsHeld'
  BY <1>2, <1>3, <1>4a DEF IdsHeld, MainOwned, Active
<1>9. IdsUnique'
  BY <1>2, <1>3 DEF IdsHeld, IdsUnique, ActiveOk, Active, Works, MainOwned
<1>10. DispatchersOk'
  BY <1>2, <1>3 DEF DispatchersOk, ActiveOk, Active, Works, MainOwned
<1> QED
  BY <1>4, <1>5, <1>6, <1>7, <1>8, <1>9, <1>10

LEMMA SpawnedSlotted ==
  ASSUME IInv, NEW u \in External, NEW p \in Pools, Spawned(u, p)
  PROVE Slotted'
<1>0. _fiber_worker_id = started /\ started \in Ids
  BY WorkerId DEF IInv
<1> USE WorkersAssumption, <1>0 DEF IInv, TypeOK, TablesTyped, PoolsTyped, ThreadsTyped, Slotted, Spawned, TakeId, Call
<1>1. \A v \in Threads : Works(v)' = Works(v) /\ (Active(v)' <=> Active(v) \/ (v = u /\ withMain[p]))
  BY DEF Active, Works
<1>2. \A q \in Pools : MainOwned(q)' <=> MainOwned(q) \/ (q = p /\ ~withMain[p])
  BY DEF MainOwned
<1>3. ThreadsOk'
  BY DEF ThreadsOk, PoolsOk, Unregistered
<1>4. PoolsOk'
  <2>1. \A q \in Pools : phase'[q] = "starting" => q # p /\ phase[q] = "starting" /\ owner[q] # u
    BY DEF PoolsOk
  <2>2. \A t \in Threads : t # u => pc'[t] = pc[t]
    OBVIOUS
  <2> QED
    BY <2>1, <2>2 DEF PoolsOk, Unregistered
<1>5. ActiveOk'
  <2>1. \A v \in Threads : Active(v) => v # u /\ slot'[v] = slot[v] /\ pool'[v] = pool[v]
    BY DEF Active, Works
  <2>2. \A v \in Threads : slot[v] \in Int
    BY DEF Ids
  <2>3. \A v \in Threads : Active(v) => slot[v] < started /\ slot[v] # started /\ slot[v] < started'
    BY <2>2 DEF ActiveOk
  <2>4. \A v \in Threads : Active(v) => phase'[pool[v]] \in {"starting", "started"}
    BY DEF ActiveOk
  <2> SUFFICES ASSUME NEW v \in Threads, Active(v)' PROVE ActiveOk!(v)!2'
    BY DEF ActiveOk
  <2>5. CASE v = u /\ withMain[p]
    BY <2>5, <2>1, <2>3, <1>1 DEF ActiveOk, PoolsOk, Works
  <2>6. CASE Active(v)
    <3>1. \A w \in Threads : Active(w)' /\ slot'[w] = slot'[v] => w = v
      BY <2>6, <2>1, <2>3, <1>1 DEF ActiveOk
    <3>2. slot'[v] < started' /\ dispatcher'[slot'[v]] = "alive"
      BY <2>6, <2>1, <2>3 DEF ActiveOk
    <3>3. Works(v)' => threadIds'[slot'[v]] = v
      BY <2>6, <2>1, <1>1 DEF ActiveOk
    <3> QED
      BY <2>6, <2>1, <2>4, <3>1, <3>2, <3>3 DEF ActiveOk
  <2> QED
    BY <2>5, <2>6, <1>1
<1>6. MainOk'
  <2> SUFFICES ASSUME NEW q \in Pools, MainOwned(q)' PROVE MainOk!(q)!2'
    BY DEF MainOk
  <2>1. started \in Int /\ (\A v \in Threads : slot[v] \in Int) /\ mainSlot[q] \in Int
    BY DEF Ids
  <2>2. \A v \in Threads : Active(v) => slot'[v] = slot[v] /\ slot[v] < started
    BY DEF ActiveOk, Active, Works
  <2>3. CASE q = p
    BY <2>1, <2>2, <2>3, <1>1 DEF MainOwned
  <2>4. CASE q # p
    <3>1. MainOwned(q) /\ mainSlot'[q] = mainSlot[q]
      BY <2>4, <1>2
    <3> QED
      BY <2>1, <2>2, <2>4, <3>1, <1>1 DEF MainOk
  <2> QED
    BY <2>3, <2>4
<1>7. IdsHeld'
  BY <1>1, <1>2 DEF IdsHeld, ActiveOk, Active, Works, MainOwned
<1>8. IdsUnique'
  BY <1>1, <1>2 DEF IdsHeld, IdsUnique, ActiveOk, Active, Works, MainOwned
<1>9. DispatchersOk'
  <2> SUFFICES ASSUME NEW i \in Ids
               PROVE  /\ dispatcher'[i] # "twice"
                      /\ dispatcher'[i] = "alive" =>
                           \/ \E v \in Threads : Active(v)' /\ slot'[v] = i
                           \/ \E q \in Pools : MainOwned(q)' /\ mainSlot'[q] = i
    BY DEF DispatchersOk
  <2>1. CASE i = started
    BY <2>1, <1>1, <1>2 DEF DispatchersOk, MainOk, ActiveOk, Active, Works, MainOwned
  <2>2. CASE i # started
    <3>1. dispatcher'[i] = dispatcher[i]
      BY <2>2
    <3>2. \A v \in Threads : Active(v) => Active(v)' /\ slot'[v] = slot[v]
      BY <1>1 DEF Active, Works
    <3>3. \A q \in Pools : MainOwned(q) => MainOwned(q)' /\ mainSlot'[q] = mainSlot[q]
      BY <1>2 DEF MainOwned
    <3> HIDE DEF Spawned, TakeId, Call
    <3> QED
      BY <3>1, <3>2, <3>3 DEF DispatchersOk
  <2> QED
    BY <2>1, <2>2
<1> QED
  BY <1>3, <1>4, <1>5, <1>6, <1>7, <1>8, <1>9

LEMMA RegisterSlotted ==
  ASSUME IInv, NEW t \in Threads, Register(t)
  PROVE Slotted'
<1> USE WorkersAssumption DEF IInv, TypeOK, TablesTyped, PoolsTyped, ThreadsTyped, Slotted, Register, pools
<1>1. \A v \in Threads : Active(v)' = Active(v) /\ (Works(v)' <=> Works(v) \/ v = t)
  BY DEF Active, Works
<1>2. \A q \in Pools : MainOwned(q)' = MainOwned(q)
  BY DEF MainOwned
<1>3. threadIds[slot[t]] = None
  BY DEF IdsHeld, ActiveOk, MainOk, Active, Works
<1>4. ThreadsOk'
  BY DEF ThreadsOk, Unregistered
<1>5. PoolsOk'
  BY DEF PoolsOk, Unregistered
<1>6. ActiveOk'
  BY <1>1, <1>3 DEF ActiveOk, Active, Works
<1>7. MainOk'
  BY <1>1, <1>2 DEF MainOk
<1>8. IdsHeld'
  BY <1>1, <1>2, <1>3 DEF IdsHeld, ThreadsOk, Unregistered, MainOwned
<1>9. IdsUnique'
  BY <1>1, <1>2, <1>3 DEF IdsHeld, IdsUnique, ThreadsOk, Unregistered, MainOwned
<1>10. DispatchersOk'
  BY <1>1, <1>2, <1>3 DEF DispatchersOk, ThreadsOk, Unregistered, MainOwned
<1> QED
  BY <1>4, <1>5, <1>6, <1>7, <1>8, <1>9, <1>10

LEMMA EnableSlotted ==
  ASSUME IInv, NEW u \in External, NEW p \in Pools, Enable(u, p)
  PROVE Slotted'
<1> USE WorkersAssumption DEF IInv, TypeOK, TablesTyped, PoolsTyped, ThreadsTyped, Slotted, Enable, pools, threads
<1>1. \A v \in Threads : Active(v)' = Active(v) /\ Works(v)' = Works(v)
  BY DEF Active, Works
<1>2. \A q \in Pools : MainOwned(q)' = MainOwned(q)
  BY DEF MainOwned
<1>3. MainOwned(p)
  BY DEF MainOwned
<1>4. ThreadsOk'
  BY DEF ThreadsOk, Unregistered
<1>5. PoolsOk'
  BY DEF PoolsOk, Unregistered
<1>6. ActiveOk'
  BY <1>1, <1>3 DEF ActiveOk, MainOk, Active, Works
<1>7. MainOk'
  BY <1>1, <1>2 DEF MainOk
<1>8. IdsHeld'
  BY <1>1, <1>2, <1>3 DEF IdsHeld, Unregistered, MainOwned
<1>9. IdsUnique'
  BY <1>1, <1>2, <1>3 DEF IdsHeld, IdsUnique, Unregistered, MainOwned
<1>10. DispatchersOk'
  BY <1>1, <1>2, <1>3 DEF DispatchersOk, Unregistered, MainOwned
<1> QED
  BY <1>4, <1>5, <1>6, <1>7, <1>8, <1>9, <1>10

LEMMA ExitSlotted ==
  ASSUME IInv, NEW u \in Threads, Exit(u)
  PROVE Slotted'
<1> USE WorkersAssumption DEF IInv, TypeOK, TablesTyped, PoolsTyped, ThreadsTyped, Slotted, Exit, Erase, Delete, pools
<1>1. code[u] = u /\ pc[u] = "loop"
  BY DEF Switched, CodeOk
<1>2. \A v \in Threads : (Active(v)' <=> Active(v) /\ v # u) /\ (Works(v)' <=> Works(v) /\ v # u)
  BY <1>1 DEF Active, Works
<1>3. \A q \in Pools : MainOwned(q)' = MainOwned(q)
  BY DEF MainOwned
<1>4. ThreadsOk'
  BY <1>1 DEF ThreadsOk, Unregistered
<1>5. PoolsOk'
  BY <1>1 DEF PoolsOk, Unregistered
<1>6. ActiveOk'
  BY <1>1, <1>2 DEF ActiveOk, Active, Works
<1>7. MainOk'
  BY <1>1, <1>2, <1>3 DEF MainOk, Active, Works
<1>8. IdsHeld'
  BY <1>1, <1>2, <1>3 DEF IdsHeld, ActiveOk, Active, Works, MainOwned
<1>9. IdsUnique'
  BY <1>1, <1>2, <1>3 DEF IdsHeld, IdsUnique, ActiveOk, Active, Works, MainOwned
<1>10. DispatchersOk'
  BY <1>1, <1>2, <1>3 DEF DispatchersOk, ActiveOk, Active, Works, MainOwned
<1> QED
  BY <1>4, <1>5, <1>6, <1>7, <1>8, <1>9, <1>10

LEMMA JoinSlotted ==
  ASSUME IInv, NEW u \in External, NEW p \in Pools, Join(u, p)
  PROVE Slotted'
<1> USE WorkersAssumption DEF IInv, TypeOK, TablesTyped, PoolsTyped, ThreadsTyped, Slotted, Join, tables
<1>1. \A v \in Threads : Active(v) => pool[v] # p
  BY DEF ActiveOk, Active, Works
<1>2. \A v \in Threads : Active(v)' = Active(v) /\ Works(v)' = Works(v)
  BY <1>1 DEF Active, Works
<1>3. \A q \in Pools : MainOwned(q)' = MainOwned(q)
  BY DEF MainOwned
<1>4. ThreadsOk'
  BY <1>1 DEF ThreadsOk, Unregistered, Active
<1>5. PoolsOk'
  BY DEF PoolsOk, Unregistered
<1>6. ActiveOk'
  BY <1>1, <1>2 DEF ActiveOk
<1>7. MainOk'
  BY <1>2, <1>3 DEF MainOk
<1>8. IdsHeld'
  BY <1>2, <1>3 DEF IdsHeld
<1>9. IdsUnique'
  BY <1>2, <1>3 DEF IdsHeld, IdsUnique
<1>10. DispatchersOk'
  BY <1>2, <1>3 DEF DispatchersOk
<1> QED
  BY <1>4, <1>5, <1>6, <1>7, <1>8, <1>9, <1>10

LEMMA DestroySlotted ==
  ASSUME IInv, NEW u \in External, NEW p \in Pools, Destroy(u, p)
  PROVE Slotted'
<1> USE WorkersAssumption DEF IInv, TypeOK, TablesTyped, PoolsTyped, ThreadsTyped, Slotted, Destroy, CleanUp, Erase, Delete, threads
<1>1. \A v \in Threads : Active(v)' = Active(v) /\ Works(v)' = Works(v)
  BY DEF Active, Works
<1>2. \A q \in Pools : MainOwned(q)' <=> MainOwned(q) /\ q # p
  BY DEF MainOwned
<1>3. MainOwned(p) <=> ~withMain[p]
  BY DEF MainOwned
<1>4. ThreadsOk'
  BY DEF ThreadsOk, Unregistered
<1>5. PoolsOk'
  BY DEF PoolsOk, Unregistered
<1>6. ActiveOk'
  BY <1>1, <1>3 DEF ActiveOk, MainOk, Works
<1>7. MainOk'
  BY <1>1, <1>2, <1>3 DEF MainOk
<1>8. IdsHeld'
  BY <1>1, <1>2, <1>3 DEF IdsHeld, MainOk
<1>9. IdsUnique'
  BY <1>1, <1>2, <1>3 DEF IdsHeld, IdsUnique, MainOk
<1>10. DispatchersOk'
  BY <1>1, <1>2, <1>3 DEF DispatchersOk, MainOk
<1> QED
  BY <1>4, <1>5, <1>6, <1>7, <1>8, <1>9, <1>10

\* The steps that leave the slots alone.
LEMMA SlottedKept ==
  ASSUME IInv,
         UNCHANGED <<started, threadIds, dispatcher, slotPool, phase, withMain, mainSlot, owner, pool, slot>>,
         \A t \in Threads : \/ pc'[t] = pc[t]
                            \/ pc[t] \in {"loop", "resume"} /\ pc'[t] \in {"loop", "resume"}
  PROVE Slotted'
<1> USE WorkersAssumption DEF IInv, Slotted
<1>1. \A t \in Threads : Active(t)' = Active(t) /\ Works(t)' = Works(t)
  BY DEF Active, Works
<1>2. \A q \in Pools : MainOwned(q)' = MainOwned(q)
  BY DEF MainOwned
<1>3. ThreadsOk'
  BY DEF ThreadsOk, Unregistered
<1>4. PoolsOk'
  BY DEF PoolsOk, Unregistered
<1>5. ActiveOk'
  BY <1>1 DEF ActiveOk
<1>6. MainOk'
  BY <1>1, <1>2 DEF MainOk
<1>7. IdsHeld' /\ IdsUnique'
  BY <1>1, <1>2 DEF IdsHeld, IdsUnique, TypeOK, TablesTyped
<1>8. DispatchersOk'
  BY <1>1, <1>2 DEF DispatchersOk
<1> QED
  BY <1>3, <1>4, <1>5, <1>6, <1>7, <1>8

-----------------------------------------------------------------------------
(* What a thread finds through its id *)

LEMMA OwnIndex ==
  ASSUME IInv, NEW t \in Threads, Works(t)
  PROVE SlotsOf(t) = {slot[t]} /\ ThreadIndex(t) = slot[t]
<1>1. slot[t] \in Ids /\ slot[t] < _fiber_worker_id /\ threadIds[slot[t]] = t
  BY WorkerId DEF IInv, TypeOK, ThreadsTyped, Slotted, ActiveOk, Active
<1>2. \A i \in Ids : threadIds[i] = t => i = slot[t]
  BY <1>1, WorkersAssumption DEF IInv, Slotted, IdsUnique
<1>3. SlotsOf(t) = {slot[t]}
  BY <1>1, <1>2 DEF SlotsOf
<1>4. slot[t] <= slot[t]
  BY <1>1, WorkersAssumption DEF Ids
<1> QED
  BY <1>3, <1>4 DEF ThreadIndex

LEMMA Runner ==
  ASSUME IInv, NEW u \in Threads, Runs(u)
  PROVE /\ pc[u] = "resume" /\ fiber[u] = code[u] /\ status[code[u]] = "running"
        /\ ThreadIndex(u) = slot[u] /\ ThisFiber(u) = code[u] /\ ThisPool(u) = pool[u]
        /\ loop[slot[u]] = u /\ former[code[u]] = slot[u]
<1>1. code[u] # u /\ code[u] # None
  BY WorkersAssumption DEF Runs
<1>2. pc[u] = "resume" /\ fiber[u] = code[u] /\ status[code[u]] = "running"
  BY <1>1 DEF IInv, Switched, CodeOk
<1>3. ThreadIndex(u) = slot[u]
  BY <1>2, OwnIndex DEF Works
<1> QED
  BY <1>1, <1>2, <1>3 DEF IInv, Switched, ResumeOk, ThisFiber, ThisPool

\* A thread that is not in a fiber is in its own dispatcher.
LEMMA Dispatching ==
  ASSUME IInv, NEW u \in Threads, code[u] \in Threads PROVE code[u] = u
BY WorkersAssumption DEF IInv, Switched, CodeOk

\* A ready fiber is nobody's, and one that is about to block is executed.
LEMMA ReadyIsFree ==
  ASSUME IInv, NEW f \in Fibers, ready[f]
  PROVE /\ \A t \in Threads : pc[t] = "resume" => fiber[t] # f
        /\ \A t \in Threads : code[t] # f
        /\ f \notin blocking /\ ~Held(f)
<1>1. \A t \in Threads : pc[t] = "resume" => fiber[t] # f
  BY DEF IInv, Switched, ResumeOk
<1>2. \A t \in Threads : code[t] # f
  BY <1>1, WorkersAssumption DEF IInv, Switched, CodeOk
<1> QED
  BY <1>1, <1>2 DEF IInv, Switched, FibersOk, Held

-----------------------------------------------------------------------------
(* TypeOK *)

LEMMA SpawnedTyped ==
  ASSUME TypeOK, NEW u \in External, NEW p \in Pools, Spawned(u, p) PROVE TypeOK'
<1> USE WorkersAssumption
<1>1. _fiber_worker_id \in Ids
  BY WorkerId
<1>2. TablesTyped'
  BY <1>1 DEF TypeOK, TablesTyped, Spawned, TakeId
<1>3. PoolsTyped'
  BY <1>1 DEF TypeOK, PoolsTyped, Spawned
<1>4. FibersTyped'
  BY DEF TypeOK, FibersTyped, Spawned, queues, fibers
<1>5. ThreadsTyped'
  BY <1>1 DEF TypeOK, ThreadsTyped, Spawned, Call
<1> QED
  BY <1>2, <1>3, <1>4, <1>5 DEF TypeOK

LEMMA DestroyTyped ==
  ASSUME TypeOK, NEW u \in External, NEW p \in Pools, Destroy(u, p) PROVE TypeOK'
<1>1. TablesTyped'
  BY DEF TypeOK, TablesTyped, PoolsTyped, Destroy, CleanUp, Erase, Delete
<1>2. PoolsTyped'
  BY DEF TypeOK, PoolsTyped, Destroy
<1>3. FibersTyped'
  BY DEF TypeOK, FibersTyped, Destroy, fibers
<1>4. ThreadsTyped'
  BY DEF TypeOK, ThreadsTyped, Destroy, threads
<1> QED
  BY <1>1, <1>2, <1>3, <1>4 DEF TypeOK

LEMMA BackTyped ==
  ASSUME IInv, NEW u \in Threads, Back(u) PROVE TypeOK'
<1>1. TypeOK /\ code[u] = u
  BY Dispatching DEF IInv, Back
<1>2. fiber[u] \in Fibers /\ pc[u] = "resume"
  BY <1>1 DEF IInv, Switched, ResumeOk, Back
<1>3. pool[u] \in Pools
  BY <1>2 DEF IInv, Slotted, ActiveOk, Active, Works
<1>4. TablesTyped' /\ PoolsTyped'
  BY <1>1 DEF TypeOK, TablesTyped, PoolsTyped, Back, tables, pools
<1>5. FibersTyped'
  <2>1. free' \in [Pools -> SUBSET Fibers]
    BY <1>1, <1>2, <1>3 DEF TypeOK, FibersTyped, Back
  <2>2. awaiting' \in [Pools -> SUBSET Fibers]
    BY <1>1, <1>2, <1>3 DEF TypeOK, FibersTyped, Back
  <2>3. ready' \in [Fibers -> BOOLEAN]
    BY <1>1, <1>2 DEF TypeOK, FibersTyped, Back
  <2> QED
    BY <1>1, <2>1, <2>2, <2>3 DEF TypeOK, FibersTyped, Back
<1>6. ThreadsTyped'
  BY <1>1 DEF TypeOK, ThreadsTyped, Back
<1> QED
  BY <1>4, <1>5, <1>6 DEF TypeOK

LEMMA TypeStep == IInv /\ [Next]_vars => TypeOK'
<1> SUFFICES ASSUME IInv, [Next]_vars PROVE TypeOK'
  OBVIOUS
<1> USE WorkersAssumption DEF TypeOK, TablesTyped, PoolsTyped, FibersTyped, ThreadsTyped
<1>0. TypeOK
  BY DEF IInv
<1>1. ASSUME NEW u \in External, NEW p \in Pools, NEW n \in 0 .. MaxSpawned, NEW main \in BOOLEAN,
             Start(u, p, n, main)
      PROVE TypeOK'
  BY <1>0, <1>1 DEF Start, tables, queues, fibers
<1>2. ASSUME NEW u \in External, NEW p \in Pools, NEW t \in Threads, Spawn(u, p, t)
      PROVE TypeOK'
  <2>1. _fiber_worker_id \in Ids
    BY WorkerId, <1>0
  <2> QED
    BY <1>0, <1>2, <2>1 DEF Spawn, TakeId, Call, queues, fibers
<1>3. ASSUME NEW u \in External, NEW p \in Pools, Spawned(u, p)
      PROVE TypeOK'
  BY <1>0, <1>3, SpawnedTyped
<1>4. ASSUME NEW u \in External, NEW p \in Pools, Enable(u, p)
      PROVE TypeOK'
  BY <1>0, <1>4 DEF Enable, pools, queues, fibers, threads
<1>5. ASSUME NEW u \in External, NEW p \in Pools, Join(u, p)
      PROVE TypeOK'
  BY <1>0, <1>5 DEF Join, tables, queues, fibers
<1>6. ASSUME NEW u \in External, NEW p \in Pools, Destroy(u, p)
      PROVE TypeOK'
  BY <1>0, <1>6, DestroyTyped
<1>7. ASSUME NEW p \in Pools, End(p)
      PROVE TypeOK'
  BY <1>0, <1>7 DEF End, tables, queues, fibers, threads
<1>8. ASSUME NEW p \in Pools, NEW f \in Fibers, Reset(p, f)
      PROVE TypeOK'
  BY <1>0, <1>8 DEF Reset, tables, pools, threads
<1>9. ASSUME NEW t \in Threads, Register(t)
      PROVE TypeOK'
  BY <1>0, <1>9 DEF Register, pools, queues, fibers
<1>10. ASSUME NEW u \in Threads, Exit(u)
       PROVE TypeOK'
  BY <1>0, <1>10 DEF Exit, Erase, Delete, pools, queues, fibers
<1>11. ASSUME NEW u \in Threads, NEW f \in Fibers, Resume(u, f)
       PROVE TypeOK'
  BY <1>0, <1>11 DEF Resume, SwitchTo, pools
<1>12. ASSUME NEW u \in Threads, Back(u)
       PROVE TypeOK'
  BY <1>12, BackTyped
<1>13. ASSUME NEW u \in Threads, Yield(u)
       PROVE TypeOK'
  BY <1>0, <1>13, Runner DEF Yield, SwitchBack, Runs, tables, pools, queues
<1>14. ASSUME NEW u \in Threads, Wait(u)
       PROVE TypeOK'
  BY <1>0, <1>14, Runner DEF Wait, Runs, tables, pools, threads
<1>15. ASSUME NEW u \in Threads, Block(u)
       PROVE TypeOK'
  BY <1>0, <1>15, Runner DEF Block, SwitchBack, Runs, tables, pools, queues
<1>16. ASSUME NEW u \in Threads, Finish(u)
       PROVE TypeOK'
  BY <1>0, <1>16, Runner DEF Finish, Runs, tables, pools, queues
<1>17. ASSUME NEW u \in Threads, NEW f \in Fibers, Unblock(u, f)
       PROVE TypeOK'
  BY <1>0, <1>17 DEF Unblock, tables, pools, fibers, threads, IInv, Placed, WaitingOk
<1>18. CASE UNCHANGED vars
  BY <1>0, <1>18 DEF vars, tables, pools, queues, fibers, threads
<1> QED
  BY <1>1, <1>2, <1>3, <1>4, <1>5, <1>6, <1>7, <1>8, <1>9, <1>10, <1>11, <1>12, <1>13,
     <1>14, <1>15, <1>16, <1>17, <1>18 DEF Next

-----------------------------------------------------------------------------
(* Switched *)

\* The steps outside of the fibers: the thread of a resumed fiber keeps what it has.
LEMMA SwitchedKept ==
  ASSUME IInv, UNCHANGED <<fibers, loop, fiber, code>>,
         \A t \in Threads : /\ pc'[t] = "resume" <=> pc[t] = "resume"
                            /\ pc[t] = "resume" =>
                                 /\ slot'[t] = slot[t] /\ pool'[t] = pool[t]
                                 /\ running'[slot[t]] = running[slot[t]]
  PROVE Switched'
<1> USE DEF IInv, Switched, fibers
<1>1. CodeOk'
  BY DEF CodeOk
<1>2. ResumeOk'
  BY DEF ResumeOk
<1>3. FibersOk'
  BY DEF FibersOk
<1> QED
  BY <1>1, <1>2, <1>3

\* The slot of a worker is not the one that is handed out next.
LEMMA NotNext == ASSUME IInv, NEW t \in Threads, Works(t) PROVE slot[t] # _fiber_worker_id
<1>1. slot[t] \in Int /\ started \in Int /\ _fiber_worker_id = started
  BY WorkerId, WorkersAssumption DEF IInv, TypeOK, ThreadsTyped, Ids
<1> QED
  BY <1>1 DEF IInv, Slotted, ActiveOk, Active

LEMMA ResumeSwitched ==
  ASSUME IInv, NEW u \in Threads, NEW f \in Fibers, Resume(u, f) PROVE Switched'
<1>1. code[u] = u /\ pc[u] = "loop" /\ ready[f] /\ saved[f] = f
  BY Dispatching DEF Resume, Resumable, IInv, Switched, FibersOk
<1>2. \A t \in Threads : (pc[t] = "resume" => fiber[t] # f) /\ code[t] # f
  BY <1>1, ReadyIsFree
<1>3. \A t \in Threads : pc[t] = "resume" => t # u /\ slot[t] # slot[u]
  BY <1>1 DEF IInv, Slotted, ActiveOk, Active, Works
<1>4. \A t \in Threads : t # u => pc'[t] = pc[t] /\ fiber'[t] = fiber[t] /\ code'[t] = code[t]
  BY <1>1 DEF Resume, IInv, TypeOK, ThreadsTyped
<1>5. pc'[u] = "resume" /\ fiber'[u] = f /\ code'[u] = f
  BY <1>1 DEF Resume, IInv, TypeOK, ThreadsTyped
<1>6. /\ former'[f] = slot[u] /\ fiberPool'[f] = pool[u] /\ status'[f] = "running" /\ ~ready'[f]
      /\ loop'[slot[u]] = u /\ running'[slot[u]] = f
  BY <1>1 DEF Resume, SwitchTo, IInv, TypeOK, TablesTyped, FibersTyped, ThreadsTyped
<1>7. \A g \in Fibers : g # f =>
        /\ former'[g] = former[g] /\ fiberPool'[g] = fiberPool[g]
        /\ status'[g] = status[g] /\ ready'[g] = ready[g]
  BY <1>1 DEF Resume, SwitchTo, IInv, TypeOK, FibersTyped
<1>8. \A i \in Ids : i # slot[u] => loop'[i] = loop[i] /\ running'[i] = running[i]
  BY <1>1 DEF Resume, SwitchTo, IInv, TypeOK, TablesTyped
<1>9. pool' = pool /\ slot' = slot /\ saved' = saved /\ blocking' = blocking
  BY DEF Resume
<1>10. CodeOk'
  BY <1>2, <1>4, <1>5, <1>6, <1>7 DEF IInv, Switched, CodeOk
<1>11. ResumeOk'
  <2> SUFFICES ASSUME NEW t \in Threads, pc'[t] = "resume" PROVE ResumeOk!(t)!2'
    BY DEF ResumeOk
  <2>1. CASE t = u
    BY <2>1, <1>1, <1>2, <1>4, <1>5, <1>6, <1>9, WorkersAssumption
  <2>2. CASE t # u
    <3>1. slot[t] \in Ids
      BY DEF IInv, TypeOK, ThreadsTyped
    <3> QED
      BY <2>2, <3>1, <1>2, <1>3, <1>4, <1>5, <1>7, <1>8, <1>9 DEF IInv, Switched, ResumeOk
  <2> QED
    BY <2>1, <2>2
<1>12. FibersOk'
  BY <1>1, <1>4, <1>9, WorkersAssumption DEF IInv, Switched, FibersOk
<1> QED
  BY <1>10, <1>11, <1>12 DEF Switched

LEMMA BackSwitched ==
  ASSUME IInv, NEW u \in Threads, Back(u) PROVE Switched'
<1>1. code[u] = u /\ pc[u] = "resume" /\ fiber[u] \in Fibers
  BY Dispatching DEF Back, IInv, Switched, ResumeOk
<1>2. \A t \in Threads : t # u /\ pc[t] = "resume" => fiber[t] # fiber[u]
  BY <1>1 DEF IInv, Switched, ResumeOk
<1>3. \A t \in Threads : IF t = u THEN pc'[t] = "loop" ELSE pc'[t] = pc[t]
  BY <1>1 DEF Back, IInv, TypeOK, ThreadsTyped
<1>4. \A g \in Fibers : g # fiber[u] => ready'[g] = ready[g]
  BY <1>1 DEF Back, IInv, TypeOK, FibersTyped
<1> USE DEF Back, tables, pools
<1>5. CodeOk'
  BY <1>1, <1>3 DEF IInv, Switched, CodeOk
<1>6. ResumeOk'
  BY <1>1, <1>2, <1>3, <1>4 DEF IInv, Switched, ResumeOk
<1>7. FibersOk'
  BY <1>1 DEF IInv, Switched, FibersOk
<1> QED
  BY <1>5, <1>6, <1>7 DEF Switched

\* The fiber goes back to its own dispatcher: by yield, block or at its end.
LEMMA LeaveSwitched ==
  ASSUME IInv, NEW u \in Threads, Runs(u), NEW s \in {"ended", "yielded", "blocked"},
         status' = [status EXCEPT ![code[u]] = s], code' = [code EXCEPT ![u] = u],
         saved' = [saved EXCEPT ![code[u]] = code[u]] \/ saved' = saved,
         blocking' = blocking \ {code[u]} \/ (blocking' = blocking /\ code[u] \notin blocking),
         UNCHANGED <<tables, ready, fiberPool, former, pc, pool, slot, fiber>>
  PROVE Switched'
<1>1. pc[u] = "resume" /\ fiber[u] = code[u] /\ code[u] \in Fibers /\ saved[code[u]] = code[u]
  BY Runner DEF Runs, IInv, Switched, FibersOk
<1>2. \A t \in Threads : t # u /\ pc[t] = "resume" => fiber[t] # code[u]
  BY <1>1 DEF IInv, Switched, ResumeOk
<1>3. \A g \in Fibers : IF g = code[u] THEN status'[g] = s ELSE status'[g] = status[g]
  BY <1>1 DEF IInv, TypeOK, FibersTyped
<1>4. \A t \in Threads : IF t = u THEN code'[t] = u ELSE code'[t] = code[t]
  BY <1>1 DEF IInv, TypeOK, ThreadsTyped
<1>5. saved' = saved
  BY <1>1 DEF IInv, TypeOK, FibersTyped
<1>6. CodeOk'
  BY <1>1, <1>2, <1>3, <1>4 DEF IInv, Switched, CodeOk
<1>7. ResumeOk'
  BY <1>1, <1>2, <1>3, <1>4 DEF IInv, Switched, ResumeOk, tables
<1>8. FibersOk'
  BY <1>1, <1>4, <1>5 DEF IInv, Switched, FibersOk
<1> QED
  BY <1>6, <1>7, <1>8 DEF Switched

LEMMA SwitchedStep == IInv /\ [Next]_vars => Switched'
<1> SUFFICES ASSUME IInv, [Next]_vars PROVE Switched'
  OBVIOUS
<1>0. ThreadsTyped
  BY DEF IInv, TypeOK
<1>1. ASSUME NEW u \in External, NEW p \in Pools, NEW n \in 0 .. MaxSpawned, NEW main \in BOOLEAN,
             Start(u, p, n, main)
      PROVE Switched'
  BY <1>0, <1>1, SwitchedKept DEF Start, tables, ThreadsTyped
<1>2. ASSUME NEW u \in External, NEW p \in Pools, NEW t \in Threads, Spawn(u, p, t)
      PROVE Switched'
  <2>1. \A v \in Threads : pc[v] = "resume" => slot[v] \in Ids /\ slot[v] # _fiber_worker_id
    BY <1>0, NotNext DEF Works, ThreadsTyped
  <2>2. \A v \in Threads : pc[v] = "resume" => running'[slot[v]] = running[slot[v]]
    BY <1>2, <2>1 DEF Spawn, TakeId, IInv, TypeOK, TablesTyped
  <2> QED
    BY <1>0, <1>2, <2>2, SwitchedKept DEF Spawn, TakeId, Call, ThreadsTyped
<1>3. ASSUME NEW u \in External, NEW p \in Pools, Spawned(u, p)
      PROVE Switched'
  <2>1. \A v \in Threads : pc[v] = "resume" => slot[v] \in Ids /\ slot[v] # _fiber_worker_id
    BY <1>0, NotNext DEF Works, ThreadsTyped
  <2>2. \A v \in Threads : pc[v] = "resume" => running'[slot[v]] = running[slot[v]]
    BY <1>3, <2>1 DEF Spawned, TakeId, IInv, TypeOK, TablesTyped
  <2> QED
    BY <1>0, <1>3, <2>2, SwitchedKept DEF Spawned, TakeId, Call, ThreadsTyped
<1>4. ASSUME NEW u \in External, NEW p \in Pools, Enable(u, p) \/ Join(u, p) \/ Destroy(u, p)
      PROVE Switched'
  BY <1>0, <1>4, SwitchedKept DEF Enable, Join, Destroy, tables, threads, ThreadsTyped
<1>5. ASSUME NEW p \in Pools, End(p)
      PROVE Switched'
  BY <1>5, SwitchedKept DEF End, tables, threads
<1>6. ASSUME NEW p \in Pools, NEW f \in Fibers, Reset(p, f)
      PROVE Switched'
  <2>1. \A t \in Threads : (pc[t] = "resume" => fiber[t] # f) /\ code[t] # f
    BY <1>6, ReadyIsFree DEF Reset, IInv, Placed, FreeOk
  <2>2. saved' = saved /\ \A g \in Fibers : g # f => status'[g] = status[g]
    BY <1>6 DEF Reset, IInv, Switched, FibersOk, TypeOK, FibersTyped
  <2> QED
    BY <1>6, <2>1, <2>2 DEF Reset, tables, threads, IInv, Switched, CodeOk, ResumeOk, FibersOk
<1>7. ASSUME NEW t \in Threads, Register(t)
      PROVE Switched'
  BY <1>0, <1>7, SwitchedKept DEF Register, ThreadsTyped
<1>8. ASSUME NEW u \in Threads, Exit(u)
      PROVE Switched'
  BY <1>0, <1>8, SwitchedKept DEF Exit, ThreadsTyped
<1>9. ASSUME NEW u \in Threads, NEW f \in Fibers, Resume(u, f)
      PROVE Switched'
  BY <1>9, ResumeSwitched
<1>10. ASSUME NEW u \in Threads, Back(u)
       PROVE Switched'
  BY <1>10, BackSwitched
<1>11. ASSUME NEW u \in Threads, Yield(u) \/ Block(u) \/ Finish(u)
       PROVE Switched'
  <2>1. Runs(u) /\ ThreadIndex(u) = slot[u] /\ ThisFiber(u) = code[u]
        /\ loop[slot[u]] = u /\ former[code[u]] = slot[u]
    BY <1>11, Runner DEF Yield, Block, Finish
  <2> QED
    BY <1>11, <2>1, LeaveSwitched DEF Yield, Block, Finish, SwitchBack
<1>12. ASSUME NEW u \in Threads, Wait(u)
       PROVE Switched'
  BY <1>12 DEF Wait, tables, threads, IInv, Switched, CodeOk, ResumeOk, FibersOk, Runs
<1>13. ASSUME NEW u \in Threads, NEW f \in Fibers, Unblock(u, f)
       PROVE Switched'
  BY <1>13, SwitchedKept DEF Unblock, tables, threads
<1>14. CASE UNCHANGED vars
  BY <1>14, SwitchedKept DEF vars, tables, threads
<1> QED
  BY <1>1, <1>2, <1>3, <1>4, <1>5, <1>6, <1>7, <1>8, <1>9, <1>10, <1>11, <1>12, <1>13, <1>14 DEF Next

-----------------------------------------------------------------------------
(* Placed *)

\* The steps that move no fiber.
LEMMA PlacedKept ==
  ASSUME IInv, UNCHANGED <<queues, ready, fiberPool>>, \A f \in Fibers : Held(f)' = Held(f),
         \A p \in Pools : phase[p] = "gone" => phase'[p] = "gone"
  PROVE Placed'
<1> USE DEF IInv, Placed, queues
<1>1. FreeOk'
  BY DEF FreeOk
<1>2. AwaitingOk'
  BY DEF AwaitingOk, TypeOK, FibersTyped
<1>3. WaitingOk'
  BY DEF WaitingOk, TypeOK, FibersTyped
<1>4. Somewhere'
  BY DEF Somewhere
<1> QED
  BY <1>1, <1>2, <1>3, <1>4

\* The steps outside of the fibers.
LEMMA HeldKept ==
  ASSUME UNCHANGED <<fibers, fiber>>, \A t \in Threads : pc'[t] = "resume" <=> pc[t] = "resume"
  PROVE \A f \in Fibers : Held(f)' = Held(f)
BY DEF Held, fibers

LEMMA ResetPlaced ==
  ASSUME IInv, NEW p \in Pools, NEW f \in Fibers, Reset(p, f) PROVE Placed'
<1> USE DEF IInv, Placed, Reset, pools, threads
<1>1. ready[f] /\ f \notin waiting /\ \A q \in Pools : f \notin awaiting[q] /\ (f \in free[q] => q = p)
  BY DEF FreeOk
<1>2. \A t \in Threads : pc[t] = "resume" => fiber[t] # f
  BY <1>1, ReadyIsFree
<1>3. \A g \in Fibers : Held(g)' = Held(g)
  BY <1>2 DEF Held, TypeOK, FibersTyped
<1>4. ~Held(f)
  BY <1>2 DEF Held
<1>5. \A q \in Pools : /\ free'[q] = free[q] \ {f}
                       /\ awaiting'[q] = IF q = p THEN awaiting[q] \cup {f} ELSE awaiting[q]
  BY <1>1 DEF TypeOK, FibersTyped
<1>6. \A q \in Pools : free[q] \subseteq Fibers /\ awaiting[q] \subseteq Fibers
  BY DEF TypeOK, FibersTyped
<1>7. FreeOk'
  BY <1>5 DEF FreeOk
<1>8. AwaitingOk'
  BY <1>1, <1>3, <1>4, <1>5, <1>6 DEF AwaitingOk
<1>9. WaitingOk'
  BY <1>3 DEF WaitingOk, TypeOK, FibersTyped
<1>10. Somewhere'
  BY <1>3, <1>5 DEF Somewhere
<1> QED
  BY <1>7, <1>8, <1>9, <1>10

LEMMA ResumePlaced ==
  ASSUME IInv, NEW u \in Threads, NEW f \in Fibers, Resume(u, f) PROVE Placed'
<1> USE DEF IInv, Placed
<1>1. code[u] = u /\ pc[u] = "loop" /\ ready[f] /\ f \in awaiting[pool[u]]
  BY Dispatching DEF Resume, Resumable
<1>2. pool[u] \in Pools
  BY <1>1 DEF Slotted, ActiveOk, Active, Works
<1>3. f \notin waiting /\ f \notin blocking /\ \A q \in Pools : f \in awaiting[q] => q = pool[u]
  BY <1>1, <1>2, ReadyIsFree DEF AwaitingOk
<1>4. \A q \in Pools : free'[q] = free[q] /\ awaiting'[q] = awaiting[q] \ {f} /\ f \notin free[q]
  BY <1>1, <1>2, <1>3 DEF Resume, TypeOK, FibersTyped, FreeOk
<1>5. \A t \in Threads : t # u => pc'[t] = pc[t] /\ fiber'[t] = fiber[t]
  BY <1>1 DEF Resume, TypeOK, ThreadsTyped
<1>6. pc'[u] = "resume" /\ fiber'[u] = f /\ status'[f] = "running"
  BY <1>1 DEF Resume, SwitchTo, TypeOK, ThreadsTyped, FibersTyped
<1>7. \A g \in Fibers : g # f => status'[g] = status[g] /\ ready'[g] = ready[g] /\ fiberPool'[g] = fiberPool[g]
  BY <1>1 DEF Resume, SwitchTo, TypeOK, FibersTyped
<1>8. waiting' = waiting /\ blocking' = blocking /\ phase' = phase
  BY DEF Resume, pools
<1>9. Held(f)' /\ \A g \in Fibers : g # f => Held(g)' = Held(g)
  BY <1>1, <1>3, <1>5, <1>6, <1>7, <1>8 DEF Held
<1>10. \A q \in Pools : free[q] \subseteq Fibers /\ awaiting[q] \subseteq Fibers
  BY DEF TypeOK, FibersTyped
<1>11. FreeOk'
  BY <1>4, <1>7, <1>8, <1>10 DEF FreeOk
<1>12. AwaitingOk'
  BY <1>4, <1>8, <1>9, <1>10 DEF AwaitingOk
<1>13. WaitingOk'
  BY <1>3, <1>7, <1>8, <1>9 DEF WaitingOk, TypeOK, FibersTyped
<1>14. Somewhere'
  BY <1>4, <1>8, <1>9 DEF Somewhere
<1> QED
  BY <1>11, <1>12, <1>13, <1>14

LEMMA BackPlaced ==
  ASSUME IInv, NEW u \in Threads, Back(u) PROVE Placed'
<1> DEFINE f == fiber[u]
<1> USE DEF IInv, Placed
<1>1. code[u] = u /\ pc[u] = "resume" /\ f \in Fibers /\ ~ready[f]
  BY Dispatching DEF Back, Switched, ResumeOk
<1>2. \A t \in Threads : t # u /\ pc[t] = "resume" => fiber[t] # f
  BY <1>1 DEF Switched, ResumeOk
<1>3. f \notin blocking /\ pool[u] \in Pools
  <2>1. \A t \in Threads : code[t] # f
    BY <1>1, <1>2, WorkersAssumption DEF Switched, CodeOk
  <2> QED
    BY <1>1, <2>1 DEF Switched, FibersOk, Slotted, ActiveOk, Active, Works
<1>4. \A t \in Threads : IF t = u THEN pc'[t] = "loop" ELSE pc'[t] = pc[t]
  BY <1>1 DEF Back, TypeOK, ThreadsTyped
<1>5. ready'[f] /\ \A g \in Fibers : g # f => ready'[g] = ready[g]
  BY <1>1 DEF Back, TypeOK, FibersTyped
<1>6. waiting' = waiting /\ UNCHANGED <<blocking, status, fiber, fiberPool, phase>>
  BY DEF Back, pools
<1>7. ~Held(f)' /\ \A g \in Fibers : g # f => Held(g)' = Held(g)
  BY <1>1, <1>2, <1>4, <1>6 DEF Held
<1>8. \A p \in Pools : free[p] \subseteq Fibers /\ awaiting[p] \subseteq Fibers /\ f \notin free[p]
  BY <1>1 DEF TypeOK, FibersTyped, FreeOk
<1>9. CASE status[f] = "blocked"
  <2>1. ~Held(f) /\ free' = free /\ awaiting' = awaiting
    BY <1>1, <1>2, <1>9 DEF Held, Back
  <2>2. FreeOk'
    BY <1>5, <1>6, <1>8, <2>1 DEF FreeOk
  <2>3. AwaitingOk' /\ WaitingOk'
    BY <1>6, <1>7, <1>8, <2>1 DEF AwaitingOk, WaitingOk, TypeOK, FibersTyped
  <2>4. Somewhere'
    BY <1>6, <1>7, <2>1 DEF Somewhere
  <2> QED
    BY <2>2, <2>3, <2>4
<1>10. CASE status[f] # "blocked"
  <2>1. Held(f)
    BY <1>1, <1>3, <1>10 DEF Held
  <2>2. f \notin waiting /\ \A p \in Pools : f \notin awaiting[p]
    BY <2>1 DEF AwaitingOk, WaitingOk
  <2>5. WaitingOk'
    BY <1>6, <1>7, <2>2 DEF WaitingOk, TypeOK, FibersTyped
  <2>3. CASE status[f] = "ended"
    <3>1. awaiting' = awaiting /\ \A p \in Pools : \A g : g \in free'[p] <=> g \in free[p] \/ (p = pool[u] /\ g = f)
      BY <1>1, <1>3, <2>3 DEF Back, TypeOK, FibersTyped
    <3>2. FreeOk'
      BY <1>5, <1>6, <1>8, <2>2, <3>1 DEF FreeOk
    <3>3. AwaitingOk'
      BY <1>6, <1>7, <1>8, <2>2, <3>1 DEF AwaitingOk
    <3>4. Somewhere'
      BY <1>3, <1>6, <1>7, <3>1 DEF Somewhere
    <3> QED
      BY <2>5, <3>2, <3>3, <3>4
  <2>4. CASE status[f] # "ended"
    <3>1. free' = free /\ \A p \in Pools : \A g : g \in awaiting'[p] <=> g \in awaiting[p] \/ (p = pool[u] /\ g = f)
      BY <1>1, <1>3, <1>10, <2>4 DEF Back, TypeOK, FibersTyped
    <3>2. FreeOk'
      <4> SUFFICES ASSUME NEW p \in Pools, NEW g \in free[p] PROVE FreeOk!(p)!(g)'
        BY <3>1 DEF FreeOk
      <4>1. g \in Fibers /\ g # f
        BY <1>8
      <4> QED
        BY <4>1, <1>5, <1>6, <3>1 DEF FreeOk
    <3>3. AwaitingOk'
      <4> SUFFICES ASSUME NEW p \in Pools, NEW g \in awaiting'[p] PROVE AwaitingOk!(p)!(g)'
        BY DEF AwaitingOk
      <4>1. CASE g = f
        BY <4>1, <1>6, <1>7, <2>2, <3>1
      <4>2. CASE g # f
        BY <4>2, <1>6, <1>7, <1>8, <3>1 DEF AwaitingOk
      <4> QED
        BY <4>1, <4>2
    <3>4. Somewhere'
      BY <1>3, <1>6, <1>7, <3>1 DEF Somewhere
    <3> QED
      BY <2>5, <3>2, <3>3, <3>4
  <2> QED
    BY <2>3, <2>4
<1> QED
  BY <1>9, <1>10

LEMMA LeaveHeld ==
  ASSUME IInv, NEW u \in Threads, Yield(u) \/ Block(u) \/ Finish(u)
  PROVE \A f \in Fibers : Held(f)' = Held(f)
<1>1. Runs(u) /\ ThisFiber(u) = code[u] /\ status[code[u]] = "running"
  BY Runner DEF Yield, Block, Finish
<1>2. \A f \in Fibers : f # code[u] => status'[f] = status[f] /\ (f \in blocking' <=> f \in blocking)
  BY <1>1 DEF Yield, Block, Finish, SwitchBack, IInv, TypeOK, FibersTyped
<1>3. code[u] \notin blocking' /\ (code[u] \notin blocking <=> status'[code[u]] # "blocked")
  BY <1>1 DEF Yield, Block, Finish, SwitchBack, IInv, TypeOK, FibersTyped, Runs
<1> QED
  BY <1>1, <1>2, <1>3 DEF Held, Yield, Block, Finish

LEMMA WaitPlaced ==
  ASSUME IInv, NEW u \in Threads, Wait(u) PROVE Placed'
<1> USE DEF IInv, Placed
<1>1. /\ code[u] \in Fibers /\ ThisFiber(u) = code[u] /\ code[u] \notin blocking
      /\ pc[u] = "resume" /\ fiber[u] = code[u] /\ status[code[u]] = "running"
  BY Runner DEF Wait, Runs
<1>2. Held(code[u]) /\ ~ready[code[u]] /\ fiberPool[code[u]] \in Pools
  BY <1>1 DEF Held, Switched, ResumeOk, Slotted, ActiveOk, Active, Works
<1>3. UNCHANGED <<free, awaiting, status, ready, fiberPool, pc, fiber, code, phase>>
  BY DEF Wait, threads, pools
<1>4. waiting' = waiting \cup {code[u]} /\ blocking' = blocking \cup {code[u]}
  BY <1>1 DEF Wait
<1>5. \A g \in Fibers : /\ g \in waiting' <=> g \in waiting \/ g = code[u]
                        /\ g \in blocking' <=> g \in blocking \/ g = code[u]
  BY <1>4
<1>6. waiting' \subseteq Fibers /\ \A p \in Pools : free[p] \subseteq Fibers /\ awaiting[p] \subseteq Fibers
  BY <1>1, <1>4 DEF TypeOK, FibersTyped
<1>7. ~Held(code[u])' /\ \A g \in Fibers : g # code[u] => Held(g)' = Held(g)
  BY <1>1, <1>3, <1>5 DEF Held
<1>8. \A p \in Pools : code[u] \notin free[p]
  BY <1>2 DEF FreeOk
<1>9. FreeOk'
  BY <1>3, <1>5, <1>8, <1>6 DEF FreeOk
<1>10. AwaitingOk'
  BY <1>2, <1>3, <1>5, <1>7, <1>6 DEF AwaitingOk
<1>11. WaitingOk'
  <2> SUFFICES ASSUME NEW g \in waiting' PROVE WaitingOk!(g)'
    BY DEF WaitingOk
  <2>1. CASE g = code[u]
    BY <2>1, <1>2, <1>3, <1>7
  <2>2. CASE g # code[u]
    BY <2>2, <1>3, <1>5, <1>7, <1>6 DEF WaitingOk
  <2> QED
    BY <2>1, <2>2
<1>12. Somewhere'
  BY <1>3, <1>5, <1>7 DEF Somewhere
<1> QED
  BY <1>9, <1>10, <1>11, <1>12

LEMMA UnblockPlaced ==
  ASSUME IInv, NEW u \in Threads, NEW f \in Fibers, Unblock(u, f) PROVE Placed'
<1> USE DEF IInv, Placed
<1>1. f \in waiting /\ ~Held(f) /\ fiberPool[f] \in Pools
  BY DEF Unblock, WaitingOk
<1>2. PICK p \in Pools : awaiting' = [awaiting EXCEPT ![p] = @ \cup {f}]
  BY <1>1 DEF Unblock
<1>3. \A q \in Pools : \A g : g \in awaiting'[q] <=> g \in awaiting[q] \/ (q = p /\ g = f)
  BY <1>2 DEF TypeOK, FibersTyped
<1>4. \A q \in Pools : f \notin awaiting[q] /\ f \notin free[q]
  BY <1>1 DEF FreeOk, AwaitingOk
<1>5. waiting' = waiting \ {f} /\ UNCHANGED <<free, ready, fiberPool, phase>>
  BY DEF Unblock, fibers, pools
<1>6. \A g \in Fibers : Held(g)' = Held(g)
  BY HeldKept DEF Unblock, threads
<1>a. \A q \in Pools : free[q] \subseteq Fibers /\ awaiting[q] \subseteq Fibers
  BY DEF TypeOK, FibersTyped
<1>7. FreeOk'
  BY <1>3, <1>4, <1>5, <1>a DEF FreeOk
<1>8. AwaitingOk'
  BY <1>1, <1>3, <1>4, <1>5, <1>6, <1>a DEF AwaitingOk
<1>b. WaitingOk'
  BY <1>5, <1>6 DEF WaitingOk, TypeOK, FibersTyped
<1>9. Somewhere'
  BY <1>2, <1>3, <1>5, <1>6 DEF Somewhere
<1> QED
  BY <1>7, <1>8, <1>9, <1>b

LEMMA PlacedStep == IInv /\ [Next]_vars => Placed'
<1> SUFFICES ASSUME IInv, [Next]_vars PROVE Placed'
  OBVIOUS
<1>0. ThreadsTyped /\ PoolsTyped
  BY DEF IInv, TypeOK
<1>1. ASSUME NEW u \in External, NEW p \in Pools, NEW n \in 0 .. MaxSpawned, NEW main \in BOOLEAN,
             Start(u, p, n, main)
      PROVE Placed'
  BY <1>0, <1>1, WorkersAssumption, HeldKept, PlacedKept DEF Start, fibers, ThreadsTyped, PoolsTyped
<1>2. ASSUME NEW u \in External, NEW p \in Pools, NEW t \in Threads, Spawn(u, p, t)
      PROVE Placed'
  BY <1>0, <1>2, HeldKept, PlacedKept DEF Spawn, Call, fibers, ThreadsTyped
<1>3. ASSUME NEW u \in External, NEW p \in Pools, Spawned(u, p)
      PROVE Placed'
  <2>1. \A t \in Threads : pc'[t] = "resume" <=> pc[t] = "resume"
    BY <1>0, <1>3 DEF Spawned, Call, ThreadsTyped
  <2>2. \A q \in Pools : phase[q] = "gone" => phase'[q] = "gone"
    BY <1>0, <1>3 DEF Spawned, PoolsTyped
  <2> QED
    BY <1>3, <2>1, <2>2, HeldKept, PlacedKept DEF Spawned, fibers
<1>4. ASSUME NEW u \in External, NEW p \in Pools, Enable(u, p)
      PROVE Placed'
  BY <1>4, HeldKept, PlacedKept DEF Enable, threads, pools, fibers
<1>5. ASSUME NEW u \in External, NEW p \in Pools, Join(u, p)
      PROVE Placed'
  BY <1>0, <1>5, HeldKept, PlacedKept DEF Join, fibers, ThreadsTyped, PoolsTyped
<1>6. ASSUME NEW u \in External, NEW p \in Pools, Destroy(u, p)
      PROVE Placed'
  <2>1. phase'[p] = "gone" /\ \A q \in Pools : free'[q] \subseteq free[q]
    BY <1>0, <1>6 DEF Destroy, PoolsTyped, IInv, TypeOK, FibersTyped
  <2>2. \A f \in Fibers : Held(f)' = Held(f)
    BY <1>6, HeldKept DEF Destroy, threads, fibers
  <2> QED
    BY <1>6, <2>1, <2>2 DEF Destroy, fibers, IInv, TypeOK, FibersTyped,
                            Placed, FreeOk, AwaitingOk, WaitingOk, Somewhere
<1>7. ASSUME NEW p \in Pools, End(p)
      PROVE Placed'
  BY <1>7, HeldKept, PlacedKept DEF End, threads, fibers
<1>8. ASSUME NEW p \in Pools, NEW f \in Fibers, Reset(p, f)
      PROVE Placed'
  BY <1>8, ResetPlaced
<1>9. ASSUME NEW t \in Threads, Register(t)
      PROVE Placed'
  BY <1>0, <1>9, HeldKept, PlacedKept DEF Register, pools, fibers, ThreadsTyped
<1>10. ASSUME NEW u \in Threads, Exit(u)
       PROVE Placed'
  BY <1>0, <1>10, HeldKept, PlacedKept DEF Exit, pools, fibers, ThreadsTyped
<1>11. ASSUME NEW u \in Threads, NEW f \in Fibers, Resume(u, f)
       PROVE Placed'
  BY <1>11, ResumePlaced
<1>12. ASSUME NEW u \in Threads, Back(u)
       PROVE Placed'
  BY <1>12, BackPlaced
<1>13. ASSUME NEW u \in Threads, Yield(u) \/ Block(u) \/ Finish(u)
       PROVE Placed'
  BY <1>13, LeaveHeld, PlacedKept DEF Yield, Block, Finish, pools
<1>14. ASSUME NEW u \in Threads, Wait(u)
       PROVE Placed'
  BY <1>14, WaitPlaced
<1>15. ASSUME NEW u \in Threads, NEW f \in Fibers, Unblock(u, f)
       PROVE Placed'
  BY <1>15, UnblockPlaced
<1>16. CASE UNCHANGED vars
  BY <1>16, HeldKept, PlacedKept DEF vars, threads, pools, fibers
<1> QED
  BY <1>1, <1>2, <1>3, <1>4, <1>5, <1>6, <1>7, <1>8, <1>9, <1>10, <1>11, <1>12, <1>13,
     <1>14, <1>15, <1>16 DEF Next

-----------------------------------------------------------------------------
(* The invariant and the properties *)

LEMMA SlottedStep == IInv /\ [Next]_vars => Slotted'
<1> SUFFICES ASSUME IInv, [Next]_vars PROVE Slotted'
  OBVIOUS
<1>0. ThreadsTyped
  BY DEF IInv, TypeOK
<1>1. ASSUME NEW u \in External, NEW p \in Pools, NEW n \in 0 .. MaxSpawned, NEW main \in BOOLEAN,
             Start(u, p, n, main)
      PROVE Slotted'
  BY <1>1, StartSlotted
<1>2. ASSUME NEW u \in External, NEW p \in Pools, NEW t \in Threads, Spawn(u, p, t)
      PROVE Slotted'
  BY <1>2, SpawnSlotted
<1>3. ASSUME NEW u \in External, NEW p \in Pools,
             Spawned(u, p) \/ Enable(u, p) \/ Join(u, p) \/ Destroy(u, p)
      PROVE Slotted'
  BY <1>3, SpawnedSlotted, EnableSlotted, JoinSlotted, DestroySlotted
<1>4. ASSUME NEW p \in Pools, End(p)
      PROVE Slotted'
  BY <1>4, SlottedKept DEF End, tables, threads
<1>5. ASSUME NEW p \in Pools, NEW f \in Fibers, Reset(p, f)
      PROVE Slotted'
  BY <1>5, SlottedKept DEF Reset, tables, pools, threads
<1>6. ASSUME NEW u \in Threads, Register(u) \/ Exit(u)
      PROVE Slotted'
  BY <1>6, RegisterSlotted, ExitSlotted
<1>7. ASSUME NEW u \in Threads, NEW f \in Fibers, Resume(u, f)
      PROVE Slotted'
  BY <1>0, <1>7, SlottedKept DEF Resume, SwitchTo, pools, ThreadsTyped
<1>8. ASSUME NEW u \in Threads, Back(u)
      PROVE Slotted'
  BY <1>0, <1>8, SlottedKept DEF Back, tables, pools, ThreadsTyped
<1>9. ASSUME NEW u \in Threads, Yield(u) \/ Wait(u) \/ Block(u) \/ Finish(u)
      PROVE Slotted'
  BY <1>9, SlottedKept DEF Yield, Wait, Block, Finish, tables, pools, threads
<1>10. ASSUME NEW u \in Threads, NEW f \in Fibers, Unblock(u, f)
       PROVE Slotted'
  BY <1>10, SlottedKept DEF Unblock, tables, pools, threads
<1>11. CASE UNCHANGED vars
  BY <1>11, SlottedKept DEF vars, tables, pools, threads
<1> QED
  BY <1>1, <1>2, <1>3, <1>4, <1>5, <1>6, <1>7, <1>8, <1>9, <1>10, <1>11 DEF Next

\* The invariant: fiber_pool.hpp, fiber_pool.cpp and fiber_base.hpp keep the tables, the
\* contexts and the queues consistent with one another.
THEOREM Invariant == Spec => []IInv
<1>1. IInv /\ [Next]_vars => IInv'
  BY TypeStep, SlottedStep, SwitchedStep, PlacedStep DEF IInv
<1> QED
  BY <1>1, InitIInv, PTL DEF Spec

\* thread_index (fiber_pool.cpp:77-90) finds the slot its caller was started with.
THEOREM ThreadIndexIsOwn == Spec => []IndexIsOwn
<1>1. IInv => IndexIsOwn
  BY OwnIndex DEF IndexIsOwn
<1> QED
  BY <1>1, Invariant, PTL

\* this_fiber (fiber_pool.cpp:37-40, fiber_pool.hpp:606-618) is the fiber that asks.
THEOREM ThisFiberIsTheCaller == Spec => []ThisFiberIsMe
<1>1. IInv => ThisFiberIsMe
  BY Runner DEF ThisFiberIsMe
<1> QED
  BY <1>1, Invariant, PTL

\* A fiber switches back to the dispatcher of the thread it runs on (fiber_pool.cpp:42-66,
\* fiber.hpp:150-159).
THEOREM ThreadKeepsItsLoop == Spec => []LoopIsOwn
<1>1. ASSUME IInv PROVE LoopIsOwn
  <2> SUFFICES ASSUME NEW u \in Threads PROVE LoopIsOwn!(u)
    BY DEF LoopIsOwn
  <2>1. CASE Runs(u)
    BY <1>1, <2>1, Runner
  <2>2. CASE ~Runs(u)
    BY <1>1, <2>2 DEF Runs, IInv, Switched, CodeOk
  <2> QED
    BY <2>1, <2>2
<1> QED
  BY <1>1, Invariant, PTL

\* The deletions of the dispatcher fibers (fiber_pool.hpp:271 and 583) are one per slot.
THEOREM OneDeletion == Spec => []DispatchersDieOnce
<1>1. ASSUME IInv PROVE DispatchersDieOnce
  <2>1. \A t \in Threads : Active(t) => dispatcher[slot[t]] = "alive" /\ pool[t] \in Pools
                                         /\ phase[pool[t]] # "gone"
    BY <1>1 DEF IInv, Slotted, ActiveOk
  <2>2. \A p \in Pools : MainOwned(p) => phase[p] # "gone"
    BY DEF MainOwned
  <2> QED
    BY <1>1, <2>1, <2>2 DEF DispatchersDieOnce, Active, IInv, Slotted, DispatchersOk
<1> QED
  BY <1>1, Invariant, PTL

\* A fiber is queued, waiting or executed, never two of them, in whatever pool.
THEOREM OnePlace == Spec => []FiberInOnePlace
<1>1. ASSUME IInv PROVE FiberInOnePlace
  <2> USE <1>1 DEF IInv, Placed
  <2>1. ASSUME NEW f \in Fibers PROVE \A x, y \in Places(f) : x = y
    <3>1. \A p \in Pools : f \in free[p] => /\ f \notin waiting /\ ~Held(f)
                                           /\ \A q \in Pools : f \notin awaiting[q] /\ (f \in free[q] => q = p)
      BY ReadyIsFree DEF FreeOk
    <3>2. \A p \in Pools : f \in awaiting[p] => /\ f \notin waiting /\ ~Held(f)
                                               /\ \A q \in Pools : f \in awaiting[q] => q = p
      BY DEF AwaitingOk
    <3>3. f \in waiting => ~Held(f)
      BY DEF WaitingOk
    <3> QED
      BY <3>1, <3>2, <3>3 DEF Places
  <2>2. ASSUME NEW f \in Fibers, Places(f) = {} PROVE \E p \in Pools : phase[p] = "gone"
    <3>1. f \notin waiting /\ ~Held(f) /\ \A p \in Pools : f \notin free[p] /\ f \notin awaiting[p]
      BY <2>2 DEF Places
    <3> QED
      BY <3>1 DEF Somewhere
  <2>3. \A u, v \in Threads : Runs(u) /\ code[u] = code[v] => u = v
    BY Runner DEF Switched, ResumeOk, Runs
  <2> QED
    BY <2>1, <2>2, <2>3 DEF FiberInOnePlace
<1> QED
  BY <1>1, Invariant, PTL
=============================================================================
