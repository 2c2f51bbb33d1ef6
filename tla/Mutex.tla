------------------------------- MODULE Mutex -------------------------------
(***************************************************************************)
(* np::mutex (synchronization/mutex.hpp, mutex.cpp) as fibers of a pool    *)
(* use it.  An action is one access to the mutex.  A failed compare-and-   *)
(* exchange that the code repeats changes nothing and is a disabled action *)
(* here.  The pool is taken at its contract (TaskScheduler): a fiber that  *)
(* blocks runs again once it has been unblocked, be it before it blocked.  *)
(***************************************************************************)
CONSTANTS
  Fibers,      \* the fibers that use the mutex
  TryLockers   \* those that also call try_lock

ASSUME TryLockersAreFibers == TryLockers \subseteq Fibers

VARIABLES
  status,    \* _status
  waiting,   \* _waiting_fibers
  woken,     \* the fibers unblock was called for and that have not resumed
  pc,        \* of a fiber: where it is in lock, try_lock or unlock
  spoiled    \* history: whether a try_lock has overwritten what another fiber stored

vars == <<status, waiting, woken, pc, spoiled>>

Status == {"unlocked", "unlocking", "locked", "adding_to_waitlist"}
PCs == {"idle", "lock", "take", "enqueue", "store", "block", "try", "cs", "drain", "open"}

Goto(f, from, to) == pc[f] = from /\ pc' = [pc EXCEPT ![f] = to]

Init ==
  /\ status = "unlocked" /\ waiting = {} /\ woken = {}
  /\ pc = [f \in Fibers |-> "idle"] /\ spoiled = FALSE

-----------------------------------------------------------------------------
(* Faulty variants of the steps below, one for each property at the end of *)
(* the module, which must catch it.  Next uses none of them.               *)

\* unlock reads the waiting list without taking the fiber out.
UnblockAndKeep(f, g) ==
  /\ pc[f] = "drain" /\ g \in waiting
  /\ woken' = woken \cup {g}
  /\ UNCHANGED <<status, waiting, pc, spoiled>>

\* The second compare-and-exchange is a plain store.
TakeByStore(f) ==
  /\ Goto(f, "take", "cs")
  /\ status' = "locked"
  /\ UNCHANGED <<waiting, woken, spoiled>>

\* A fiber that is about to enqueue itself does not keep unlock away.
AnnounceNothing(f) ==
  /\ status = "locked" /\ Goto(f, "lock", "enqueue")
  /\ UNCHANGED <<status, waiting, woken, spoiled>>

\* unlock wakes nobody.
DrainNobody(f) ==
  /\ Goto(f, "drain", "open")
  /\ UNCHANGED <<status, waiting, woken, spoiled>>

\* The second compare-and-exchange still expects locked.
TakeExpectingLocked(f) ==
  /\ Goto(f, "take", "lock")
  /\ UNCHANGED <<status, waiting, woken, spoiled>>

-----------------------------------------------------------------------------
(* lock *)

CallLock(f) ==
  /\ Goto(f, "idle", "lock")
  /\ UNCHANGED <<status, waiting, woken, spoiled>>

\* locked -> adding_to_waitlist
Announce(f) ==
  /\ status = "locked" /\ Goto(f, "lock", "enqueue")
  /\ status' = "adding_to_waitlist"
  /\ UNCHANGED <<waiting, woken, spoiled>>

SeeUnlocked(f) ==
  /\ status = "unlocked" /\ Goto(f, "lock", "take")
  /\ UNCHANGED <<status, waiting, woken, spoiled>>

\* unlocked -> locked
Take(f) ==
  \/ /\ status = "unlocked" /\ Goto(f, "take", "cs")
     /\ status' = "locked"
     /\ UNCHANGED <<waiting, woken, spoiled>>
  \/ /\ status # "unlocked" /\ Goto(f, "take", "lock")
     /\ UNCHANGED <<status, waiting, woken, spoiled>>

Enqueue(f) ==
  /\ Goto(f, "enqueue", "store")
  /\ waiting' = waiting \cup {f}
  /\ UNCHANGED <<status, woken, spoiled>>

StoreLocked(f) ==
  /\ Goto(f, "store", "block")
  /\ status' = "locked"
  /\ UNCHANGED <<waiting, woken, spoiled>>

\* block returns once the fiber has been unblocked; lock then starts over.
Block(f) ==
  /\ f \in woken /\ Goto(f, "block", "lock")
  /\ woken' = woken \ {f}
  /\ UNCHANGED <<status, waiting, spoiled>>

-----------------------------------------------------------------------------
(* try_lock *)

TryLoad(f) ==
  /\ status = "unlocked" /\ Goto(f, "idle", "try")
  /\ UNCHANGED <<status, waiting, woken, spoiled>>

\* exchange stores locked whatever it finds, which lets unlock pass a fiber that is
\* enqueueing itself, and a fiber enqueue itself while unlock is at work.
TryExchange(f) ==
  /\ Goto(f, "try", IF status = "unlocked" THEN "cs" ELSE "idle")
  /\ status' = "locked"
  /\ spoiled' = (spoiled \/ status \in {"adding_to_waitlist", "unlocking"})
  /\ UNCHANGED <<waiting, woken>>

-----------------------------------------------------------------------------
(* unlock, called by the fiber that has the lock *)

\* locked -> unlocking
Unlock(f) ==
  /\ status = "locked" /\ Goto(f, "cs", "drain")
  /\ status' = "unlocking"
  /\ UNCHANGED <<waiting, woken, spoiled>>

Unblock(f, g) ==
  /\ pc[f] = "drain" /\ g \in waiting
  /\ waiting' = waiting \ {g}
  /\ woken' = woken \cup {g}
  /\ UNCHANGED <<status, pc, spoiled>>

Drained(f) ==
  /\ waiting = {} /\ Goto(f, "drain", "open")
  /\ UNCHANGED <<status, waiting, woken, spoiled>>

Open(f) ==
  /\ Goto(f, "open", "idle")
  /\ status' = "unlocked"
  /\ UNCHANGED <<waiting, woken, spoiled>>

-----------------------------------------------------------------------------
Step(f) ==
  \/ Announce(f) \/ SeeUnlocked(f) \/ Take(f) \/ Enqueue(f) \/ StoreLocked(f) \/ Block(f)
  \/ TryExchange(f)
  \/ Unlock(f) \/ Drained(f) \/ Open(f) \/ \E g \in Fibers : Unblock(f, g)

Next ==
  \/ \E f \in Fibers : CallLock(f) \/ Step(f)
  \/ \E f \in TryLockers : TryLoad(f)

Spec == Init /\ [][Next]_vars

-----------------------------------------------------------------------------
(* Safety *)

\* Every variable has its type.
TypeOK ==
  /\ status \in Status
  /\ waiting \subseteq Fibers /\ woken \subseteq Fibers
  /\ pc \in [Fibers -> PCs] /\ spoiled \in BOOLEAN

\* The fibers between a successful exchange to locked and the store of unlocked.
Owner(f) == pc[f] \in {"cs", "drain", "open"}

\* At most one fiber has the mutex (the counters of main.cpp:114 rely on it), whatever
\* try_lock does to the status of a mutex it does not get.
MutualExclusion == \A f, g \in Fibers : Owner(f) /\ Owner(g) => f = g

\* A fiber's entry in the waiting list is there once, is used up by one unblock, and
\* never outlives the call of lock that made it.
OneEntryPerCall ==
  /\ waiting \cap woken = {}
  /\ \A f \in waiting \cup woken : pc[f] \in {"store", "block"}

\* Whoever is in the waiting list has an owner that will take it out: "Unblock all
\* waiting fibers" (mutex.cpp:92).
OwnerWillWake == waiting # {} => spoiled \/ \E f \in Fibers : pc[f] \in {"cs", "drain"}

\* A mutex that is not unlocked has an owner: locked can only be left by its owner.
LockedHasOwner == status # "unlocked" => spoiled \/ \E f \in Fibers : Owner(f)

\* The strengthening that makes MutualExclusion inductive.
OwnerStatus ==
  \A f \in Fibers :
    /\ pc[f] = "cs" => status \in {"locked", "adding_to_waitlist"}
    /\ pc[f] \in {"drain", "open"} => status # "unlocked"

\* And the one for the contract, until try_lock spoils it: the status says what the owner
\* is doing and whether a fiber is enqueueing itself.
Handshake ==
  /\ \A f \in Fibers : pc[f] \in {"drain", "open"} => status = "unlocking"
  /\ \A f \in Fibers : pc[f] \in {"enqueue", "store"} => status = "adding_to_waitlist"
  /\ \A f, g \in Fibers : pc[f] \in {"enqueue", "store"} /\ pc[g] \in {"enqueue", "store"} => f = g
  /\ \A f \in Fibers : pc[f] \in {"store", "block"} => f \in waiting \cup woken
  /\ \A f \in Fibers : pc[f] = "open" => waiting = {}
  /\ status = "unlocking" => \E f \in Fibers : pc[f] \in {"drain", "open"}

-----------------------------------------------------------------------------
(* The contract.  A fiber counts as asleep from its announcement on.       *)

Asleep(f) == pc[f] \in {"enqueue", "store", "block"} /\ f \notin woken

Contract == INSTANCE AbstractLock WITH
  owners <- {f \in Fibers : Owner(f)},
  asleep <- {f \in Fibers : Asleep(f)}

\* Until a try_lock overwrites what another fiber stored, the mutex implements the lock its
\* users rely on: no owner leaves while a fiber is asleep, and none falls asleep without one.
Implements == Contract!Init /\ [][Contract!Next \/ spoiled']_(Contract!vars)

-----------------------------------------------------------------------------
(* Liveness.  Fibers keep running and critical sections end.               *)

FairSpec == Spec /\ \A f \in Fibers : WF_vars(Step(f))

\* A fiber that blocks in lock is woken and tries again.
WaiterWoken == \A f \in Fibers : pc[f] = "block" ~> pc[f] = "lock" \/ spoiled

\* If somebody wants the mutex, somebody gets it.
LockProgress ==
  (\E f \in Fibers : pc[f] \in {"lock", "take"}) ~> (\E f \in Fibers : pc[f] = "cs") \/ spoiled
=============================================================================
