---------------------------- MODULE MutexProofs ----------------------------
(***************************************************************************)
(* Machine-checked properties of Mutex, for every set of fibers: mutual    *)
(* exclusion whatever try_lock does, and, until a try_lock overwrites what *)
(* another fiber stored, that the mutex implements AbstractLock.           *)
(***************************************************************************)
EXTENDS Mutex, TLAPS

-----------------------------------------------------------------------------
(* Mutual exclusion *)

Exclusion == MutualExclusion /\ OwnerStatus /\ OneEntryPerCall

LEMMA NextTypeOK == TypeOK /\ [Next]_vars => TypeOK'
<1> SUFFICES ASSUME TypeOK, [Next]_vars PROVE TypeOK'
  OBVIOUS
<1> USE DEF TypeOK, Goto, PCs, Status
<1>1. ASSUME NEW f \in Fibers, CallLock(f) \/ Announce(f) \/ SeeUnlocked(f) \/ Take(f)
      PROVE  TypeOK'
  BY <1>1 DEF CallLock, Announce, SeeUnlocked, Take
<1>2. ASSUME NEW f \in Fibers, Enqueue(f) \/ StoreLocked(f) \/ Block(f) PROVE TypeOK'
  BY <1>2 DEF Enqueue, StoreLocked, Block
<1>3. ASSUME NEW f \in Fibers, TryLoad(f) \/ TryExchange(f) PROVE TypeOK'
  BY <1>3 DEF TryLoad, TryExchange
<1>4. ASSUME NEW f \in Fibers, Unlock(f) \/ Drained(f) \/ Open(f) PROVE TypeOK'
  BY <1>4 DEF Unlock, Drained, Open
<1>5. ASSUME NEW f \in Fibers, NEW g \in Fibers, Unblock(f, g) PROVE TypeOK'
  BY <1>5 DEF Unblock
<1>6. CASE UNCHANGED vars
  BY <1>6 DEF vars
<1> QED
  BY <1>1, <1>2, <1>3, <1>4, <1>5, <1>6, TryLockersAreFibers DEF Next, Step

LEMMA NextExclusion == TypeOK /\ Exclusion /\ [Next]_vars => Exclusion'
<1> SUFFICES ASSUME TypeOK, Exclusion, [Next]_vars PROVE Exclusion'
  OBVIOUS
<1> USE DEF TypeOK, Exclusion, MutualExclusion, OwnerStatus, OneEntryPerCall, Owner, Goto
<1>1. ASSUME NEW f \in Fibers, CallLock(f) PROVE Exclusion'
  BY <1>1 DEF CallLock
<1>2. ASSUME NEW f \in Fibers, Announce(f) PROVE Exclusion'
  BY <1>2 DEF Announce
<1>3. ASSUME NEW f \in Fibers, SeeUnlocked(f) PROVE Exclusion'
  BY <1>3 DEF SeeUnlocked
<1>4. ASSUME NEW f \in Fibers, Take(f) PROVE Exclusion'
  BY <1>4 DEF Take
<1>5. ASSUME NEW f \in Fibers, Enqueue(f) PROVE Exclusion'
  BY <1>5 DEF Enqueue
<1>6. ASSUME NEW f \in Fibers, StoreLocked(f) PROVE Exclusion'
  BY <1>6 DEF StoreLocked
<1>7. ASSUME NEW f \in Fibers, Block(f) PROVE Exclusion'
  BY <1>7 DEF Block
<1>8. ASSUME NEW f \in Fibers, TryLoad(f) PROVE Exclusion'
  BY <1>8 DEF TryLoad
<1>9. ASSUME NEW f \in Fibers, TryExchange(f) PROVE Exclusion'
  BY <1>9 DEF TryExchange
<1>10. ASSUME NEW f \in Fibers, Unlock(f) PROVE Exclusion'
  BY <1>10 DEF Unlock
<1>11. ASSUME NEW f \in Fibers, NEW g \in Fibers, Unblock(f, g) PROVE Exclusion'
  BY <1>11 DEF Unblock
<1>12. ASSUME NEW f \in Fibers, Drained(f) PROVE Exclusion'
  BY <1>12 DEF Drained
<1>13. ASSUME NEW f \in Fibers, Open(f) PROVE Exclusion'
  BY <1>13 DEF Open
<1>14. CASE UNCHANGED vars
  BY <1>14 DEF vars
<1> QED
  BY <1>1, <1>2, <1>3, <1>4, <1>5, <1>6, <1>7, <1>8, <1>9, <1>10, <1>11, <1>12, <1>13,
     <1>14, TryLockersAreFibers DEF Next, Step

LEMMA ExclusionInvariant == Spec => [](TypeOK /\ Exclusion)
<1>1. Init => TypeOK /\ Exclusion
  BY DEF Init, TypeOK, Status, PCs, Exclusion, MutualExclusion, OwnerStatus, OneEntryPerCall, Owner
<1> QED
  BY <1>1, NextTypeOK, NextExclusion, PTL DEF Spec

\* No two fibers have the mutex, even if try_lock overwrites adding_to_waitlist or
\* unlocking with locked.
THEOREM MutexExcludes == Spec => []MutualExclusion
<1>1. TypeOK /\ Exclusion => MutualExclusion
  BY DEF Exclusion
<1> QED
  BY <1>1, ExclusionInvariant, PTL

\* A fiber's entry in the waiting list is never duplicated nor left behind.
THEOREM EntriesAreUsedOnce == Spec => []OneEntryPerCall
<1>1. TypeOK /\ Exclusion => OneEntryPerCall
  BY DEF Exclusion
<1> QED
  BY <1>1, ExclusionInvariant, PTL

-----------------------------------------------------------------------------
(* Until a try_lock spoils the status *)

Full == (spoiled \/ Handshake) /\ OwnerWillWake /\ LockedHasOwner

LEMMA NextFull ==
  ASSUME TypeOK, Exclusion, Full, [Next]_vars PROVE Full'
<1> USE DEF TypeOK, Exclusion, MutualExclusion, OwnerStatus, OneEntryPerCall, Owner, Goto
<1> USE DEF Full, Handshake, OwnerWillWake, LockedHasOwner
<1>1. ASSUME NEW f \in Fibers, CallLock(f) PROVE Full'
  BY <1>1 DEF CallLock
<1>2. ASSUME NEW f \in Fibers, Announce(f) PROVE Full'
  BY <1>2 DEF Announce
<1>3. ASSUME NEW f \in Fibers, SeeUnlocked(f) PROVE Full'
  BY <1>3 DEF SeeUnlocked
<1>4. ASSUME NEW f \in Fibers, Take(f) PROVE Full'
  BY <1>4 DEF Take
<1>5. ASSUME NEW f \in Fibers, Enqueue(f) PROVE Full'
  BY <1>5 DEF Enqueue
<1>6. ASSUME NEW f \in Fibers, StoreLocked(f) PROVE Full'
  BY <1>6 DEF StoreLocked
<1>7. ASSUME NEW f \in Fibers, Block(f) PROVE Full'
  BY <1>7 DEF Block
<1>8. ASSUME NEW f \in Fibers, TryExchange(f) PROVE Full'
  BY <1>8 DEF TryExchange
<1>9. ASSUME NEW f \in Fibers, Unlock(f) PROVE Full'
  BY <1>9 DEF Unlock
<1>10. ASSUME NEW f \in Fibers, NEW g \in Fibers, Unblock(f, g) PROVE Full'
  BY <1>10 DEF Unblock
<1>11. ASSUME NEW f \in Fibers, Drained(f) PROVE Full'
  BY <1>11 DEF Drained
<1>12. ASSUME NEW f \in Fibers, Open(f) PROVE Full'
  BY <1>12 DEF Open
<1>13. ASSUME NEW f \in Fibers, TryLoad(f) PROVE Full'
  BY <1>13 DEF TryLoad
<1>14. CASE UNCHANGED vars
  BY <1>14 DEF vars
<1> QED
  BY <1>1, <1>2, <1>3, <1>4, <1>5, <1>6, <1>7, <1>8, <1>9, <1>10, <1>11, <1>12, <1>13,
     <1>14, TryLockersAreFibers DEF Next, Step

LEMMA FullInvariant == Spec => [](TypeOK /\ Exclusion /\ Full)
<1>1. Init => Full
  BY DEF Init, Full, Handshake, OwnerWillWake, LockedHasOwner
<1>2. TypeOK /\ Exclusion /\ Full /\ [Next]_vars => Full'
  BY NextFull
<1> QED
  BY <1>1, <1>2, ExclusionInvariant, PTL DEF Spec

\* Until a try_lock spoils it, whoever is in the waiting list has an owner that will take
\* it out.
THEOREM OwnersWake == Spec => []OwnerWillWake
<1>1. TypeOK /\ Exclusion /\ Full => OwnerWillWake
  BY DEF Full
<1> QED
  BY <1>1, FullInvariant, PTL

\* A mutex nobody can take has somebody to give it back.
THEOREM LockedIsOwned == Spec => []LockedHasOwner
<1>1. TypeOK /\ Exclusion /\ Full => LockedHasOwner
  BY DEF Full
<1> QED
  BY <1>1, FullInvariant, PTL

LEMMA StepImplements ==
  ASSUME TypeOK, Exclusion, Full, [Next]_vars
  PROVE  [Contract!Next \/ spoiled']_(Contract!vars)
<1> SUFFICES ASSUME ~spoiled' PROVE [Contract!Next]_(Contract!vars)
  OBVIOUS
<1> USE DEF TypeOK, Exclusion, MutualExclusion, OwnerStatus, OneEntryPerCall, Owner, Goto
<1> USE DEF Full, Handshake, OwnerWillWake, LockedHasOwner, Asleep, Contract!vars
<1>1. ASSUME NEW f \in Fibers, CallLock(f) \/ SeeUnlocked(f) PROVE UNCHANGED Contract!vars
  BY <1>1 DEF CallLock, SeeUnlocked
<1>2. ASSUME NEW f \in Fibers, Announce(f) PROVE Contract!Sleep(f)
  BY <1>2 DEF Announce, Contract!Sleep
<1>3. ASSUME NEW f \in Fibers, Take(f) PROVE Contract!Acquire(f) \/ UNCHANGED Contract!vars
  BY <1>3 DEF Take, Contract!Acquire
<1>4. ASSUME NEW f \in Fibers, Enqueue(f) \/ StoreLocked(f) \/ Block(f)
      PROVE  UNCHANGED Contract!vars
  BY <1>4 DEF Enqueue, StoreLocked, Block
<1>5. ASSUME NEW f \in Fibers, TryLoad(f) \/ TryExchange(f)
      PROVE  Contract!Acquire(f) \/ UNCHANGED Contract!vars
  BY <1>5 DEF TryLoad, TryExchange, Contract!Acquire
<1>6. ASSUME NEW f \in Fibers, Unlock(f) \/ Drained(f) PROVE UNCHANGED Contract!vars
  BY <1>6 DEF Unlock, Drained
<1>7. ASSUME NEW f \in Fibers, NEW g \in Fibers, Unblock(f, g) PROVE Contract!Wake(g)
  BY <1>7 DEF Unblock, Contract!Wake
<1>8. ASSUME NEW f \in Fibers, Open(f) PROVE Contract!Release(f)
  BY <1>8 DEF Open, Contract!Release
<1>9. CASE UNCHANGED vars
  BY <1>9 DEF vars
<1> QED
  BY <1>1, <1>2, <1>3, <1>4, <1>5, <1>6, <1>7, <1>8, <1>9, TryLockersAreFibers DEF Next, Step, Contract!Next

\* Until a try_lock spoils it, the mutex implements the abstract lock.
THEOREM MutexImplementsLock == Spec => Implements
<1>1. Init => Contract!Init
  BY DEF Init, Contract!Init, Owner, Asleep
<1>2. TypeOK /\ Exclusion /\ Full /\ [Next]_vars => [Contract!Next \/ spoiled']_(Contract!vars)
  BY StepImplements
<1> QED
  BY <1>1, <1>2, FullInvariant, PTL DEF Spec, Implements
=============================================================================
