----------------------------- MODULE Rendezvous -----------------------------
(***************************************************************************)
(* The barriers and the spinlock at work: a fiber starts tasks that meet   *)
(* at a np::barrier, may use a np::spinlock, and then decrease the         *)
(* np::one_way_barrier the fiber waits for.  When its wait has returned    *)
(* nobody uses any of them, and it may reset the barriers and start over.  *)
(***************************************************************************)
EXTENDS OneWayBarrier

CONSTANTS Size, CountMax,   \* of Barrier
          IgnoreResult      \* of SpinLock

VARIABLES waiting, list, woken, bpc,   \* bpc: pc of Barrier
          lock, spc                    \* spc: pc of SpinLock

B == INSTANCE Barrier WITH Fibers <- Tasks, pc <- bpc
S == INSTANCE SpinLock WITH Threads <- Tasks, pc <- spc

ASSUME RendezvousAssumption ==
  /\ Size + 1 = Cardinality(Tasks)
  /\ CountMax \in Nat \ {0} /\ Size \in 0 .. CountMax

barrier == <<waiting, list, woken, bpc>>
spinlock == <<lock, spc>>
program == <<vars, barrier, spinlock>>

ProgramInit == Init /\ B!Init /\ S!Init

-----------------------------------------------------------------------------
\* A task that has been started arrives at the barrier, and passes it.
Meet(k) == pc[k] = "work" /\ B!Step(k) /\ UNCHANGED <<vars, spinlock>>

\* Then it may ask for the lock, as often as it likes,
Ask(k) ==
  /\ pc[k] = "work" /\ bpc[k] = "passed"
  /\ S!CallLock(k) \/ S!TryLoad(k) \/ S!SpinTimesOut(k)
  /\ UNCHANGED <<vars, barrier>>

Lock(k) == S!Step(k) /\ UNCHANGED <<vars, barrier>>

\* and when it has no lock it may decrease the one way barrier.
GoOn(k) ==
  /\ pc[k] = "work" => bpc[k] = "passed" /\ spc[k] = "idle"
  /\ TaskStep(k) /\ UNCHANGED <<barrier, spinlock>>

StarterStep ==
  \/ (\E k \in Tasks : Push(k)) /\ UNCHANGED <<barrier, spinlock>>
  \/ WaiterStep /\ UNCHANGED <<barrier, spinlock>>
  \/ Reset /\ B!Reset /\ UNCHANGED spinlock

ProgramFinished == Finished /\ UNCHANGED program

ProgramNext ==
  ProgramFinished \/ StarterStep \/ \E k \in Tasks : Meet(k) \/ Ask(k) \/ Lock(k) \/ GoOn(k)

ProgramSpec == ProgramInit /\ [][ProgramNext]_program

\* Fibers keep running, and no task uses the lock for ever.
ProgramFairSpec ==
  /\ ProgramSpec /\ WF_program(StarterStep)
  /\ \A k \in Tasks : WF_program(Meet(k)) /\ WF_program(Lock(k)) /\ SF_program(GoOn(k))

-----------------------------------------------------------------------------
(* The properties of the barrier and of the spinlock, in this program *)

PassTogether == B!PassTogether
NobodyStranded == B!NobodyStranded
Implements == S!Implements
=============================================================================
