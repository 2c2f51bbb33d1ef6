------------------------------ MODULE Monitor -------------------------------
(***************************************************************************)
(* A np::mutex and the np::condition_variable used with it                 *)
(* (synchronization/condition_variable.cpp), for modules of their users.   *)
(* The mutex is taken at its contract (AbstractLock); the condition        *)
(* variable is only used by the owner of the mutex, so that a call of      *)
(* notify_all and what follows it up to the unlock are one step.           *)
(***************************************************************************)
CONSTANT None   \* no fiber

VARIABLES
  owner,     \* the fiber that has the mutex, or None
  waiting,   \* _waiting_fibers
  woken      \* the fibers unblock was called for that have not left block yet

monitor == <<owner, waiting, woken>>

MonitorInit == owner = None /\ waiting = {} /\ woken = {}

\* mutex::lock returns.
LockBy(f) == owner = None /\ owner' = f /\ UNCHANGED <<waiting, woken>>

\* mutex::unlock
UnlockBy(f) == owner = f /\ owner' = None /\ UNCHANGED <<waiting, woken>>

\* condition_variable::wait up to block.
WaitBy(f) ==
  /\ owner = f /\ owner' = None
  /\ waiting' = waiting \cup {f}
  /\ UNCHANGED woken

\* block returns; the fiber locks the mutex next.
WokenBy(f) == f \in woken /\ woken' = woken \ {f} /\ UNCHANGED <<owner, waiting>>

\* condition_variable::notify_all and mutex::unlock
NotifyAllBy(f) ==
  /\ owner = f /\ owner' = None
  /\ waiting' = {} /\ woken' = woken \cup waiting
=============================================================================
