--------------------------- MODULE AbstractLock ----------------------------
(***************************************************************************)
(* What np::mutex promises the fibers that use it: one owner at a time;    *)
(* a fiber falls asleep only while there is an owner to wake it, and an    *)
(* owner that releases the lock leaves nobody asleep.  Who gets the lock   *)
(* next is open: the fibers that were woken compete with newcomers.        *)
(***************************************************************************)
CONSTANT Fibers   \* the fibers that use the lock

VARIABLES
  owners,   \* the fiber that has the lock, as a set: empty while it is free
  asleep    \* the fibers that wait for it without running

vars == <<owners, asleep>>

Init == owners = {} /\ asleep = {}

Acquire(f) ==
  /\ owners = {} /\ f \notin asleep
  /\ owners' = {f}
  /\ UNCHANGED asleep

Sleep(f) ==
  /\ owners \notin {{}, {f}} /\ f \notin asleep
  /\ asleep' = asleep \cup {f}
  /\ UNCHANGED owners

Wake(f) ==
  /\ owners # {} /\ f \in asleep
  /\ asleep' = asleep \ {f}
  /\ UNCHANGED owners

Release(f) ==
  /\ owners = {f} /\ asleep = {}
  /\ owners' = {}
  /\ UNCHANGED asleep

Next == \E f \in Fibers : Acquire(f) \/ Sleep(f) \/ Wake(f) \/ Release(f)

Spec == Init /\ [][Next]_vars
=============================================================================
