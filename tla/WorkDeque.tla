----------------------------- MODULE WorkDeque ------------------------------
(***************************************************************************)
(* What np::spmc_queue promises: the owner pushes and pops at one end, the *)
(* thieves take the oldest element at the other, and each element is       *)
(* handed out at most once.  A pop or steal that returns nothing is a      *)
(* stutter here.                                                           *)
(***************************************************************************)
EXTENDS Naturals, Sequences

CONSTANT Elements

VARIABLES
  items,   \* the queue, oldest element first
  taken    \* what pop and steal have returned

Range(s) == {s[i] : i \in DOMAIN s}

Init == items = <<>> /\ taken = {}

Push(e) ==
  /\ e \notin Range(items) \cup taken
  /\ items' = Append(items, e)
  /\ UNCHANGED taken

Pop ==
  /\ items # <<>>
  /\ items' = SubSeq(items, 1, Len(items) - 1)
  /\ taken' = taken \cup {items[Len(items)]}

Steal ==
  /\ items # <<>>
  /\ items' = Tail(items)
  /\ taken' = taken \cup {Head(items)}

Next == Pop \/ Steal \/ \E e \in Elements : Push(e)

Spec == Init /\ [][Next]_<<items, taken>>
=============================================================================
