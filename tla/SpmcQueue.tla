----------------------------- MODULE SpmcQueue ------------------------------
(***************************************************************************)
(* np::spmc_queue (container/spmc_queue.hpp): one owner that pushes and    *)
(* pops, any number of thieves, no locks.  An action is one access to      *)
(* top_, bottom_, array_ or a slot another thread may access; the fences   *)
(* of the code are taken to make these accesses sequentially consistent.   *)
(* A failed assertion does not stop the program here, as with NDEBUG.      *)
(***************************************************************************)
EXTENDS Naturals, Sequences

CONSTANTS
  Thieves,    \* the threads that call steal
  Capacity,   \* of the first array
  Pushes,     \* bound on the number of calls of push
  SizeMax,    \* the largest size_t
  PopFresh    \* whether the owner pops from a queue it has never pushed to

ASSUME ConstantsAssumption ==
  /\ Capacity \in Nat \ {0} /\ Pushes \in Nat
  /\ SizeMax \in Nat /\ SizeMax > Pushes
  /\ PopFresh \in BOOLEAN

VARIABLES
  top, bottom,   \* top_, bottom_
  arrays,        \* all arrays in order of creation: the last is array_
  pushed,        \* the elements pushed so far are 1..pushed
  taken,         \* how often each element has been returned by pop or steal
  opc, seen,     \* of the owner: its place, and the top push has loaded
  pc, t, a, x    \* of a thief: its place and its locals top, a and ctx

owner == <<opc, seen>>
thief == <<pc, t, a, x>>
vars == <<top, bottom, arrays, pushed, taken, owner, thief>>

Elements == 1 .. Pushes
Null == 0
SizeT == 0 .. SizeMax
Plus(i, j) == (i + j) % (SizeMax + 1)
Minus(i, j) == (i + SizeMax + 1 - j) % (SizeMax + 1)

Current == Len(arrays)
At(n, i) == arrays[n].storage[i % arrays[n].capacity]

Goto(p, from, to) == pc[p] = from /\ pc' = [pc EXCEPT ![p] = to]
OwnerGoto(from, to) == opc = from /\ opc' = to
Return(e) == taken' = [taken EXCEPT ![e] = @ + 1]

Full == arrays[Current].capacity - 1 < Minus(bottom, seen)

\* The new array is complete before a thief can see it.
ResizedFrom(first) ==
  LET live == {i \in SizeT : first <= i /\ i < bottom}
      new == 2 * arrays[Current].capacity
  IN [capacity |-> new,
      storage |-> [j \in 0 .. new - 1 |->
                     IF \E i \in live : i % new = j
                     THEN At(Current, CHOOSE i \in live : i % new = j) ELSE Null]]

Init ==
  /\ top = 0 /\ bottom = 0
  /\ arrays = <<[capacity |-> Capacity, storage |-> [j \in 0 .. Capacity - 1 |-> Null]]>>
  /\ pushed = 0 /\ taken = [e \in Elements \cup {Null} |-> 0]
  /\ opc = "idle" /\ seen = 0
  /\ pc = [p \in Thieves |-> "idle"]
  /\ t = [p \in Thieves |-> 0] /\ a = [p \in Thieves |-> 1]
  /\ x = [p \in Thieves |-> Null]

-----------------------------------------------------------------------------
(* Faulty variants of the steps below, one for each property at the end of *)
(* the module, which must catch it.  Next uses none of them.               *)

\* The oldest element is not copied to the larger array.
ResizeFromNext ==
  /\ Full /\ OwnerGoto("push", "write")
  /\ arrays' = Append(arrays, ResizedFrom(seen + 1))
  /\ UNCHANGED <<top, bottom, pushed, taken, seen, thief>>

\* pop takes the last element without racing for it.
FindAny ==
  /\ top <= bottom /\ OwnerGoto("look", "idle")
  /\ Return(At(Current, bottom))
  /\ UNCHANGED <<top, bottom, arrays, pushed, seen, thief>>

\* steal stores top + 1 without comparing.
StealByStore(p) ==
  /\ Goto(p, "cas", "idle")
  /\ top' = t[p] + 1
  /\ Return(x[p])
  /\ UNCHANGED <<bottom, arrays, pushed, owner, t, a, x>>

-----------------------------------------------------------------------------
(* push *)

PushLoad ==
  /\ pushed < Pushes /\ OwnerGoto("idle", "push")
  /\ seen' = top
  /\ UNCHANGED <<top, bottom, arrays, pushed, taken, thief>>

Resize ==
  /\ Full /\ OwnerGoto("push", "write")
  /\ arrays' = Append(arrays, ResizedFrom(seen))
  /\ UNCHANGED <<top, bottom, pushed, taken, seen, thief>>

Write ==
  /\ opc = "write" \/ (opc = "push" /\ ~Full)
  /\ opc' = "publish"
  /\ arrays' = [arrays EXCEPT
                  ![Current].storage[bottom % arrays[Current].capacity] = pushed + 1]
  /\ UNCHANGED <<top, bottom, pushed, taken, seen, thief>>

Publish ==
  /\ OwnerGoto("publish", "idle")
  /\ bottom' = Plus(bottom, 1)
  /\ pushed' = pushed + 1
  /\ seen' = 0
  /\ UNCHANGED <<top, arrays, taken, thief>>

-----------------------------------------------------------------------------
(* pop *)

Claim ==
  /\ pushed > 0 \/ PopFresh
  /\ OwnerGoto("idle", "look")
  /\ bottom' = Minus(bottom, 1)
  /\ UNCHANGED <<top, arrays, pushed, taken, seen, thief>>

FindEmpty ==
  /\ top > bottom /\ OwnerGoto("look", "restore")
  /\ UNCHANGED <<top, bottom, arrays, pushed, taken, seen, thief>>

FindMany ==
  /\ top < bottom /\ OwnerGoto("look", "idle")
  /\ Return(At(Current, bottom))
  /\ UNCHANGED <<top, bottom, arrays, pushed, seen, thief>>

FindLast ==
  /\ top = bottom /\ OwnerGoto("look", "race")
  /\ UNCHANGED <<top, bottom, arrays, pushed, taken, seen, thief>>

Race ==
  /\ OwnerGoto("race", "restore")
  /\ \/ /\ top = bottom
        /\ top' = top + 1
        /\ Return(At(Current, bottom))
     \/ /\ top # bottom
        /\ UNCHANGED <<top, taken>>
  /\ UNCHANGED <<bottom, arrays, pushed, seen, thief>>

Restore ==
  /\ OwnerGoto("restore", "idle")
  /\ bottom' = Plus(bottom, 1)
  /\ UNCHANGED <<top, arrays, pushed, taken, seen, thief>>

-----------------------------------------------------------------------------
(* steal *)

LoadTop(p) ==
  /\ Goto(p, "idle", "bottom")
  /\ t' = [t EXCEPT ![p] = top]
  /\ UNCHANGED <<top, bottom, arrays, pushed, taken, owner, a, x>>

LoadBottom(p) ==
  /\ Goto(p, "bottom", IF t[p] < bottom THEN "array" ELSE "idle")
  /\ UNCHANGED <<top, bottom, arrays, pushed, taken, owner, t, a, x>>

LoadArray(p) ==
  /\ Goto(p, "array", "slot")
  /\ a' = [a EXCEPT ![p] = Current]
  /\ UNCHANGED <<top, bottom, arrays, pushed, taken, owner, t, x>>

LoadSlot(p) ==
  /\ Goto(p, "slot", "cas")
  /\ x' = [x EXCEPT ![p] = At(a[p], t[p])]
  /\ UNCHANGED <<top, bottom, arrays, pushed, taken, owner, t, a>>

Steal(p) ==
  /\ Goto(p, "cas", "idle")
  /\ \/ /\ top = t[p]
        /\ top' = top + 1
        /\ Return(x[p])
     \/ /\ top # t[p]
        /\ UNCHANGED <<top, taken>>
  /\ UNCHANGED <<bottom, arrays, pushed, owner, t, a, x>>

-----------------------------------------------------------------------------
Next ==
  \/ PushLoad \/ Resize \/ Write \/ Publish
  \/ Claim \/ FindEmpty \/ FindMany \/ FindLast \/ Race \/ Restore
  \/ \E p \in Thieves :
       LoadTop(p) \/ LoadBottom(p) \/ LoadArray(p) \/ LoadSlot(p) \/ Steal(p)

Spec == Init /\ [][Next]_vars

-----------------------------------------------------------------------------
\* The queue ends at bottom, but an element the owner has claimed and not yet taken
\* is still in it.
End == IF opc \in {"look", "race", "restore"} THEN bottom + 1 ELSE bottom

\* No element is returned twice, by the owner and a thief or by two thieves, whatever
\* is overwritten or moved to a larger array meanwhile.
TakenOnce == \A e \in Elements : taken[e] <= 1

\* An element the owner can see is there, as assert( nullptr != ctx) says
\* (spmc_queue.hpp:124), and pop returns nothing only if there is nothing: whoever beat it
\* took the last element.
PopFindsElement ==
  /\ opc = "look" /\ top <= bottom => At(Current, bottom) # Null
  /\ opc = "restore" => top = End

\* The same assert in steal, spmc_queue.hpp:151: it does not always hold (README).
StealFindsElement == \A p \in Thieves : pc[p] = "cas" => x[p] # Null

Contract == INSTANCE WorkDeque WITH
  items <- [i \in 1 .. End - top |-> At(Current, top + i - 1)],
  taken <- {e \in Elements : taken[e] > 0}

\* The array with two indices is a double-ended queue: nothing is lost, thieves get
\* the oldest element and the owner the newest.
Implements == Contract!Spec
=============================================================================
