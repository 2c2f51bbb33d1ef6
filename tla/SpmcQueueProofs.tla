-------------------------- MODULE SpmcQueueProofs ---------------------------
(***************************************************************************)
(* Proofs about SpmcQueue, for any number of thieves, of pushes and any    *)
(* capacity, while the owner does not pop before it has pushed.            *)
(***************************************************************************)
EXTENDS SpmcQueue, SequenceTheorems, TLAPS

USE DEF owner, thief

\* The owner pushes first.
Cautious == ~PopFresh

Slots == Elements \cup {Null}

\* The arrays of capacity c.
Array(c) == [capacity : {c}, storage : [0 .. c - 1 -> Slots]]

TypeOK ==
  /\ top \in Nat /\ bottom \in Nat /\ pushed \in 0 .. Pushes
  /\ arrays \in Seq(UNION {Array(c) : c \in Nat \ {0}}) /\ arrays # <<>>
  /\ taken \in [Slots -> Nat]
  /\ opc \in {"idle", "push", "write", "publish", "look", "race", "restore"} /\ seen \in Nat
  /\ pc \in [Thieves -> {"idle", "bottom", "array", "slot", "cas"}]
  /\ t \in [Thieves -> Nat] /\ a \in [Thieves -> 1 .. Len(arrays)] /\ x \in [Thieves -> Slots]

Room == arrays[Current].capacity

\* The queue fits in its array, with the room for one more element where push has made
\* it, and top is where the owner has left it or further on.
Indices ==
  /\ top <= End /\ End <= pushed /\ End - top <= Room
  /\ pushed > 0 => End > 0
  /\ opc \in {"push", "write", "publish"} =>
       seen <= top /\ bottom - seen <= Room /\ pushed < Pushes
  /\ opc \in {"write", "publish"} => bottom - seen < Room
  /\ opc = "race" => bottom <= top
  /\ opc = "restore" => top = End

\* What is in the queue has been pushed and not been returned, each element once.
Items ==
  /\ \A i \in top .. End - 1 :
       /\ At(Current, i) \in 1 .. pushed
       /\ taken[At(Current, i)] = 0
  /\ \A i, j \in top .. End - 1 : At(Current, i) = At(Current, j) => i = j
  /\ \A e \in Elements : taken[e] <= 1 /\ (e > pushed => taken[e] = 0)
  /\ opc = "publish" => At(Current, bottom) = pushed + 1

\* A thief whose exchange would succeed has read the oldest element.
Stealing ==
  \A p \in Thieves :
    /\ t[p] <= top
    /\ t[p] = top /\ pc[p] \in {"array", "slot", "cas"} => top < End
    /\ t[p] = top /\ pc[p] = "slot" => At(a[p], top) = At(Current, top)
    /\ t[p] = top /\ pc[p] = "cas" => x[p] = At(Current, top)

Inv == TypeOK /\ Indices /\ Items /\ Stealing

-----------------------------------------------------------------------------
(* Arithmetic *)

LEMMA ModRange ==
  ASSUME NEW i \in Nat, NEW c \in Nat \ {0}
  PROVE  i % c \in 0 .. c - 1
OBVIOUS

\* Indices less than c apart have different slots in an array of capacity c.
LEMMA ModDistinct ==
  ASSUME NEW i \in Nat, NEW j \in Nat, NEW c \in Nat \ {0},
         i < j + c, j < i + c, i % c = j % c
  PROVE  i = j
<1> DEFINE q(n) == n \div c
<1>1. /\ i = c * q(i) + (i % c) /\ q(i) \in Int
      /\ j = c * q(j) + (j % c) /\ q(j) \in Int
  OBVIOUS
<1>2. i - j = c * (q(i) - q(j))
  BY <1>1
<1>3. q(i) - q(j) >= 1 => c * (q(i) - q(j)) >= c
  BY <1>1
<1>4. q(i) - q(j) <= -1 => c * (q(i) - q(j)) <= -c
  BY <1>1
<1> HIDE DEF q
<1>5. q(i) - q(j) = 0
  BY <1>1, <1>2, <1>3, <1>4
<1> QED
  BY <1>2, <1>5

\* The indices stay in a size_t, so that sums and differences are exact.
LEMMA Exact ==
  /\ \A i \in 0 .. Pushes : \A j \in 0 .. i : Minus(i, j) = i - j
  /\ \A i \in 0 .. Pushes : Plus(i, 1) = i + 1
<1> DEFINE m == SizeMax + 1
<1>1. m \in Nat /\ Pushes \in Nat /\ Pushes + 1 < m
  BY ConstantsAssumption
<1>2. ASSUME NEW n \in 0 .. m - 1 PROVE n % m = n /\ (n + m) % m = n
  BY <1>1, <1>2
<1> HIDE DEF m
<1>3. ASSUME NEW i \in 0 .. Pushes, NEW j \in 0 .. i PROVE (i + m - j) % m = i - j
  <2>1. i + m - j = (i - j) + m /\ i - j \in 0 .. m - 1
    BY <1>1, <1>3
  <2> QED
    BY <1>2, <2>1
<1>4. ASSUME NEW i \in 0 .. Pushes PROVE (i + 1) % m = i + 1
  BY <1>1, <1>2, <1>4
<1> QED
  BY <1>3, <1>4, ConstantsAssumption DEF m, Minus, Plus

-----------------------------------------------------------------------------
(* Arrays *)

LEMMA ArrayTypes ==
  ASSUME TypeOK
  PROVE  /\ Current \in Nat \ {0} /\ Room \in Nat \ {0}
         /\ \A n \in 1 .. Current : \E c \in Nat \ {0} : arrays[n] \in Array(c)
         /\ \A n \in 1 .. Current : arrays[n].capacity \in Nat \ {0}
         /\ \A n \in 1 .. Current, i \in Nat : At(n, i) \in Slots
<1>1. Len(arrays) \in Nat \ {0}
  BY EmptySeq, LenProperties DEF TypeOK
<1>2. \A n \in 1 .. Len(arrays) : \E c \in Nat \ {0} : arrays[n] \in Array(c)
  BY <1>1, ElementOfSeq DEF TypeOK
<1>3. \A n \in 1 .. Len(arrays) : arrays[n].capacity \in Nat \ {0}
  BY <1>2 DEF Array
<1>4. ASSUME NEW n \in 1 .. Len(arrays), NEW i \in Nat PROVE At(n, i) \in Slots
  <2>1. PICK c \in Nat \ {0} : arrays[n] \in Array(c)
    BY <1>2
  <2>2. i % c \in 0 .. c - 1
    BY ModRange
  <2> QED
    BY <2>1, <2>2 DEF Array, At
<1> QED
  BY <1>1, <1>2, <1>3, <1>4 DEF Current, Room

\* push writes behind the queue and nowhere else.
LEMMA WriteChanges ==
  ASSUME TypeOK, Indices, Write
  PROVE  /\ arrays' \in Seq(UNION {Array(c) : c \in Nat \ {0}}) /\ arrays' # <<>>
         /\ Current' = Current /\ Room' = Room
         /\ At(Current, bottom)' = pushed + 1
         /\ \A i \in seen .. bottom - 1 : At(Current, i)' = At(Current, i)
         /\ \A n \in 1 .. Current - 1 : arrays'[n] = arrays[n]
<1> DEFINE k == bottom % Room
           A == UNION {Array(c) : c \in Nat \ {0}}
           new == [arrays[Current] EXCEPT !.storage[k] = pushed + 1]
<1>1. /\ Current \in 1 .. Len(arrays) /\ Len(arrays) \in Nat /\ Room \in Nat \ {0}
      /\ arrays[Current] \in Array(Room)
  <2>1. Current \in 1 .. Len(arrays) /\ Len(arrays) \in Nat /\ Room \in Nat \ {0}
    BY ArrayTypes DEF Current
  <2>2. PICK c \in Nat \ {0} : arrays[Current] \in Array(c)
    BY <2>1, ArrayTypes DEF Current
  <2>3. arrays[Current].capacity = c
    BY <2>2 DEF Array
  <2> QED
    BY <2>1, <2>2, <2>3 DEF Room
<1>2. bottom \in Nat /\ seen \in Nat /\ k \in 0 .. Room - 1
  BY <1>1, ModRange DEF TypeOK
<1>3. bottom - seen < Room /\ pushed + 1 \in Elements /\ seen <= bottom
  <2>1. opc = "push" \/ opc = "write"
    BY DEF Write
  <2>2. pushed \in Nat /\ Pushes \in Nat /\ pushed < Pushes /\ seen <= bottom
    BY <2>1, ConstantsAssumption DEF Indices, TypeOK, End
  <2>3. bottom \in 0 .. Pushes /\ seen \in 0 .. bottom
    BY <2>1, <2>2, <1>2 DEF Indices, TypeOK, End
  <2>4. Minus(bottom, seen) = bottom - seen
    BY <2>3, Exact
  <2>5. bottom - seen < Room
    <3>1. CASE opc = "push"
      <4>1. ~ (Room - 1 < bottom - seen)
        BY <2>4, <3>1 DEF Write, Full, Room
      <4> QED
        BY <4>1, <1>1, <1>2
    <3>2. CASE opc = "write"
      BY <3>2 DEF Indices
    <3> QED
      BY <2>1, <3>1, <3>2
  <2> QED
    BY <2>2, <2>5 DEF Elements
<1>4. arrays' = [arrays EXCEPT ![Current] = new]
  BY DEF Write, Room
<1>5. new \in Array(Room)
  BY <1>1, <1>2, <1>3 DEF Array, Slots
<1>6. /\ new.storage[k] = pushed + 1 /\ new.capacity = Room
      /\ \A j \in 0 .. Room - 1 : j # k => new.storage[j] = arrays[Current].storage[j]
  BY <1>1, <1>2 DEF Array
<1>7. new \in A /\ arrays \in Seq(A)
  BY <1>1, <1>5 DEF TypeOK
<1> HIDE DEF new, A
<1>8. arrays' \in Seq(A) /\ Len(arrays') = Len(arrays)
      /\ \A n \in 1 .. Len(arrays) : arrays'[n] = IF n = Current THEN new ELSE arrays[n]
  BY <1>1, <1>4, <1>7, ExceptSeq
<1>9. Current' = Current /\ arrays'[Current] = new /\ Room' = Room
  BY <1>1, <1>6, <1>8 DEF Current, Room
<1>10. At(Current, bottom)' = pushed + 1
  BY <1>6, <1>9 DEF At, Write
<1>11. ASSUME NEW i \in seen .. bottom - 1 PROVE At(Current, i)' = At(Current, i)
  <2>1. i \in Nat /\ i < bottom + Room /\ bottom < i + Room /\ i # bottom
    BY <1>1, <1>2, <1>3
  <2>2. i % Room # k /\ i % Room \in 0 .. Room - 1
    BY <1>1, <1>2, <2>1, ModDistinct, ModRange
  <2>3. new.storage[i % Room] = arrays[Current].storage[i % Room]
    BY <1>6, <2>2
  <2> QED
    BY <1>6, <1>9, <2>3 DEF At, Room
<1>12. \A n \in 1 .. Current - 1 : arrays'[n] = arrays[n]
  BY <1>1, <1>8 DEF Current
<1>13. arrays' # <<>>
  BY <1>1, <1>8, EmptySeq
<1> QED
  BY <1>8, <1>9, <1>10, <1>11, <1>12, <1>13 DEF A

\* A larger array has every element where thieves and the owner look for it.
LEMMA ResizeChanges ==
  ASSUME TypeOK, Indices, Resize
  PROVE  /\ arrays' \in Seq(UNION {Array(c) : c \in Nat \ {0}}) /\ arrays' # <<>>
         /\ Current' = Current + 1 /\ Room' = 2 * Room
         /\ \A i \in seen .. bottom - 1 : At(Current, i)' = At(Current, i)
         /\ \A n \in 1 .. Current : arrays'[n] = arrays[n]
<1> DEFINE A == UNION {Array(c) : c \in Nat \ {0}}
           new == ResizedFrom(seen)
           live == {i \in SizeT : seen <= i /\ i < bottom}
<1>1. Current \in Nat \ {0} /\ Room \in Nat \ {0} /\ 2 * Room \in Nat \ {0}
  BY ArrayTypes
<1>2. /\ seen \in Nat /\ bottom \in Nat /\ bottom - seen <= Room /\ seen <= bottom
      /\ bottom <= SizeMax
  BY ConstantsAssumption DEF Resize, OwnerGoto, Indices, TypeOK, End
<1>3. \A i \in live : i \in Nat /\ At(Current, i) \in Slots
  BY <1>1, ArrayTypes, ConstantsAssumption DEF SizeT
<1>4. \A i, j \in live : i % (2 * Room) = j % (2 * Room) => i = j
  <2>1. ASSUME NEW i \in live, NEW j \in live PROVE i < j + 2 * Room /\ j < i + 2 * Room
    BY <1>1, <1>2, <1>3, <2>1
  <2> QED
    BY <1>1, <1>3, <2>1, ModDistinct
<1>5. new.capacity = 2 * Room
      /\ \A j \in 0 .. 2 * Room - 1 :
           new.storage[j] = IF \E i \in live : i % (2 * Room) = j
                            THEN At(Current, CHOOSE i \in live : i % (2 * Room) = j) ELSE Null
  BY DEF ResizedFrom, Room
<1>6. new \in Array(2 * Room)
  <2>1. \A j \in 0 .. 2 * Room - 1 : new.storage[j] \in Slots
    BY <1>3, <1>5 DEF Slots
  <2>2. new = [capacity |-> 2 * Room, storage |-> [j \in 0 .. 2 * Room - 1 |-> new.storage[j]]]
    BY DEF ResizedFrom, Room
  <2> QED
    BY <2>1, <2>2 DEF Array
<1>7. \A i \in live : new.storage[i % (2 * Room)] = At(Current, i)
  <2> TAKE i \in live
  <2> DEFINE j == i % (2 * Room)
  <2>1. j \in 0 .. 2 * Room - 1
    BY <1>1, <1>3, ModRange
  <2>2. (CHOOSE l \in live : l % (2 * Room) = j) = i
    BY <1>4
  <2> QED
    BY <1>5, <2>1, <2>2
<1>8. new \in A /\ arrays \in Seq(A)
  BY <1>1, <1>6 DEF TypeOK
<1>9. arrays' = Append(arrays, new)
  BY DEF Resize
<1> HIDE DEF new, A
<1>10. /\ arrays' \in Seq(A) /\ Len(arrays') = Len(arrays) + 1
       /\ \A n \in 1 .. Len(arrays) : arrays'[n] = arrays[n]
       /\ arrays'[Len(arrays) + 1] = new
  BY <1>8, <1>9, AppendProperties
<1>11. Current' = Current + 1 /\ arrays'[Current'] = new /\ Room' = 2 * Room
  BY <1>5, <1>10 DEF Current, Room
<1>12. ASSUME NEW i \in seen .. bottom - 1 PROVE At(Current, i)' = At(Current, i)
  <2>1. i \in live
    BY <1>2, ConstantsAssumption DEF SizeT
  <2>2. At(Current, i)' = new.storage[i % new.capacity]
    BY <1>11 DEF At
  <2> QED
    BY <1>5, <1>7, <2>1, <2>2
<1>13. arrays' # <<>>
  BY <1>1, <1>10, EmptySeq DEF Current
<1> QED
  BY <1>10, <1>11, <1>12, <1>13 DEF A, Current

-----------------------------------------------------------------------------
(* The invariant *)

LEMMA InitInv == Init => Inv
<1> SUFFICES ASSUME Init PROVE Inv
  OBVIOUS
<1> DEFINE A == UNION {Array(c) : c \in Nat \ {0}}
           new == [capacity |-> Capacity, storage |-> [j \in 0 .. Capacity - 1 |-> Null]]
<1>1. Capacity \in Nat \ {0} /\ Pushes \in Nat
  BY ConstantsAssumption
<1>2. new \in Array(Capacity)
  BY DEF Array, Slots
<1>3. new \in A
  BY <1>1, <1>2
<1>4. arrays = <<new>>
  BY DEF Init
<1> HIDE DEF new, A
<1>5. arrays \in Seq(A) /\ arrays # <<>> /\ Len(arrays) = 1 /\ arrays[1] = new
  BY <1>3, <1>4
<1>6. Room = Capacity
  BY <1>5 DEF Room, Current, new
<1>7. TypeOK
  BY <1>1, <1>5 DEF TypeOK, Init, A, Slots
<1>8. End = 0 /\ top = 0 /\ pushed = 0 /\ opc = "idle"
  BY DEF Init, End
<1>9. Indices
  BY <1>1, <1>6, <1>8 DEF Indices
<1>10. Items
  BY <1>8 DEF Init, Items, Slots
<1>11. Stealing
  <2>1. \A p \in Thieves : t[p] <= top
    <3> SUFFICES ASSUME NEW p \in Thieves PROVE t[p] <= top
      OBVIOUS
    <3>1. t[p] = 0 /\ top = 0
      BY DEF Init
    <3> QED
      BY <3>1
  <2>2. \A p \in Thieves : pc[p] \notin {"array", "slot", "cas"}
    BY DEF Init
  <2> QED
    BY <2>1, <2>2 DEF Stealing
<1> QED
  BY <1>7, <1>9, <1>10, <1>11 DEF Inv

\* The steps of a thief that change nothing others see.
LEMMA ThiefReads ==
  ASSUME Inv, NEW p \in Thieves,
         LoadTop(p) \/ LoadBottom(p) \/ LoadArray(p) \/ LoadSlot(p)
  PROVE  Inv'
<1> USE DEF Inv, Goto
<1>1. /\ UNCHANGED <<top, bottom, arrays, pushed, taken, owner>>
      /\ \A n, i : At(n, i)' = At(n, i)
  BY DEF LoadTop, LoadBottom, LoadArray, LoadSlot, At
<1>2. Current' = Current /\ Room' = Room /\ End' = End
  BY <1>1 DEF Current, Room, End
<1>3. TypeOK'
  <2>1. Current \in 1 .. Len(arrays) /\ At(a[p], t[p]) \in Slots
    BY ArrayTypes DEF TypeOK, Current
  <2>2. /\ t' \in [Thieves -> Nat] /\ a' \in [Thieves -> 1 .. Len(arrays)]
        /\ x' \in [Thieves -> Slots]
        /\ pc' \in [Thieves -> {"idle", "bottom", "array", "slot", "cas"}]
    BY <2>1 DEF TypeOK, LoadTop, LoadBottom, LoadArray, LoadSlot
  <2> QED
    BY <1>1, <2>2 DEF TypeOK
<1>4. Indices' /\ Items'
  BY <1>1, <1>2 DEF Indices, Items
<1>5. /\ \A q \in Thieves : q # p =>
           t'[q] = t[q] /\ pc'[q] = pc[q] /\ a'[q] = a[q] /\ x'[q] = x[q]
      /\ t'[p] <= top
      /\ pc'[p] = "array" => t'[p] < bottom
      /\ pc'[p] = "slot" => t'[p] = t[p] /\ pc[p] = "array" /\ a'[p] = Current
      /\ pc'[p] = "cas" => t'[p] = t[p] /\ pc[p] = "slot" /\ x'[p] = At(a[p], t[p])
  <2> USE DEF TypeOK, Stealing
  <2>1. CASE LoadTop(p)
    BY <2>1 DEF LoadTop
  <2>2. CASE LoadBottom(p)
    BY <2>2 DEF LoadBottom
  <2>3. CASE LoadArray(p)
    BY <2>3 DEF LoadArray
  <2>4. CASE LoadSlot(p)
    BY <2>4 DEF LoadSlot
  <2> QED
    BY <2>1, <2>2, <2>3, <2>4
<1>6. top \in Nat /\ bottom \in Nat /\ End \in Nat /\ bottom <= End
  BY DEF TypeOK, End
<1>7. Stealing'
  <2>1. \A q \in Thieves : t'[q] <= top /\ t'[q] \in Nat
    BY <1>3, <1>5 DEF Stealing, TypeOK
  <2>2. \A q \in Thieves : t'[q] = top /\ pc'[q] \in {"array", "slot", "cas"} => top < End
    <3> SUFFICES ASSUME NEW q \in Thieves, t'[q] = top, pc'[q] \in {"array", "slot", "cas"}
                 PROVE  top < End
      OBVIOUS
    <3>1. CASE q # p
      BY <1>5, <3>1 DEF Stealing
    <3>2. CASE q = p /\ pc'[p] = "array"
      BY <1>5, <1>6, <3>2
    <3>3. CASE q = p /\ pc'[p] # "array"
      BY <1>5, <3>3 DEF Stealing
    <3> QED
      BY <3>1, <3>2, <3>3
  <2>3. \A q \in Thieves : t'[q] = top /\ pc'[q] = "slot" => At(a'[q], top) = At(Current, top)
    BY <1>5 DEF Stealing
  <2>4. \A q \in Thieves : t'[q] = top /\ pc'[q] = "cas" => x'[q] = At(Current, top)
    BY <1>5 DEF Stealing
  <2>5. \A q \in Thieves : At(a[q], top)' = At(a'[q], top)
    BY <1>1 DEF At
  <2> QED
    BY <1>1, <1>2, <2>1, <2>2, <2>3, <2>4, <2>5 DEF Stealing
<1> QED
  BY <1>3, <1>4, <1>7

\* The steps of the owner that leave the queue as it is.
LEMMA OwnerMoves ==
  ASSUME Inv, TypeOK', Indices', opc' # "publish",
         UNCHANGED <<top, arrays, pushed, taken, thief>>, End' = End
  PROVE  Inv'
<1>1. /\ \A n, i : At(n, i)' = At(n, i)
      /\ \A q \in Thieves : At(a[q], top)' = At(a[q], top)
      /\ Current' = Current
  BY DEF At, Current
<1>2. Items'
  BY <1>1 DEF Inv, Items
<1>3. Stealing'
  BY <1>1 DEF Inv, Stealing
<1> QED
  BY <1>2, <1>3 DEF Inv

LEMMA EndIs ==
  ASSUME TypeOK
  PROVE  /\ opc \in {"idle", "push", "write", "publish"} => End = bottom
         /\ opc \in {"look", "race", "restore"} => End = bottom + 1
         /\ End \in Nat /\ top \in Nat /\ bottom \in Nat /\ seen \in Nat
         /\ pushed \in 0 .. Pushes /\ Pushes \in Nat
BY ConstantsAssumption DEF TypeOK, End

LEMMA OwnerLooks ==
  ASSUME Cautious, Inv, PushLoad \/ Claim \/ FindEmpty \/ FindLast \/ Restore
  PROVE  Inv'
<1> USE DEF OwnerGoto
<1>1. Room \in Nat \ {0} /\ Indices /\ TypeOK
  BY ArrayTypes DEF Inv
<1>2. Room' = Room
  BY DEF PushLoad, Claim, FindEmpty, FindLast, Restore, Room, Current
<1>3. CASE PushLoad
  <2>1. TypeOK' /\ End' = End
    BY <1>1, <1>3 DEF PushLoad, TypeOK, End
  <2>2. Indices'
    BY <1>1, <1>2, <1>3, <2>1, EndIs DEF PushLoad, Indices
  <2> QED
    BY <1>3, <2>1, <2>2, OwnerMoves DEF PushLoad
<1>4. CASE Claim
  <2>1. bottom \in 1 .. Pushes
    BY <1>1, <1>4, EndIs DEF Claim, Cautious, Indices
  <2>2. bottom' = bottom - 1
    BY <1>4, <2>1, Exact DEF Claim
  <2>3. TypeOK' /\ End' = End
    BY <1>1, <1>4, <2>1, <2>2 DEF Claim, TypeOK, End
  <2>4. Indices'
    BY <1>1, <1>2, <1>4, <2>3, EndIs DEF Claim, Indices
  <2> QED
    BY <1>4, <2>3, <2>4, OwnerMoves DEF Claim
<1>5. CASE FindEmpty
  <2>1. TypeOK' /\ End' = End
    BY <1>1, <1>5 DEF FindEmpty, TypeOK, End
  <2>2. Indices'
    BY <1>1, <1>2, <1>5, <2>1, EndIs DEF FindEmpty, Indices
  <2> QED
    BY <1>5, <2>1, <2>2, OwnerMoves DEF FindEmpty
<1>6. CASE FindLast
  <2>1. TypeOK' /\ End' = End
    BY <1>1, <1>6 DEF FindLast, TypeOK, End
  <2>2. Indices'
    BY <1>1, <1>2, <1>6, <2>1, EndIs DEF FindLast, Indices
  <2> QED
    BY <1>6, <2>1, <2>2, OwnerMoves DEF FindLast
<1>7. CASE Restore
  <2>1. bottom \in 0 .. Pushes
    BY <1>1, <1>7, EndIs DEF Restore, Indices
  <2>2. bottom' = bottom + 1
    BY <1>7, <2>1, Exact DEF Restore
  <2>3. TypeOK' /\ End' = End
    BY <1>1, <1>7, <2>2 DEF Restore, TypeOK, End
  <2>4. Indices'
    BY <1>1, <1>2, <1>7, <2>3, EndIs DEF Restore, Indices
  <2> QED
    BY <1>7, <2>3, <2>4, OwnerMoves DEF Restore
<1> QED
  BY <1>3, <1>4, <1>5, <1>6, <1>7

LEMMA ArraysMove ==
  ASSUME Inv, Resize \/ Write
  PROVE  Inv'
<1> USE DEF Inv
<1>1. /\ UNCHANGED <<top, bottom, pushed, taken, seen, thief>>
      /\ opc \in {"push", "write"}
      /\ Resize => opc = "push" /\ opc' = "write"
      /\ Write => opc' = "publish"
  BY DEF Resize, Write, OwnerGoto
<1>2. /\ arrays' \in Seq(UNION {Array(c) : c \in Nat \ {0}}) /\ arrays' # <<>>
      /\ \A i \in seen .. bottom - 1 : At(Current, i)' = At(Current, i)
      /\ \A n \in 1 .. Current - 1 : arrays'[n] = arrays[n]
      /\ Resize => Current' = Current + 1 /\ Room' = 2 * Room
      /\ Resize => arrays'[Current] = arrays[Current]
      /\ Write => Current' = Current /\ Room' = Room /\ At(Current, bottom)' = pushed + 1
  <2>1. Current \in Nat \ {0}
    BY ArrayTypes
  <2>2. CASE Resize
    <3>1. ~ Write
      BY <1>1, <2>2
    <3> QED
      BY <2>1, <2>2, <3>1, ResizeChanges
  <2>3. CASE Write
    <3>1. ~ Resize
      BY <1>1, <2>3
    <3> QED
      BY <2>1, <2>3, <3>1, WriteChanges
  <2> QED
    BY <2>2, <2>3
<1>3. /\ Current \in Nat \ {0} /\ Room \in Nat \ {0}
      /\ End = bottom /\ End' = bottom
      /\ top \in Nat /\ bottom \in Nat /\ seen \in Nat
      /\ seen <= top /\ top <= bottom /\ bottom - seen <= Room
  BY <1>1, ArrayTypes DEF TypeOK, Indices, End
<1>4. \A i \in top .. End - 1 : At(Current, i)' = At(Current, i)
  BY <1>2, <1>3
<1>5. TypeOK'
  <2>1. a' \in [Thieves -> 1 .. Len(arrays')]
    BY <1>1, <1>2, <1>3 DEF TypeOK, Current
  <2>2. opc' \in {"write", "publish"}
    BY <1>1
  <2> QED
    BY <1>1, <1>2, <2>1, <2>2 DEF TypeOK
<1>6. Indices'
  <2>1. bottom - seen < Room'
    <3>1. CASE Resize
      BY <1>2, <1>3, <3>1
    <3>2. CASE Write
      <4>1. CASE opc = "write"
        BY <1>2, <3>2, <4>1 DEF Indices
      <4>2. CASE opc = "push"
        <5>1. bottom \in 0 .. Pushes /\ seen \in 0 .. bottom
          BY <1>3, EndIs DEF Indices
        <5>2. ~ (Room - 1 < bottom - seen)
          BY <3>2, <4>2, <5>1, Exact DEF Write, Full, Room
        <5> QED
          BY <1>2, <1>3, <3>2, <5>2
      <4> QED
        BY <1>1, <4>1, <4>2
    <3> QED
      BY <3>1, <3>2
  <2>2. Room' \in Nat
    BY <1>2, <1>3
  <2>3. opc' \in {"write", "publish"} /\ pushed < Pushes /\ End <= pushed
        /\ (pushed > 0 => End > 0)
    BY <1>1 DEF Indices
  <2> QED
    BY <1>1, <1>3, <2>1, <2>2, <2>3 DEF Indices
<1>7. Items'
  <2>1. opc' = "publish" => At(Current, bottom)' = pushed + 1
    BY <1>1, <1>2
  <2> QED
    BY <1>1, <1>3, <1>4, <2>1 DEF Items
<1>8. Stealing'
  <2> SUFFICES ASSUME NEW p \in Thieves
               PROVE  (/\ t[p] <= top
                       /\ t[p] = top /\ pc[p] \in {"array", "slot", "cas"} => top < End
                       /\ t[p] = top /\ pc[p] = "slot" => At(a[p], top) = At(Current, top)
                       /\ t[p] = top /\ pc[p] = "cas" => x[p] = At(Current, top))'
    BY DEF Stealing
  <2>1. t[p] <= top /\ (t[p] = top /\ pc[p] \in {"array", "slot", "cas"} => top < End)
    BY DEF Stealing
  <2>a. top < End => At(Current, top)' = At(Current, top)
    BY <1>1, <1>3, <1>4 DEF At
  <2>2. ASSUME t[p] = top, pc[p] = "slot" PROVE At(a[p], top)' = At(Current, top)'
    <3>1. At(Current, top)' = At(Current, top) /\ At(a[p], top) = At(Current, top)
      BY <2>1, <2>2, <2>a DEF Stealing
    <3>2. a[p] \in 1 .. Current
      BY DEF TypeOK, Current
    <3>3. CASE a[p] < Current \/ Resize
      <4>1. arrays'[a[p]] = arrays[a[p]]
        BY <1>2, <1>3, <3>2, <3>3
      <4>2. At(a[p], top)' = At(a[p], top)
        BY <1>1, <4>1 DEF At
      <4> QED
        BY <3>1, <4>2
    <3>4. CASE a[p] = Current /\ Write
      <4>1. a'[p] = Current'
        BY <1>1, <1>2, <3>4
      <4> QED
        BY <4>1 DEF At
    <3> QED
      BY <1>3, <3>2, <3>3, <3>4
  <2>3. ASSUME t[p] = top, pc[p] = "cas" PROVE x[p] = At(Current, top)'
    BY <2>1, <2>3, <2>a DEF Stealing
  <2> QED
    BY <1>1, <1>3, <2>1, <2>2, <2>3
<1> QED
  BY <1>5, <1>6, <1>7, <1>8

\* A pushed element is new to the queue and to everybody.
LEMMA PublishAdds ==
  ASSUME Inv, Publish
  PROVE  Inv' /\ End = bottom /\ End' = bottom + 1
<1> USE DEF Inv, Publish, OwnerGoto
<1>1. /\ Current \in Nat \ {0} /\ Room \in Nat \ {0} /\ Current' = Current /\ Room' = Room
      /\ \A n, i : At(n, i)' = At(n, i)
      /\ \A p : At(a[p], top)' = At(a[p], top)
  BY ArrayTypes DEF Room, Current, At
<1>2. /\ End = bottom /\ seen <= top /\ bottom - seen < Room /\ pushed < Pushes
      /\ top <= bottom /\ bottom <= pushed
      /\ top \in Nat /\ bottom \in Nat /\ seen \in Nat /\ pushed \in Nat /\ Pushes \in Nat
  BY EndIs DEF Indices
<1>3. bottom' = bottom + 1 /\ pushed' = pushed + 1 /\ End' = bottom + 1 /\ seen' = 0
  <2>1. bottom' = bottom + 1
    BY <1>2, Exact
  <2> QED
    BY <2>1 DEF End
<1>4. TypeOK'
  BY <1>2, <1>3 DEF TypeOK
<1>5. Indices'
  BY <1>1, <1>2, <1>3 DEF Indices
<1>6. Items'
  <2>1. At(Current, bottom) = pushed + 1 /\ pushed + 1 \in Elements
    BY <1>2 DEF Items, Elements
  <2>2. \A i \in top .. End' - 1 :
          /\ At(Current, i) \in 1 .. pushed + 1
          /\ taken[At(Current, i)] = 0
    <3> SUFFICES ASSUME NEW i \in top .. End' - 1
                 PROVE  At(Current, i) \in 1 .. pushed + 1 /\ taken[At(Current, i)] = 0
      OBVIOUS
    <3>1. CASE i = bottom
      BY <1>2, <2>1, <3>1 DEF Items
    <3>2. CASE i # bottom
      <4>1. i \in top .. End - 1
        BY <1>2, <1>3, <3>2
      <4> QED
        BY <1>2, <4>1 DEF Items
    <3> QED
      BY <3>1, <3>2
  <2>3. \A i, j \in top .. End' - 1 : At(Current, i) = At(Current, j) => i = j
    <3> SUFFICES ASSUME NEW i \in top .. End' - 1, NEW j \in top .. End' - 1,
                        At(Current, i) = At(Current, j)
                 PROVE  i = j
      OBVIOUS
    <3>1. \A n \in top .. End' - 1 : n # bottom => n \in top .. End - 1
      BY <1>2, <1>3
    <3>2. \A n \in top .. End' - 1 : n # bottom => At(Current, n) # pushed + 1
      BY <1>2, <3>1 DEF Items
    <3> QED
      BY <2>1, <3>1, <3>2 DEF Items
  <2>4. \A e \in Elements : taken[e] <= 1 /\ (e > pushed + 1 => taken[e] = 0)
    BY <1>2 DEF Items, Elements
  <2> QED
    BY <1>1, <1>3, <2>2, <2>3, <2>4 DEF Items
<1>7. Stealing'
  BY <1>1, <1>2, <1>3 DEF Stealing
<1> QED
  BY <1>2, <1>3, <1>4, <1>5, <1>6, <1>7

-----------------------------------------------------------------------------
(* Taking an element *)

LEMMA TakingItems ==
  ASSUME Inv, NEW n \in top .. End - 1,
         taken' = [taken EXCEPT ![At(Current, n)] = @ + 1],
         UNCHANGED <<arrays, pushed>>,
         \A i \in top' .. End' - 1 : i \in top .. End - 1 /\ i # n,
         opc' = "publish" => opc = "publish" /\ bottom' = bottom
  PROVE  Items'
<1> USE DEF Inv
<1>1. Current' = Current /\ \A m, i : At(m, i)' = At(m, i)
  BY DEF Current, At
<1>2. (opc' = "publish") => At(Current, bottom)' = pushed' + 1
  <2>1. bottom' = bottom => At(Current, bottom)' = At(Current, bottom)
    BY DEF Current, At
  <2> QED
    BY <2>1 DEF Items
<1> DEFINE e == At(Current, n)
<1>3. e \in 1 .. pushed /\ e \in Elements /\ taken[e] = 0
  BY EndIs DEF Items, Elements
<1>4. taken'[e] = 1 /\ \A d \in Slots : d # e => taken'[d] = taken[d]
  BY <1>3 DEF TypeOK, Slots
<1> HIDE DEF e
<1>5. \A i \in top' .. End' - 1 :
        /\ At(Current, i) \in 1 .. pushed
        /\ taken'[At(Current, i)] = 0
  <2> SUFFICES ASSUME NEW i \in top' .. End' - 1
               PROVE  At(Current, i) \in 1 .. pushed /\ taken'[At(Current, i)] = 0
    OBVIOUS
  <2>1. i \in top .. End - 1 /\ i # n
    OBVIOUS
  <2>2. At(Current, i) \in 1 .. pushed /\ taken[At(Current, i)] = 0 /\ At(Current, i) # e
    BY <2>1 DEF Items, e
  <2>3. At(Current, i) \in Slots
    BY <2>2, EndIs DEF Slots, Elements
  <2> QED
    BY <1>4, <2>2, <2>3
<1>6. \A i, j \in top' .. End' - 1 : At(Current, i) = At(Current, j) => i = j
  BY DEF Items
<1>7. \A d \in Elements : taken'[d] <= 1 /\ (d > pushed => taken'[d] = 0)
  <2> SUFFICES ASSUME NEW d \in Elements
               PROVE  taken'[d] <= 1 /\ (d > pushed => taken'[d] = 0)
    OBVIOUS
  <2>1. CASE d = e
    BY <1>3, <1>4, <2>1, EndIs
  <2>2. CASE d # e
    BY <1>4, <2>2 DEF Items, Slots
  <2> QED
    BY <2>1, <2>2
<1> QED
  BY <1>1, <1>2, <1>5, <1>6, <1>7 DEF Items

LEMMA TakenType ==
  ASSUME TypeOK, NEW e \in 1 .. pushed, taken' = [taken EXCEPT ![e] = @ + 1]
  PROVE  taken' \in [Slots -> Nat]
<1>1. taken \in [Slots -> Nat] /\ e \in Slots
  BY EndIs DEF TypeOK, Slots, Elements
<1> QED
  BY <1>1

\* pop takes the newest element, with an exchange of top when it is the last one.
LEMMA PopTakes ==
  ASSUME Inv, FindMany \/ (Race /\ top = bottom)
  PROVE  /\ Inv'
         /\ top < End /\ End' - top' = End - top - 1 /\ top <= top'
         /\ top' \in Nat /\ End' \in Nat
         /\ top' # top => End' = top'
         /\ taken' = [taken EXCEPT ![At(Current, End - 1)] = @ + 1]
<1> USE DEF Inv, OwnerGoto, Return
<1>1. /\ Current \in Nat \ {0} /\ Room \in Nat \ {0} /\ Current' = Current /\ Room' = Room
      /\ \A n, i : At(n, i)' = At(n, i)
      /\ \A p : At(a[p], top)' = At(a[p], top')
      /\ UNCHANGED <<arrays, bottom, pushed, seen, thief>>
  BY ArrayTypes DEF Room, Current, At, FindMany, Race
<1>2. End = bottom + 1 /\ bottom \in Nat /\ top \in Nat /\ bottom = End - 1 /\ End \in Nat
      /\ top <= bottom /\ bottom + 1 - top <= Room
  BY EndIs DEF Indices, FindMany, Race
<1>3. taken' = [taken EXCEPT ![At(Current, End - 1)] = @ + 1] /\ opc' \in {"idle", "restore"}
  BY <1>2 DEF FindMany, Race
<1>4. /\ FindMany => top < bottom /\ top' = top /\ End' = bottom /\ opc' = "idle"
      /\ Race => top' = top + 1 /\ End' = bottom + 1 /\ opc' = "restore" /\ top = bottom
  <2>1. CASE FindMany
    <3>1. ~ Race
      BY <2>1 DEF FindMany, Race
    <3> QED
      BY <1>1, <2>1, <3>1 DEF FindMany, End
  <2>2. CASE Race /\ top = bottom
    <3>1. ~ FindMany
      BY <2>2 DEF FindMany, Race
    <3> QED
      BY <1>1, <2>2, <3>1 DEF Race, End
  <2> QED
    BY <2>1, <2>2
<1>5. /\ top < End /\ End' - top' = End - top - 1 /\ top <= top'
      /\ top' # top => End' = top'
      /\ top' <= End' /\ End' <= End /\ top' \in Nat /\ End' \in Nat
      /\ top' # End' => top' = top /\ End' = End - 1
  BY <1>2, <1>4
<1>b. PICK n \in Nat, m \in Nat : top' = n /\ End' = m
  BY <1>5
<1>6. At(Current, End - 1) \in 1 .. pushed /\ End - 1 \in top .. End - 1
  BY <1>2 DEF Items
<1>7. TypeOK'
  <2>1. taken' \in [Slots -> Nat]
    BY <1>3, <1>6, TakenType
  <2> QED
    BY <1>1, <1>3, <1>5, <2>1 DEF TypeOK
<1>8. Indices'
  <2>1. pushed > 0 => End' > 0
    BY <1>2, <1>4
  <2>2. End' <= pushed /\ End' - top' <= Room
    <3>1. End <= pushed /\ End - top <= Room /\ pushed \in Nat
      BY EndIs DEF Indices
    <3> QED
      BY <1>1, <1>2, <1>5, <1>b, <3>1
  <2>3. opc' = "restore" => top' = End'
    BY <1>2, <1>4, <1>5
  <2> QED
    BY <1>1, <1>3, <1>5, <2>1, <2>2, <2>3 DEF Indices
<1>9. Items'
  <2>1. \A i \in top' .. End' - 1 : i \in top .. End - 1 /\ i # End - 1
    <3> SUFFICES ASSUME NEW i \in top' .. End' - 1 PROVE i \in top .. End - 1 /\ i # End - 1
      OBVIOUS
    <3>1. m = End - 1 /\ n = top
      BY <1>5, <1>b
    <3> QED
      BY <1>2, <1>b, <3>1
  <2> QED
    BY <1>1, <1>3, <1>6, <2>1, TakingItems
<1>10. Stealing'
  <2>1. CASE FindMany
    <3>1. top' = top /\ top < End'
      BY <1>4, <2>1
    <3>2. \A p : At(a[p], top)' = At(a[p], top)
      BY <1>1, <3>1 DEF At
    <3>3. At(Current, top)' = At(Current, top)
      BY <1>1, <3>1 DEF At
    <3> QED
      BY <1>1, <3>1, <3>2, <3>3 DEF Stealing
  <2>2. CASE Race /\ top = bottom
    <3>1. top' = top + 1
      BY <1>4, <2>2
    <3>2. \A p \in Thieves : t'[p] < top'
      BY <1>1, <1>2, <3>1 DEF Stealing, TypeOK
    <3>3. \A p \in Thieves : t'[p] \in Nat /\ top' \in Nat
      BY <1>7 DEF TypeOK
    <3> QED
      BY <3>2, <3>3 DEF Stealing
  <2> QED
    BY <2>1, <2>2
<1>11. Inv'
  BY <1>7, <1>8, <1>9, <1>10
<1> QED
  BY <1>3, <1>5, <1>11

\* A thief whose exchange succeeds takes the oldest element.
LEMMA StealTakes ==
  ASSUME Inv, NEW p \in Thieves, Steal(p), top = t[p]
  PROVE  /\ Inv'
         /\ top < End /\ End' = End /\ top' = top + 1
         /\ taken' = [taken EXCEPT ![At(Current, top)] = @ + 1]
<1> USE DEF Inv, Goto, Return
<1>1. /\ Current \in Nat \ {0} /\ Room \in Nat \ {0} /\ Current' = Current /\ Room' = Room
      /\ UNCHANGED <<arrays, bottom, pushed, opc, seen, t, a, x>> /\ End' = End
  BY ArrayTypes DEF Room, Current, End, Steal
<1>2. top' = top + 1 /\ x[p] = At(Current, top) /\ top < End
  BY DEF Steal, Stealing
<1>3. /\ taken' = [taken EXCEPT ![At(Current, top)] = @ + 1]
      /\ pc' \in [Thieves -> {"idle", "bottom", "array", "slot", "cas"}]
  BY <1>2 DEF Steal, TypeOK
<1>4. top \in Nat /\ End \in Nat /\ top \in top .. End - 1 /\ At(Current, top) \in 1 .. pushed
  BY <1>2, EndIs DEF Items
<1>5. TypeOK'
  <2>1. taken' \in [Slots -> Nat]
    BY <1>3, <1>4, TakenType
  <2> QED
    BY <1>1, <1>2, <1>3, <2>1 DEF TypeOK
<1>6. Indices'
  BY <1>1, <1>2, EndIs DEF Indices
<1>7. Items'
  <2>1. \A i \in top' .. End' - 1 : i \in top .. End - 1 /\ i # top
    BY <1>1, <1>2, <1>4
  <2> QED
    BY <1>1, <1>3, <1>4, <2>1, TakingItems
<1>8. Stealing'
  <2>1. \A q \in Thieves : t'[q] < top'
    BY <1>1, <1>2 DEF Stealing, TypeOK
  <2>2. \A q \in Thieves : t'[q] \in Nat /\ top' \in Nat
    BY <1>5 DEF TypeOK
  <2> QED
    BY <2>1, <2>2 DEF Stealing
<1> QED
  BY <1>1, <1>2, <1>3, <1>5, <1>6, <1>7, <1>8

\* An exchange of top that fails, by the owner or by a thief.
LEMMA ExchangeFails ==
  ASSUME Inv, (Race /\ top # bottom) \/ \E p \in Thieves : Steal(p) /\ top # t[p]
  PROVE  Inv' /\ End' = End /\ UNCHANGED <<top, arrays, taken>>
<1> USE DEF Inv
<1>1. CASE Race /\ top # bottom
  <2> USE DEF OwnerGoto
  <2>1. /\ Room' = Room /\ Current' = Current /\ opc = "race" /\ opc' = "restore"
        /\ UNCHANGED <<top, bottom, arrays, pushed, taken, seen, thief>>
    BY <1>1 DEF Race, Room, Current
  <2>2. TypeOK' /\ End' = End
    BY <2>1 DEF TypeOK, End
  <2>3. top = End
    BY <1>1, <2>1, EndIs DEF Indices
  <2>4. Indices'
    BY <2>1, <2>2, <2>3 DEF Indices
  <2> QED
    BY <2>1, <2>2, <2>4, OwnerMoves
<1>2. ASSUME NEW p \in Thieves, Steal(p), top # t[p] PROVE Inv' /\ End' = End /\ UNCHANGED <<top, arrays, taken>>
  <2> USE DEF Goto
  <2>1. /\ UNCHANGED <<top, bottom, arrays, pushed, taken, owner, t, a, x>>
        /\ \A n, i : At(n, i)' = At(n, i)
        /\ \A q : At(a[q], top)' = At(a[q], top)
    BY <1>2 DEF Steal, At
  <2>2. Current' = Current /\ Room' = Room /\ End' = End
    BY <2>1 DEF Current, Room, End
  <2>3. \A q \in Thieves : pc'[q] = IF q = p THEN "idle" ELSE pc[q]
    BY <1>2 DEF Steal, TypeOK
  <2>4. TypeOK'
    BY <1>2, <2>1 DEF Steal, TypeOK
  <2>5. Indices' /\ Items'
    BY <2>1, <2>2 DEF Indices, Items
  <2>6. Stealing'
    BY <2>1, <2>2, <2>3 DEF Stealing
  <2> QED
    BY <2>1, <2>2, <2>4, <2>5, <2>6
<1> QED
  BY <1>1, <1>2

LEMMA StepInv == Cautious /\ Inv /\ [Next]_vars => Inv'
<1> SUFFICES ASSUME Cautious, Inv, [Next]_vars PROVE Inv'
  OBVIOUS
<1>1. CASE PushLoad \/ Claim \/ FindEmpty \/ FindLast \/ Restore
  BY <1>1, OwnerLooks
<1>2. CASE Resize \/ Write
  BY <1>2, ArraysMove
<1>3. CASE Publish
  BY <1>3, PublishAdds
<1>4. CASE FindMany
  BY <1>4, PopTakes
<1>5. CASE Race
  BY <1>5, PopTakes, ExchangeFails
<1>6. ASSUME NEW p \in Thieves, LoadTop(p) \/ LoadBottom(p) \/ LoadArray(p) \/ LoadSlot(p)
      PROVE  Inv'
  BY <1>6, ThiefReads
<1>7. ASSUME NEW p \in Thieves, Steal(p) PROVE Inv'
  BY <1>7, StealTakes, ExchangeFails
<1>8. CASE UNCHANGED vars
  BY <1>8 DEF vars, Inv, TypeOK, Indices, Items, Stealing, End, Room, Current, At
<1> QED
  BY <1>1, <1>2, <1>3, <1>4, <1>5, <1>6, <1>7, <1>8 DEF Next

\* With an owner that pushes first, the invariant holds in every state of the queue.
THEOREM QueueInvariant ==
  ASSUME Cautious
  PROVE  Spec => []Inv
<1>1. Cautious
  OBVIOUS
<1> QED
  BY <1>1, InitInv, StepInv, PTL DEF Spec

\* No element is returned by two calls of pop or steal (spmc_queue.hpp:100-160), whoever
\* makes them.
THEOREM EachTakenOnce ==
  ASSUME Cautious
  PROVE  Spec => []TakenOnce
<1>1. Inv => TakenOnce
  BY DEF Inv, Items, TakenOnce
<1> QED
  BY <1>1, QueueInvariant, PTL

\* The assertion of pop holds (spmc_queue.hpp:124), and pop gives up on an empty queue
\* only.
THEOREM PopFinds ==
  ASSUME Cautious
  PROVE  Spec => []PopFindsElement
<1>1. Inv => PopFindsElement
  <2> SUFFICES ASSUME Inv PROVE PopFindsElement
    OBVIOUS
  <2>1. ASSUME opc = "look", top <= bottom PROVE At(Current, bottom) # Null
    <3>1. bottom \in top .. End - 1
      BY <2>1, EndIs DEF Inv
    <3>2. At(Current, bottom) \in 1 .. pushed
      BY <3>1 DEF Inv, Items
    <3> QED
      BY <3>2 DEF Null
  <2> QED
    BY <2>1 DEF Inv, Indices, PopFindsElement
<1> QED
  BY <1>1, QueueInvariant, PTL

-----------------------------------------------------------------------------
(* The queue is a double-ended queue: what the refinement maps it to.      *)

Queue == [i \in 1 .. End - top |-> At(Current, top + i - 1)]
Returned == {e \in Elements : taken[e] > 0}

LEMMA IsSeq ==
  ASSUME NEW S, NEW n \in Nat, NEW s, s \in [1 .. n -> S]
  PROVE  s \in Seq(S) /\ Len(s) = n
<1>1. s \in Seq(S)
  BY SeqDef
<1>2. DOMAIN s = 1 .. n /\ DOMAIN s = 1 .. Len(s) /\ Len(s) \in Nat
  BY <1>1, LenProperties
<1> QED
  BY <1>1, <1>2

LEMMA QueueItems ==
  ASSUME Inv
  PROVE  /\ Queue \in Seq(Elements) /\ Len(Queue) = End - top
         /\ \A i \in 1 .. End - top :
              /\ Queue[i] = At(Current, top + i - 1)
              /\ Queue[i] \in 1 .. pushed /\ taken[Queue[i]] = 0
<1>1. End - top \in Nat /\ top \in Nat /\ End \in Nat /\ pushed \in 0 .. Pushes /\ Pushes \in Nat
  BY EndIs DEF Inv, Indices
<1>2. \A i \in 1 .. End - top : Queue[i] = At(Current, top + i - 1)
  BY DEF Queue
<1>3. \A i \in 1 .. End - top : Queue[i] \in 1 .. pushed /\ taken[Queue[i]] = 0
  <2> SUFFICES ASSUME NEW i \in 1 .. End - top
               PROVE  Queue[i] \in 1 .. pushed /\ taken[Queue[i]] = 0
    OBVIOUS
  <2>1. top + i - 1 \in top .. End - 1
    BY <1>1
  <2> QED
    BY <1>2, <2>1 DEF Inv, Items
<1>4. Queue \in [1 .. End - top -> Elements]
  <2>1. \A i \in 1 .. End - top : Queue[i] \in Elements
    BY <1>1, <1>3 DEF Elements
  <2> QED
    BY <2>1 DEF Queue
<1> QED
  BY <1>1, <1>2, <1>3, <1>4, IsSeq

\* The queue between new values n and m of top and End, in an array that stays.
LEMMA NewQueue ==
  ASSUME Inv, UNCHANGED arrays, NEW n \in Nat, NEW m \in Nat, n <= m, top' = n, End' = m,
         \A i \in n .. m - 1 : At(Current, i) \in Elements
  PROVE  /\ Queue' \in Seq(Elements) /\ Len(Queue') = m - n
         /\ \A i \in 1 .. m - n : Queue'[i] = At(Current, n + i - 1)
<1>1. Queue' = [i \in 1 .. m - n |-> At(Current, n + i - 1)]
  BY DEF Queue, At, Current
<1>2. \A i \in 1 .. m - n : Queue'[i] = At(Current, n + i - 1)
  BY <1>1
<1>3. \A i \in 1 .. m - n : n + i - 1 \in n .. m - 1
  OBVIOUS
<1>4. Queue' \in [1 .. m - n -> Elements]
  BY <1>1, <1>3
<1>5. m - n \in Nat
  OBVIOUS
<1> QED
  BY <1>2, <1>4, <1>5, IsSeq

LEMMA ReturnedGrows ==
  ASSUME Inv, NEW e \in 1 .. pushed, taken' = [taken EXCEPT ![e] = @ + 1]
  PROVE  Returned' = Returned \cup {e}
<1>1. taken \in [Slots -> Nat] /\ e \in Elements
  BY EndIs DEF Inv, TypeOK, Elements
<1>2. \A d \in Elements : taken'[d] = IF d = e THEN taken[d] + 1 ELSE taken[d]
  BY <1>1 DEF Slots
<1>3. \A d \in Elements : taken[d] \in Nat
  BY <1>1 DEF Slots
<1>4. \A d \in Elements : taken'[d] > 0 <=> d = e \/ taken[d] > 0
  BY <1>2, <1>3
<1> QED
  BY <1>1, <1>4 DEF Returned

\* Whatever leaves the elements in their places leaves the queue as it is.
LEMMA SameQueue ==
  ASSUME Inv, End' = End, UNCHANGED <<top, taken>>,
         \A i \in top .. End - 1 : At(Current, i)' = At(Current, i)
  PROVE  UNCHANGED <<Queue, Returned>>
<1>1. top \in Nat /\ End \in Nat
  BY EndIs DEF Inv
<1> QED
  BY <1>1 DEF Queue, Returned, At

\* What a sequence is after an element has been added to it, or its first one dropped.
LEMMA Appended ==
  ASSUME NEW S, NEW s \in Seq(S), NEW e \in S
  PROVE  /\ Append(s, e) \in Seq(S) /\ Len(Append(s, e)) = Len(s) + 1
         /\ \A i \in 1 .. Len(s) : Append(s, e)[i] = s[i]
         /\ Append(s, e)[Len(s) + 1] = e
BY AppendProperties

LEMMA Tailed ==
  ASSUME NEW S, NEW s \in Seq(S), s # <<>>
  PROVE  /\ Tail(s) \in Seq(S) /\ Len(Tail(s)) = Len(s) - 1
         /\ \A i \in 1 .. Len(Tail(s)) : Tail(s)[i] = s[i + 1]
BY HeadTailProperties

LEMMA PublishPushes ==
  ASSUME Inv, Publish
  PROVE  Contract!Push(pushed + 1) /\ pushed + 1 \in Elements
<1>1. /\ End = bottom /\ End' = bottom + 1 /\ bottom \in Nat /\ top \in Nat /\ top <= bottom
      /\ pushed \in Nat /\ pushed + 1 \in Elements
      /\ At(Current, bottom) = pushed + 1
      /\ UNCHANGED <<top, arrays, taken>>
  <2>1. opc = "publish" /\ UNCHANGED <<top, arrays, taken>>
    BY DEF Publish, OwnerGoto
  <2>2. End = bottom /\ End' = bottom + 1 /\ bottom \in Nat /\ top \in Nat /\ top <= bottom
    BY PublishAdds, EndIs DEF Inv, Indices
  <2>3. pushed \in Nat /\ pushed + 1 \in Elements
    BY <2>1, EndIs DEF Inv, Indices, Elements
  <2> QED
    BY <2>1, <2>2, <2>3 DEF Inv, Items
<1>2. /\ Queue \in Seq(Elements) /\ Len(Queue) = bottom - top
      /\ \A i \in 1 .. bottom - top : Queue[i] = At(Current, top + i - 1)
      /\ \A i \in 1 .. bottom - top : Queue[i] \in 1 .. pushed
  BY <1>1, QueueItems
<1>3. \A i \in top .. bottom : At(Current, i) \in Elements
  <2>1. \A i \in top .. bottom - 1 : At(Current, i) \in 1 .. pushed
    BY <1>1 DEF Inv, Items
  <2>2. 1 .. pushed \subseteq Elements
    BY EndIs DEF Inv, Elements
  <2> QED
    BY <1>1, <2>1, <2>2
<1>4. /\ Queue' \in Seq(Elements) /\ Len(Queue') = bottom + 1 - top
      /\ \A i \in 1 .. bottom + 1 - top : Queue'[i] = At(Current, top + i - 1)
  <2>1. top' = top /\ bottom + 1 \in Nat /\ top <= bottom + 1 /\ bottom + 1 - 1 = bottom
    BY <1>1
  <2> QED
    BY <1>1, <1>3, <2>1, NewQueue
<1>5. Queue' = Append(Queue, pushed + 1)
  <2> DEFINE r == Append(Queue, pushed + 1)
  <2>1. /\ r \in Seq(Elements) /\ Len(r) = Len(Queue) + 1
        /\ \A i \in 1 .. Len(Queue) : r[i] = Queue[i]
        /\ r[Len(Queue) + 1] = pushed + 1
    <3>1. pushed + 1 \in Elements
      BY <1>1
    <3> QED
      BY <1>2, <3>1, Appended
  <2> HIDE DEF r
  <2>2. \A i \in 1 .. Len(Queue') : Queue'[i] = r[i]
    <3> SUFFICES ASSUME NEW i \in 1 .. bottom + 1 - top PROVE Queue'[i] = r[i]
      BY <1>4
    <3>1. CASE i = bottom + 1 - top
      BY <1>1, <1>2, <1>4, <2>1, <3>1
    <3>2. CASE i # bottom + 1 - top
      BY <1>1, <1>2, <1>4, <2>1, <3>2
    <3> QED
      BY <3>1, <3>2
  <2>3. Len(Queue') = Len(r)
    BY <1>1, <1>2, <1>4, <2>1
  <2> QED
    BY <1>4, <2>1, <2>2, <2>3, SeqEqual DEF r
<1>6. pushed + 1 \notin {Queue[i] : i \in DOMAIN Queue} \cup Returned
  <2>1. \A i \in DOMAIN Queue : Queue[i] # pushed + 1
    BY <1>1, <1>2, LenProperties
  <2>2. taken[pushed + 1] = 0
    BY <1>1 DEF Inv, Items
  <2> QED
    BY <2>1, <2>2 DEF Returned
<1>7. Returned' = Returned
  BY <1>1 DEF Returned
<1> QED
  BY <1>1, <1>5, <1>6, <1>7 DEF Contract!Push, Contract!Range, Queue, Returned

LEMMA PopPops ==
  ASSUME Inv, FindMany \/ (Race /\ top = bottom)
  PROVE  Contract!Pop
<1>1. /\ Inv' /\ top < End /\ End' - top' = End - top - 1
      /\ top <= top' /\ top' \in Nat /\ End' \in Nat
      /\ top' # top => End' = top'
      /\ taken' = [taken EXCEPT ![At(Current, End - 1)] = @ + 1]
      /\ UNCHANGED arrays
  BY PopTakes DEF FindMany, Race
<1>2. top \in Nat /\ End \in Nat /\ pushed \in 0 .. Pushes /\ Pushes \in Nat
  BY EndIs DEF Inv
<1>3. PICK n \in Nat, m \in Nat : top' = n /\ End' = m
  BY <1>1
<1>4. m - n = End - top - 1 /\ top <= n /\ (n # top => m = n)
  BY <1>1, <1>3
<1>5. /\ Queue \in Seq(Elements) /\ Len(Queue) = End - top
      /\ \A i \in 1 .. End - top : Queue[i] = At(Current, top + i - 1) /\ Queue[i] \in 1 .. pushed
  BY QueueItems
<1>6. /\ Queue' \in Seq(Elements) /\ Len(Queue') = End - top - 1
      /\ \A i \in 1 .. End - top - 1 : Queue'[i] = At(Current, top + i - 1)
  <2>1. \A i \in n .. m - 1 : At(Current, i) \in Elements
    <3> SUFFICES ASSUME NEW i \in n .. m - 1 PROVE At(Current, i) \in Elements
      OBVIOUS
    <3>1. i \in top .. End - 1
      BY <1>1, <1>2, <1>4
    <3> QED
      BY <1>2, <3>1 DEF Inv, Items, Elements
  <2>2. n <= m
    BY <1>1, <1>2, <1>4
  <2>3. /\ Queue' \in Seq(Elements) /\ Len(Queue') = m - n
        /\ \A i \in 1 .. m - n : Queue'[i] = At(Current, n + i - 1)
    BY <1>1, <1>3, <2>1, <2>2, NewQueue
  <2>4. CASE n = top
    BY <1>4, <2>3, <2>4
  <2>5. CASE n # top
    <3>1. m - n = 0 /\ End - top - 1 = 0
      BY <1>4, <2>5
    <3> QED
      BY <2>3, <3>1
  <2> QED
    BY <2>4, <2>5
<1>7. Queue' = SubSeq(Queue, 1, Len(Queue) - 1)
  <2> DEFINE r == SubSeq(Queue, 1, Len(Queue) - 1)
             k == Len(Queue) - 1
  <2>1. k \in Nat /\ k = End - top - 1
    BY <1>1, <1>2, <1>5
  <2>2. \A i \in 1 .. k : Queue[i] \in Elements
    BY <1>2, <1>5, <2>1 DEF Elements
  <2> HIDE DEF k
  <2>3. /\ SubSeq(Queue, 1, k) \in Seq(Elements)
        /\ Len(SubSeq(Queue, 1, k)) = IF 1 <= k THEN k - 1 + 1 ELSE 0
        /\ \A i \in 1 .. k - 1 + 1 : SubSeq(Queue, 1, k)[i] = Queue[1 + i - 1]
    BY <2>1, <2>2, SubSeqProperties
  <2>4. SubSeq(Queue, 1, k) \in Seq(Elements) /\ Len(SubSeq(Queue, 1, k)) = k
        /\ \A i \in 1 .. k : SubSeq(Queue, 1, k)[i] = Queue[i]
    BY <2>1, <2>3
  <2>5. \A i \in 1 .. k : Queue'[i] = SubSeq(Queue, 1, k)[i]
    BY <1>2, <1>5, <1>6, <2>1, <2>4
  <2> QED
    BY <1>6, <2>1, <2>4, <2>5, SeqEqual DEF k
<1>8. Queue[Len(Queue)] = At(Current, End - 1) /\ Queue # <<>>
  <2>1. End - top \in 1 .. End - top /\ top + (End - top) - 1 = End - 1
    BY <1>1, <1>2
  <2> QED
    BY <1>2, <1>5, <2>1, EmptySeq
<1>9. Returned' = Returned \cup {Queue[Len(Queue)]}
  <2>1. Queue[Len(Queue)] \in 1 .. pushed
    BY <1>1, <1>2, <1>5
  <2> QED
    BY <1>1, <1>8, <2>1, ReturnedGrows
<1> QED
  BY <1>7, <1>8, <1>9 DEF Contract!Pop, Queue, Returned

LEMMA StealSteals ==
  ASSUME Inv, NEW p \in Thieves, Steal(p), top = t[p]
  PROVE  Contract!Steal
<1>1. /\ top < End /\ End' = End /\ top' = top + 1
      /\ taken' = [taken EXCEPT ![At(Current, top)] = @ + 1]
      /\ UNCHANGED arrays
  BY StealTakes DEF Steal
<1>2. top \in Nat /\ End \in Nat /\ pushed \in 0 .. Pushes /\ Pushes \in Nat
  BY EndIs DEF Inv
<1>3. /\ Queue \in Seq(Elements) /\ Len(Queue) = End - top
      /\ \A i \in 1 .. End - top : Queue[i] = At(Current, top + i - 1) /\ Queue[i] \in 1 .. pushed
  BY QueueItems
<1>4. Queue # <<>> /\ Head(Queue) = At(Current, top) /\ Head(Queue) \in 1 .. pushed
  <2>1. 1 \in 1 .. End - top /\ top + 1 - 1 = top
    BY <1>1, <1>2
  <2>2. Queue # <<>>
    BY <1>1, <1>2, <1>3, EmptySeq
  <2>3. Head(Queue) = Queue[1]
    BY <1>3, <2>2
  <2> QED
    BY <1>3, <2>1, <2>2, <2>3
<1>5. /\ Queue' \in Seq(Elements) /\ Len(Queue') = End - (top + 1)
      /\ \A i \in 1 .. End - (top + 1) : Queue'[i] = At(Current, top + 1 + i - 1)
  <2>1. \A i \in top + 1 .. End - 1 : At(Current, i) \in Elements
    <3>1. \A i \in top + 1 .. End - 1 : i \in top .. End - 1
      BY <1>2
    <3> QED
      BY <1>2, <3>1 DEF Inv, Items, Elements
  <2> QED
    BY <1>1, <1>2, <2>1, NewQueue
<1>6. Queue' = Tail(Queue)
  <2> DEFINE r == Tail(Queue)
  <2>1. r \in Seq(Elements) /\ Len(r) = Len(Queue) - 1 /\ \A i \in 1 .. Len(r) : r[i] = Queue[i + 1]
    BY <1>3, <1>4, Tailed
  <2> HIDE DEF r
  <2>2. \A i \in 1 .. Len(Queue') : Queue'[i] = r[i]
    <3> SUFFICES ASSUME NEW i \in 1 .. End - (top + 1) PROVE Queue'[i] = r[i]
      BY <1>5
    <3>1. Len(r) = End - (top + 1) /\ i \in Nat /\ 1 <= i /\ i <= End - (top + 1)
      BY <1>2, <1>3, <2>1
    <3>2. i + 1 \in 1 .. End - top
      BY <1>2, <3>1
    <3>3. i \in 1 .. Len(r)
      BY <3>1
    <3>4. top + 1 + i - 1 = top + (i + 1) - 1
      BY <1>2, <3>1
    <3> QED
      BY <1>3, <1>5, <2>1, <3>2, <3>3, <3>4
  <2>3. Len(Queue') = Len(r)
    BY <1>2, <1>3, <1>5, <2>1
  <2> QED
    BY <1>5, <2>1, <2>2, <2>3, SeqEqual DEF r
<1>7. Returned' = Returned \cup {Head(Queue)}
  BY <1>1, <1>4, ReturnedGrows
<1> QED
  BY <1>4, <1>6, <1>7 DEF Contract!Steal, Queue, Returned

LEMMA StepImplements ==
  ASSUME Cautious, Inv, Inv', [Next]_vars
  PROVE  Contract!Next \/ UNCHANGED <<Queue, Returned>>
<1>1. CASE PushLoad \/ Claim \/ FindEmpty \/ FindLast \/ Restore
  <2>1. UNCHANGED <<top, arrays, pushed, taken>> /\ \A i : At(Current, i)' = At(Current, i)
    BY <1>1 DEF PushLoad, Claim, FindEmpty, FindLast, Restore, At, Current
  <2>2. End' = End
    <3>1. CASE PushLoad
      BY <3>1 DEF PushLoad, OwnerGoto, End
    <3>2. CASE Claim
      <4>1. bottom \in 1 .. Pushes
        BY <3>2, EndIs DEF Claim, OwnerGoto, Cautious, Inv, Indices
      <4>2. bottom' = bottom - 1
        BY <3>2, <4>1, Exact DEF Claim
      <4> QED
        BY <3>2, <4>1, <4>2 DEF Claim, OwnerGoto, End
    <3>3. CASE FindEmpty \/ FindLast
      BY <3>3 DEF FindEmpty, FindLast, OwnerGoto, End
    <3>4. CASE Restore
      <4>1. bottom \in 0 .. Pushes
        BY <3>4, EndIs DEF Restore, OwnerGoto, Inv, Indices
      <4>2. bottom' = bottom + 1
        BY <3>4, <4>1, Exact DEF Restore
      <4> QED
        BY <3>4, <4>1, <4>2 DEF Restore, OwnerGoto, End
    <3> QED
      BY <1>1, <3>1, <3>2, <3>3, <3>4
  <2> QED
    BY <2>1, <2>2, SameQueue
<1>2. CASE Resize \/ Write
  <2>1. /\ UNCHANGED <<top, bottom, taken, seen>>
        /\ opc \in {"push", "write"} /\ opc' \in {"write", "publish"}
    BY <1>2 DEF Resize, Write, OwnerGoto
  <2>2. End = bottom /\ End' = End /\ seen <= top
    BY <2>1 DEF End, Inv, Indices
  <2>3. \A i \in seen .. bottom - 1 : At(Current, i)' = At(Current, i)
    BY <1>2, ResizeChanges, WriteChanges DEF Inv
  <2>4. \A i \in top .. End - 1 : At(Current, i)' = At(Current, i)
    BY <2>2, <2>3, EndIs DEF Inv
  <2> QED
    BY <2>1, <2>2, <2>4, SameQueue
<1>3. CASE Publish
  BY <1>3, PublishPushes DEF Contract!Next
<1>4. CASE FindMany \/ (Race /\ top = bottom)
  BY <1>4, PopPops DEF Contract!Next
<1>5. ASSUME NEW p \in Thieves, Steal(p), top = t[p] PROVE Contract!Next
  BY <1>5, StealSteals DEF Contract!Next
<1>6. CASE (Race /\ top # bottom) \/ \E p \in Thieves : Steal(p) /\ top # t[p]
  <2>1. \A i : At(Current, i)' = At(Current, i)
    BY <1>6, ExchangeFails DEF At, Current
  <2> QED
    BY <1>6, <2>1, ExchangeFails, SameQueue
<1>7. ASSUME \/ UNCHANGED vars
             \/ \E p \in Thieves : LoadTop(p) \/ LoadBottom(p) \/ LoadArray(p) \/ LoadSlot(p)
      PROVE  UNCHANGED <<Queue, Returned>>
  BY <1>7 DEF vars, LoadTop, LoadBottom, LoadArray, LoadSlot, Queue, Returned, End, At, Current
<1> QED
  BY <1>1, <1>2, <1>3, <1>4, <1>5, <1>6, <1>7 DEF Next

\* The indices and the arrays implement a double-ended queue: push adds at one end (the
\* store of bottom_), pop takes there, steal takes the oldest element at the other end,
\* and growing, claiming and looking change nothing anybody can tell.
THEOREM QueueImplementsDeque ==
  ASSUME Cautious
  PROVE  Spec => Implements
<1>1. Init => Contract!Init
  <2> SUFFICES ASSUME Init PROVE Contract!Init
    OBVIOUS
  <2>1. Inv
    BY InitInv
  <2>2. End = 0 /\ top = 0
    BY DEF Init, End
  <2>3. Queue = <<>>
    BY <2>1, <2>2, QueueItems, EmptySeq
  <2>4. Returned = {}
    BY DEF Init, Returned
  <2> QED
    BY <2>3, <2>4 DEF Contract!Init, Queue, Returned
<1>2. Inv /\ Inv' /\ [Next]_vars =>
        [Contract!Next]_<<[i \in 1 .. End - top |-> At(Current, top + i - 1)],
                          {e \in Elements : taken[e] > 0}>>
  BY StepImplements DEF Queue, Returned
<1> QED
  BY <1>1, <1>2, QueueInvariant, PTL DEF Spec, Implements, Contract!Spec
=============================================================================
