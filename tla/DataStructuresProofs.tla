------------------------ MODULE DataStructuresProofs ------------------------
(***************************************************************************)
(* What the data structures of 02-datastructure and the generator of       *)
(* 05-coroutine promise, for every capacity, heap and set of elements.     *)
(* They share nothing: each has a section of its own, with its inductive   *)
(* invariant, and the last section brings them together.                   *)
(***************************************************************************)
EXTENDS MCDataStructures, MCOwnedArrays, SequenceTheorems, FiniteSetTheorems,
        WellFoundedInduction, TLAPS

-----------------------------------------------------------------------------
(* Queue<T>, for every capacity, zero included.  The inductive invariant is
   RingInv. *)

RingInv == TypeOK /\ ElementsAreWritten /\ PointerOutlivesRefills

(* The index (ptr + size) % capa, for a position less than two turns ahead. *)
LEMMA OneTurn ==
  ASSUME NEW n \in Nat, n > 0, NEW a \in Nat, a < 2 * n
  PROVE  a % n = IF a >= n THEN a - n ELSE a
<1>1. CASE a < n
  BY <1>1
<1>2. CASE a >= n
  <2>1. a - n \in 0 .. n - 1
    BY <1>2
  <2>2. a % n = (a - n) % n
    OBVIOUS
  <2> QED BY <1>2, <2>1, <2>2
<1> QED BY <1>1, <1>2

(* Where inQueue writes: the slot behind the last element, which is a slot of
   the array and no element's. *)
LEMMA FreeSlot ==
  ASSUME TypeOK, size < capa
  PROVE  /\ (ptr + size) % capa = SlotOf(size + 1)
         /\ SlotOf(size + 1) \in Slots
         /\ \A k \in 1 .. size : SlotOf(k) \in Slots /\ SlotOf(k) # SlotOf(size + 1)
<1> USE CapaIsNat DEF TypeOK, SlotOf, Slots
<1>1. /\ capa \in Nat /\ capa > 0 /\ ptr \in Nat /\ ptr < capa
      /\ size \in Nat /\ ptr + size \in Nat /\ ptr + size < 2 * capa
  OBVIOUS
<1>2. (ptr + size) % capa = IF ptr + size >= capa THEN ptr + size - capa ELSE ptr + size
  BY <1>1, OneTurn
<1>3. SlotOf(size + 1) = IF ptr + size >= capa THEN ptr + size - capa ELSE ptr + size
  BY <1>1
<1>4. ASSUME NEW k \in 1 .. size
      PROVE  SlotOf(k) \in Slots /\ SlotOf(k) # SlotOf(size + 1)
  BY <1>1, <1>4
<1> QED BY <1>1, <1>2, <1>3, <1>4

LEMMA InitRing == Init => RingInv
  BY CapaIsNat
     DEF Init, RingInv, TypeOK, Slots, ElementsAreWritten, PointerOutlivesRefills

LEMMA InQueueRing ==
  ASSUME RingInv, NEW e \in Values, inQueue(e)
  PROVE  RingInv'
<1> DEFINE idx == SlotOf(size + 1)
<1>1. /\ size < capa /\ size' = size + 1
      /\ data' = [data EXCEPT ![idx] = e]
      /\ UNCHANGED <<ptr, slot, elem>>
  BY FreeSlot DEF inQueue, RingInv
<1>2. idx \in Slots /\ \A k \in 1 .. size : SlotOf(k) \in Slots /\ SlotOf(k) # idx
  BY <1>1, FreeSlot DEF RingInv
<1>3. \A k \in 1 .. size + 1 : SlotOf(k)' = SlotOf(k)
  BY <1>1 DEF SlotOf
<1>4. TypeOK'
  BY <1>1, <1>2, CapaIsNat DEF RingInv, TypeOK, Slots
<1>5. ElementsAreWritten'
  <2>1. ASSUME NEW k \in 1 .. size + 1 PROVE data'[SlotOf(k)] \in Values
    <3>1. CASE k = size + 1
      BY <1>1, <1>2, <3>1 DEF RingInv, TypeOK
    <3>2. CASE k # size + 1
      <4>1. k \in 1 .. size
        BY <3>2 DEF RingInv, TypeOK
      <4> QED BY <1>1, <1>2, <4>1 DEF RingInv, TypeOK, ElementsAreWritten
    <3> QED BY <3>1, <3>2
  <2> QED BY <1>1, <1>3, <2>1 DEF ElementsAreWritten
<1>6. PointerOutlivesRefills'
  <2> SUFFICES ASSUME slot # -1, size + 1 < capa
               PROVE  /\ data'[slot] = elem
                      /\ slot = IF ptr = 0 THEN capa - 1 ELSE ptr - 1
    BY <1>1 DEF PointerOutlivesRefills
  <2>1. /\ data[slot] = elem
        /\ slot = IF ptr = 0 THEN capa - 1 ELSE ptr - 1
    BY CapaIsNat DEF RingInv, TypeOK, PointerOutlivesRefills
  <2>2. slot \in Slots /\ slot # idx
    BY <2>1, CapaIsNat DEF RingInv, TypeOK, SlotOf, Slots
  <2> QED BY <1>1, <1>2, <2>1, <2>2 DEF RingInv, TypeOK
<1> QED BY <1>4, <1>5, <1>6 DEF RingInv

(* deQueue moves every remaining element one position forward and leaves it in
   its slot. *)
LEMMA DeQueueShifts ==
  ASSUME RingInv, deQueue
  PROVE  /\ ptr \in Slots /\ SlotOf(1) = ptr /\ size > 0
         /\ \A k \in 1 .. size - 1 : SlotOf(k)' = SlotOf(k + 1)
  BY CapaIsNat DEF RingInv, TypeOK, deQueue, isEmpty, SlotOf, Slots

LEMMA DeQueueRing ==
  ASSUME RingInv, deQueue
  PROVE  RingInv'
<1>1. /\ ptr \in Slots /\ SlotOf(1) = ptr /\ size > 0
      /\ \A k \in 1 .. size - 1 : SlotOf(k)' = SlotOf(k + 1)
  BY DeQueueShifts
<1>2. TypeOK'
  BY <1>1, CapaIsNat DEF RingInv, TypeOK, deQueue, Slots
<1>3. ElementsAreWritten'
  <2>1. ASSUME NEW k \in 1 .. size - 1 PROVE data[SlotOf(k)'] \in Values
    <3>1. k + 1 \in 1 .. size
      BY DEF RingInv, TypeOK
    <3> QED BY <1>1, <3>1 DEF RingInv, ElementsAreWritten
  <2> QED BY <2>1 DEF deQueue, ElementsAreWritten
<1>4. PointerOutlivesRefills'
  BY <1>1, CapaIsNat DEF RingInv, TypeOK, deQueue, Slots, PointerOutlivesRefills
<1> QED BY <1>2, <1>3, <1>4 DEF RingInv

(* Type, written elements and the lifetime of the returned pointer, in every
   execution and for every capacity. *)
THEOREM RingIsSound == Spec => []RingInv
<1>1. RingInv /\ [Next]_vars => RingInv'
  <2> SUFFICES ASSUME RingInv, [Next]_vars PROVE RingInv'
    OBVIOUS
  <2>1. CASE UNCHANGED vars
    BY <2>1 DEF vars, RingInv, TypeOK, ElementsAreWritten, SlotOf,
                PointerOutlivesRefills
  <2> QED
    BY <2>1, InQueueRing, DeQueueRing DEF Next, inQueueFull, deQueueEmpty
<1> QED BY <1>1, InitRing, PTL DEF Spec

-----------------------------------------------------------------------------

LEMMA ContentsIsASeq ==
  ASSUME RingInv
  PROVE  Contents \in Seq(Values) /\ Len(Contents) = size
         /\ \A k \in 1 .. size : Contents[k] = data[SlotOf(k)]
  BY DEF RingInv, TypeOK, ElementsAreWritten, Contents

(* inQueue puts its element behind the last. *)
LEMMA InQueueAppends ==
  ASSUME RingInv, NEW e \in Values, inQueue(e)
  PROVE  D!PushBack(e)
<1> DEFINE idx == SlotOf(size + 1)
<1>1. /\ size < capa /\ size' = size + 1
      /\ data' = [data EXCEPT ![idx] = e]
      /\ UNCHANGED <<ptr, slot, elem>>
  BY FreeSlot DEF inQueue, RingInv
<1>2. idx \in Slots /\ \A k \in 1 .. size : SlotOf(k) \in Slots /\ SlotOf(k) # idx
  BY <1>1, FreeSlot DEF RingInv
<1>3. \A k \in 1 .. size + 1 : SlotOf(k)' = SlotOf(k)
  BY <1>1 DEF SlotOf
<1>4. Contents' = [k \in 1 .. size + 1 |-> data'[SlotOf(k)]]
  BY <1>1, <1>3 DEF Contents
<1>5. \A k \in 1 .. size + 1 :
        data'[SlotOf(k)] = IF k = size + 1 THEN e ELSE data[SlotOf(k)]
  <2> SUFFICES ASSUME NEW k \in 1 .. size + 1
               PROVE  data'[SlotOf(k)] = IF k = size + 1 THEN e ELSE data[SlotOf(k)]
    OBVIOUS
  <2>1. size \in Nat /\ (k = size + 1 \/ k \in 1 .. size)
    BY DEF RingInv, TypeOK
  <2> QED BY <1>1, <1>2, <2>1 DEF RingInv, TypeOK
<1>6. Append(Contents, e) = [k \in 1 .. size + 1 |-> IF k = size + 1 THEN e ELSE data[SlotOf(k)]]
  <2>1. /\ Contents \in Seq(Values) /\ Len(Contents) = size
        /\ \A k \in 1 .. size : Contents[k] = data[SlotOf(k)]
    BY ContentsIsASeq
  <2>2. /\ Append(Contents, e) \in Seq(Values)
        /\ Len(Append(Contents, e)) = size + 1
        /\ Append(Contents, e)[size + 1] = e
        /\ \A k \in 1 .. size : Append(Contents, e)[k] = Contents[k]
    BY <2>1, AppendProperties
  <2>3. Append(Contents, e) \in [1 .. size + 1 -> Values]
    BY <2>2, LenProperties
  <2>4. ASSUME NEW k \in 1 .. size + 1
        PROVE  Append(Contents, e)[k] = IF k = size + 1 THEN e ELSE data[SlotOf(k)]
    <3>1. k = size + 1 \/ k \in 1 .. size
      BY DEF RingInv, TypeOK
    <3>2. k \in 1 .. size => k # size + 1
      BY DEF RingInv, TypeOK
    <3> QED BY <2>1, <2>2, <3>1, <3>2
  <2> QED BY <2>3, <2>4
<1>7. Contents' = Append(Contents, e)
  BY <1>4, <1>5, <1>6
<1>8. Len(Contents) < capa
  BY <1>1, ContentsIsASeq
<1> QED BY <1>1, <1>7, <1>8 DEF D!PushBack

(* deQueue takes the first element out, and gives it to its caller. *)
LEMMA DeQueueTakesFirst ==
  ASSUME RingInv, deQueue
  PROVE  D!PopFront
<1>1. /\ ptr \in Slots /\ SlotOf(1) = ptr /\ size > 0 /\ size \in Nat
      /\ \A k \in 1 .. size - 1 : SlotOf(k)' = SlotOf(k + 1)
  BY DeQueueShifts DEF RingInv, TypeOK
<1>2. /\ Contents \in Seq(Values) /\ Len(Contents) = size
      /\ \A k \in 1 .. size : Contents[k] = data[SlotOf(k)]
  BY ContentsIsASeq
<1>3. Contents # <<>> /\ elem' = Head(Contents)
  <2>1. Contents # <<>>
    BY <1>1, <1>2, EmptySeq
  <2>2. Head(Contents) = Contents[1]
    BY <1>2, <2>1, HeadTailProperties
  <2> QED BY <1>1, <1>2, <2>1, <2>2 DEF deQueue
<1>4. Contents' = [k \in 1 .. size - 1 |-> data[SlotOf(k + 1)]]
  BY <1>1 DEF Contents, deQueue
<1>5. Tail(Contents) = [k \in 1 .. size - 1 |-> data[SlotOf(k + 1)]]
  <2>1. /\ Tail(Contents) \in Seq(Values)
        /\ Len(Tail(Contents)) = size - 1
        /\ \A k \in 1 .. size - 1 : Tail(Contents)[k] = Contents[k + 1]
    BY <1>1, <1>2, <1>3, HeadTailProperties
  <2>2. \A k \in 1 .. size - 1 : Tail(Contents)[k] = data[SlotOf(k + 1)]
    BY <1>1, <1>2, <2>1
  <2>3. Tail(Contents) \in [1 .. size - 1 -> Values]
    BY <1>1, <2>1, LenProperties
  <2> QED BY <2>2, <2>3
<1> QED BY <1>3, <1>4, <1>5 DEF D!PopFront

(* Queue<T> implements the bounded first-in first-out queue. *)
THEOREM RingIsFifo == Spec => ImplementsFifo
<1>1. Init => D!DInit
  BY DEF Init, D!DInit, Contents
<1>2. RingInv /\ [Next]_vars => [FifoStep]_<<Contents, elem>>
  <2> SUFFICES ASSUME RingInv, [Next]_vars
               PROVE  FifoStep \/ UNCHANGED <<Contents, elem>>
    OBVIOUS
  <2>1. CASE UNCHANGED vars
    BY <2>1 DEF vars, Contents, SlotOf
  <2>2. ASSUME NEW e \in Values, inQueue(e) PROVE FifoStep
    BY <2>2, InQueueAppends DEF FifoStep
  <2>3. CASE deQueue
    BY <2>3, DeQueueTakesFirst DEF FifoStep
  <2> QED BY <2>1, <2>2, <2>3 DEF Next, inQueueFull, deQueueEmpty
<1> QED BY <1>1, <1>2, RingIsSound, PTL DEF Spec, ImplementsFifo

-----------------------------------------------------------------------------
(* FixedDeque<T>: in careful hands a double-ended queue, and its one overrun is
   one slot wide, for every length of its array.  The inductive invariant is
   DequeInv. *)

(* The k-th slot of a ring from slot f on, without the remainder *)
At(f, k) == IF f + k - 1 >= capa THEN f + k - 1 - capa ELSE f + k - 1

Before(f) == IF f > 0 THEN f - 1 ELSE capa - 1
After(f) == IF f # capa - 1 THEN f + 1 ELSE 0

Types ==
  /\ dequeData \in [Deque!Slots -> Values \union {Nothing}]
  /\ first \in Deque!Slots
  /\ dequeSize \in 0 .. capa
  /\ overrun \in BOOLEAN /\ dequeCareful \in BOOLEAN

LastIsNear ==
  /\ ~overrun => last \in Deque!Slots
  /\ overrun => last = capa

Span ==
  /\ ~overrun
  /\ dequeSize # 0 => last = At(first, dequeSize)
  /\ \A k \in 1 .. dequeSize : dequeData[At(first, k)] \in Values

DequeInv == Types /\ LastIsNear /\ (dequeCareful => Span)

-----------------------------------------------------------------------------
(* The remainder in SlotOf, for a position less than two turns ahead *)
LEMMA AtIsRemainder ==
  ASSUME capa \in Nat \ {0}, NEW f \in Deque!Slots, NEW k \in 1 .. capa
  PROVE  (f + k - 1) % capa = At(f, k)
<1> DEFINE a == f + k - 1
<1>1. a \in Nat /\ a < 2 * capa /\ capa > 0
  BY DEF Deque!Slots
<1>2. CASE a < capa
  <2>1. a % capa = a
    BY <1>1, <1>2
  <2> QED BY <1>1, <1>2, <2>1 DEF At
<1>3. CASE a >= capa
  <2>1. a - capa \in 0 .. capa - 1
    BY <1>1, <1>3
  <2>2. a % capa = (a - capa) % capa
    BY <1>1
  <2>3. (a - capa) % capa = a - capa
    BY <1>1, <2>1
  <2>4. (f + k - 1) % capa = a - capa
    BY <2>2, <2>3
  <2>5. At(f, k) = a - capa
    BY <1>3 DEF At, Deque!Slots
  <2> QED BY <2>4, <2>5
<1> QED BY <1>1, <1>2, <1>3

(* Different positions of a ring are different slots. *)
LEMMA AtIsOneToOne ==
  ASSUME capa \in Nat \ {0}, NEW f \in Deque!Slots, NEW j \in 1 .. capa, NEW k \in 1 .. capa
  PROVE  At(f, k) \in Deque!Slots /\ (At(f, j) = At(f, k) => j = k)
BY DEF Deque!Slots, At

(* What a slot more or less at the front does to the positions *)
LEMMA AtShifts ==
  ASSUME capa \in Nat \ {0}, NEW f \in Deque!Slots
  PROVE  /\ Before(f) \in Deque!Slots /\ After(f) \in Deque!Slots
         /\ At(f, 1) = f
         /\ \A k \in 1 .. capa - 1 : /\ At(Before(f), k + 1) = At(f, k)
                                     /\ At(After(f), k) = At(f, k + 1)
                                     /\ At(f, k) = Before(At(f, k + 1))
                                     /\ At(f, k + 1) = After(At(f, k))
BY DEF Deque!Slots, At, Before, After

LEMMA InitDeque == ASSUME capa \in Nat \ {0} PROVE Deque!Init => DequeInv
<1> SUFFICES ASSUME Deque!Init PROVE DequeInv
  OBVIOUS
<1>1. 0 \in Deque!Slots /\ 0 \in 0 .. capa
  BY DEF Deque!Slots
<1>2. Types
  BY <1>1, Zenon DEF Deque!Init, Types
<1>3. ~overrun /\ last \in Deque!Slots /\ dequeSize = 0
  BY <1>1, Zenon DEF Deque!Init
<1>4. 1 .. dequeSize = {} /\ ~(dequeSize # 0)
  BY <1>3
<1>5. Span
  BY <1>3, <1>4 DEF Span
<1> QED BY <1>2, <1>3, <1>5, Zenon DEF DequeInv, LastIsNear

-----------------------------------------------------------------------------
(* The sequence operators of the abstract deque, as functions of the position *)
LEMMA AppendAsFunction ==
  ASSUME NEW S, NEW s \in Nat, NEW g \in [1 .. s -> S], NEW e \in S
  PROVE  Append(g, e) = [k \in 1 .. s + 1 |-> IF k = s + 1 THEN e ELSE g[k]]
<1>1. g \in Seq(S) /\ Len(g) = s
  OBVIOUS
<1>2. /\ Append(g, e) \in Seq(S)
      /\ Len(Append(g, e)) = s + 1
      /\ Append(g, e)[s + 1] = e
      /\ \A k \in 1 .. s : Append(g, e)[k] = g[k]
  BY <1>1, AppendProperties
<1>3. Append(g, e) \in [1 .. s + 1 -> S]
  BY <1>2, LenProperties
<1>4. ASSUME NEW k \in 1 .. s + 1
      PROVE  Append(g, e)[k] = IF k = s + 1 THEN e ELSE g[k]
  <2>1. k = s + 1 \/ (k \in 1 .. s /\ k # s + 1)
    OBVIOUS
  <2> QED BY <1>2, <2>1
<1> QED BY <1>3, <1>4

LEMMA PrependAsFunction ==
  ASSUME NEW S, NEW s \in Nat, NEW g \in [1 .. s -> S], NEW e \in S
  PROVE  <<e>> \o g = [k \in 1 .. s + 1 |-> IF k = 1 THEN e ELSE g[k - 1]]
<1>1. g \in Seq(S) /\ Len(g) = s
  OBVIOUS
<1>2. <<e>> \in Seq(S) /\ Len(<<e>>) = 1 /\ <<e>>[1] = e
  OBVIOUS
<1> QED BY <1>1, <1>2, ConcatProperties

HeadAndTail(g, s) ==
  /\ g # <<>>
  /\ Head(g) = g[1]
  /\ Tail(g) = [k \in 1 .. s - 1 |-> g[k + 1]]

LEMMA TailAsFunction ==
  ASSUME NEW S, NEW s \in Nat \ {0}, NEW g \in [1 .. s -> S]
  PROVE  HeadAndTail(g, s)
<1>1. g \in Seq(S) /\ Len(g) = s
  OBVIOUS
<1>2. g # <<>>
  BY <1>1, EmptySeq
<1>3. /\ Tail(g) \in Seq(S)
      /\ Len(Tail(g)) = s - 1
      /\ \A k \in 1 .. s - 1 : Tail(g)[k] = g[k + 1]
  BY <1>1, <1>2, HeadTailProperties
<1>4. Tail(g) \in [1 .. s - 1 -> S]
  BY <1>3, LenProperties
<1>5. Tail(g) = [k \in 1 .. s - 1 |-> g[k + 1]]
  BY <1>3, <1>4
<1>6. Head(g) = g[1]
  BY <1>1, <1>2, HeadTailProperties
<1> QED BY <1>2, <1>5, <1>6 DEF HeadAndTail

LEMMA FrontAsFunction ==
  ASSUME NEW S, NEW s \in Nat \ {0}, NEW g \in [1 .. s -> S]
  PROVE  Len(g) = s /\ SubSeq(g, 1, s - 1) = [k \in 1 .. s - 1 |-> g[k]]
<1>1. g \in Seq(S) /\ Len(g) = s
  OBVIOUS
<1> QED BY <1>1, SubSeqProperties

-----------------------------------------------------------------------------
(* Contents without the remainder, in this state and in the next *)
LEMMA ContentsAt ==
  ASSUME capa \in Nat \ {0}, NEW d, NEW f \in Deque!Slots, NEW s \in 0 .. capa
  PROVE  [k \in 1 .. s |-> d[(f + k - 1) % capa]] = [k \in 1 .. s |-> d[At(f, k)]]
<1>1. \A k \in 1 .. s : (f + k - 1) % capa = At(f, k)
  BY AtIsRemainder
<1> QED BY <1>1

LEMMA ContentsNow ==
  ASSUME capa \in Nat \ {0}, Types
  PROVE  Deque!Contents = [k \in 1 .. dequeSize |-> dequeData[At(first, k)]]
BY ContentsAt DEF Types, Deque!Contents, Deque!SlotOf

LEMMA ContentsNext ==
  ASSUME capa \in Nat \ {0}, Types'
  PROVE  Deque!Contents' = [k \in 1 .. dequeSize' |-> dequeData'[At(first', k)]]
BY ContentsAt DEF Types, Deque!Contents, Deque!SlotOf

(* An offer at the back: right of last there is a slot, or the write overruns
   the array by one. *)
LEMMA OfferLast ==
  ASSUME capa \in Nat \ {0}, DequeInv, NEW input \in Values, Deque!offerLast(input)
  PROVE  DequeInv' /\ (dequeCareful' => Deque!D!PushBack(input))
<1>1. /\ ~overrun /\ dequeSize < capa /\ dequeSize' = dequeSize + 1
      /\ first' = first /\ dequeElem' = dequeElem
      /\ last' = IF dequeSize = 0 THEN last ELSE last + 1
      /\ dequeCareful' = (dequeCareful /\ Deque!EndsAgree /\ Deque!RoomAtTheRight)
  BY Zenon DEF Deque!offerLast, Deque!isEmpty
<1>2. last \in Deque!Slots /\ first \in Deque!Slots /\ dequeSize \in Nat /\ dequeSize' \in 0 .. capa
  BY <1>1 DEF DequeInv, Types, LastIsNear
<1>3. CASE last' \notin Deque!Slots
  <2>1. overrun' = TRUE /\ dequeData' = dequeData
    BY <1>3, Zenon DEF Deque!offerLast
  <2>2. last' = capa /\ ~Deque!RoomAtTheRight
    BY <1>1, <1>2, <1>3 DEF Deque!Slots, Deque!RoomAtTheRight, Deque!isEmpty
  <2>3. dequeCareful' = FALSE
    BY <1>1, <2>2, Zenon
  <2>4. Types'
    BY <1>1, <1>2, <2>1, <2>3, Zenon DEF DequeInv, Types
  <2>5. LastIsNear'
    BY <2>1, <2>2, Zenon DEF LastIsNear
  <2> QED BY <2>3, <2>4, <2>5, Zenon DEF DequeInv
<1>4. CASE last' \in Deque!Slots
  <2>1. overrun' = overrun /\ dequeData' = [dequeData EXCEPT ![last'] = input]
    BY <1>4, Zenon DEF Deque!offerLast
  <2>2. dequeData' \in [Deque!Slots -> Values \union {Nothing}]
    BY <1>4, <2>1 DEF DequeInv, Types
  <2>3. dequeCareful' \in BOOLEAN
    BY <1>1, Zenon DEF DequeInv, Types
  <2>4. Types'
    BY <1>1, <1>2, <2>1, <2>2, <2>3, Zenon DEF DequeInv, Types
  <2>5. LastIsNear'
    BY <1>1, <1>4, <2>1, Zenon DEF LastIsNear
  <2>6. ASSUME dequeCareful' PROVE Span' /\ Deque!D!PushBack(input)
    <3>1. Span /\ Deque!EndsAgree
      BY <1>1, <2>6, Zenon DEF DequeInv
    <3>2. last' = At(first, dequeSize + 1)
      <4>1. CASE dequeSize = 0
        BY <1>1, <1>2, <3>1, <4>1, AtShifts DEF Deque!EndsAgree, Deque!isEmpty
      <4>2. CASE dequeSize # 0
        <5>1. last = At(first, dequeSize) /\ dequeSize \in 1 .. capa - 1
          BY <1>1, <1>2, <3>1, <4>2 DEF Span
        <5>2. At(first, dequeSize + 1) = After(last)
          BY <1>2, <5>1, AtShifts
        <5>3. After(last) = last + 1
          BY <1>1, <1>2, <1>4, <4>2 DEF After, Deque!Slots
        <5> QED BY <1>1, <4>2, <5>2, <5>3
      <4> QED BY <4>1, <4>2
    <3>3. \A k \in 1 .. dequeSize :
            /\ dequeData[At(first, k)] \in Values
            /\ At(first, k) \in Deque!Slots
            /\ At(first, k) # last'
      BY <1>1, <1>2, <3>1, <3>2, AtIsOneToOne DEF Span
    <3>4. \A k \in 1 .. dequeSize + 1 :
            dequeData'[At(first, k)] = IF k = dequeSize + 1 THEN input ELSE dequeData[At(first, k)]
      <4> TAKE k \in 1 .. dequeSize + 1
      <4>1. (k = dequeSize + 1) \/ (k \in 1 .. dequeSize /\ k # dequeSize + 1)
        BY <1>2
      <4> QED BY <1>4, <2>1, <3>2, <3>3, <4>1 DEF DequeInv, Types
    <3>5. \A k \in 1 .. dequeSize + 1 : dequeData'[At(first, k)] \in Values
      BY <1>2, <3>3, <3>4
    <3>6. Span'
      BY <1>1, <2>1, <3>2, <3>5 DEF Span, At
    <3>7. Deque!Contents = [k \in 1 .. dequeSize |-> dequeData[At(first, k)]]
      BY ContentsNow DEF DequeInv
    <3>8. Deque!Contents' = [k \in 1 .. dequeSize + 1 |-> dequeData'[At(first, k)]]
      BY <1>1, <2>4, ContentsNext
    <3>9. Deque!Contents \in [1 .. dequeSize -> Values]
      BY <3>3, <3>7
    <3>10. Append(Deque!Contents, input)
             = [k \in 1 .. dequeSize + 1 |-> IF k = dequeSize + 1 THEN input ELSE Deque!Contents[k]]
      BY <1>2, <3>9, AppendAsFunction
    <3>11. Deque!Contents' = Append(Deque!Contents, input)
      <4>1. ASSUME NEW k \in 1 .. dequeSize + 1, k # dequeSize + 1 PROVE k \in 1 .. dequeSize
        BY <1>2, <4>1
      <4> QED BY <3>4, <3>7, <3>8, <3>10, <4>1
    <3>12. Len(Deque!Contents) < capa
      BY <1>1, <1>2, <3>9
    <3> QED BY <1>1, <3>6, <3>11, <3>12 DEF Deque!D!PushBack
  <2> QED BY <2>4, <2>5, <2>6, Zenon DEF DequeInv
<1> QED BY <1>3, <1>4

(* An offer at the front moves every element one position back and leaves it in
   its slot. *)
LEMMA OfferFirst ==
  ASSUME capa \in Nat \ {0}, DequeInv, NEW input \in Values, Deque!offerFirst(input)
  PROVE  DequeInv' /\ (dequeCareful' => Deque!D!PushFront(input))
<1>1. /\ ~overrun /\ overrun' = overrun /\ dequeSize < capa /\ dequeSize' = dequeSize + 1
      /\ first' = IF dequeSize = 0 THEN first ELSE Before(first)
      /\ dequeData' = [dequeData EXCEPT ![first'] = input]
      /\ last' = last /\ dequeElem' = dequeElem
      /\ dequeCareful' = (dequeCareful /\ Deque!EndsAgree)
  BY Zenon DEF Deque!offerFirst, Deque!isEmpty, Before
<1>2. last \in Deque!Slots /\ first \in Deque!Slots /\ dequeSize \in Nat /\ dequeSize' \in 0 .. capa
  BY <1>1 DEF DequeInv, Types, LastIsNear
<1>3. first' \in Deque!Slots
  BY <1>1, <1>2, AtShifts
<1>4. dequeData' \in [Deque!Slots -> Values \union {Nothing}]
  BY <1>1, <1>3 DEF DequeInv, Types
<1>5. dequeCareful' \in BOOLEAN
  BY <1>1, Zenon DEF DequeInv, Types
<1>6. Types'
  BY <1>1, <1>2, <1>3, <1>4, <1>5, Zenon DEF DequeInv, Types
<1>7. LastIsNear'
  BY <1>1, <1>2, Zenon DEF LastIsNear
<1>8. ASSUME dequeCareful' PROVE Span' /\ Deque!D!PushFront(input)
  <2>1. Span /\ Deque!EndsAgree
    BY <1>1, <1>8, Zenon DEF DequeInv
  <2>2. At(first', 1) = first'
    BY <1>3, AtShifts
  <2>3. \A k \in 1 .. dequeSize : At(first', k + 1) = At(first, k)
    <3> TAKE k \in 1 .. dequeSize
    <3>1. dequeSize # 0 /\ k \in 1 .. capa - 1
      BY <1>1, <1>2
    <3> QED BY <1>1, <1>2, <3>1, AtShifts
  <2>4. last' = At(first', dequeSize + 1)
    <3>1. CASE dequeSize = 0
      BY <1>1, <1>2, <2>1, <2>2, <3>1 DEF Deque!EndsAgree, Deque!isEmpty
    <3>2. CASE dequeSize # 0
      BY <1>1, <1>2, <2>1, <2>3, <3>2 DEF Span
    <3> QED BY <3>1, <3>2
  <2>5. \A k \in 1 .. dequeSize + 1 :
          dequeData'[At(first', k)] = IF k = 1 THEN input ELSE dequeData[At(first, k - 1)]
    <3> TAKE k \in 1 .. dequeSize + 1
    <3>1. CASE k = 1
      BY <1>1, <1>3, <2>2, <3>1 DEF DequeInv, Types
    <3>2. CASE k # 1
      <4>1. k - 1 \in 1 .. dequeSize /\ k \in 1 .. capa /\ 1 \in 1 .. capa
        BY <1>1, <1>2, <3>2
      <4>2. At(first', k) = At(first, k - 1)
        BY <2>3, <4>1
      <4>3. At(first', k) \in Deque!Slots /\ At(first', k) # first'
        BY <1>3, <2>2, <3>2, <4>1, AtIsOneToOne
      <4> QED BY <1>1, <1>3, <3>2, <4>2, <4>3 DEF DequeInv, Types
    <3> QED BY <3>1, <3>2
  <2>6. \A k \in 1 .. dequeSize : dequeData[At(first, k)] \in Values
    BY <2>1 DEF Span
  <2>7. \A k \in 1 .. dequeSize + 1 : dequeData'[At(first', k)] \in Values
    <3> TAKE k \in 1 .. dequeSize + 1
    <3>1. k = 1 \/ k - 1 \in 1 .. dequeSize
      BY <1>2
    <3> QED BY <2>5, <2>6, <3>1
  <2>8. Span'
    BY <1>1, <2>4, <2>7 DEF Span, At
  <2>9. Deque!Contents = [k \in 1 .. dequeSize |-> dequeData[At(first, k)]]
    BY ContentsNow DEF DequeInv
  <2>10. Deque!Contents' = [k \in 1 .. dequeSize + 1 |-> dequeData'[At(first', k)]]
    BY <1>1, <1>6, ContentsNext
  <2>11. Deque!Contents \in [1 .. dequeSize -> Values]
    BY <2>6, <2>9
  <2>12. <<input>> \o Deque!Contents
           = [k \in 1 .. dequeSize + 1 |-> IF k = 1 THEN input ELSE Deque!Contents[k - 1]]
    BY <1>2, <2>11, PrependAsFunction
  <2>13. Deque!Contents' = <<input>> \o Deque!Contents
    <3>1. ASSUME NEW k \in 1 .. dequeSize + 1, k # 1 PROVE k - 1 \in 1 .. dequeSize
      BY <1>2, <3>1
    <3> QED BY <2>5, <2>9, <2>10, <2>12, <3>1
  <2>14. Len(Deque!Contents) < capa
    BY <1>1, <1>2, <2>11
  <2> QED BY <1>1, <2>8, <2>13, <2>14 DEF Deque!D!PushFront
<1> QED BY <1>6, <1>7, <1>8, Zenon DEF DequeInv

(* A poll at the front takes the first element and moves the others forward. *)
LEMMA PollFirst ==
  ASSUME capa \in Nat \ {0}, DequeInv, Deque!pollFirst
  PROVE  DequeInv' /\ (dequeCareful' => Deque!D!PopFront)
<1>1. /\ ~overrun /\ overrun' = overrun /\ dequeSize # 0 /\ dequeSize' = dequeSize - 1
      /\ first' = After(first) /\ dequeElem' = dequeData[first]
      /\ dequeData' = dequeData /\ last' = last /\ dequeCareful' = dequeCareful
  BY Zenon DEF Deque!pollFirst, Deque!isEmpty, After
<1>2. /\ last \in Deque!Slots /\ first \in Deque!Slots
      /\ dequeSize \in Nat \ {0} /\ dequeSize <= capa /\ dequeSize' \in 0 .. capa
  BY <1>1 DEF DequeInv, Types, LastIsNear
<1>3. first' \in Deque!Slots
  BY <1>1, <1>2, AtShifts
<1>4. Types'
  BY <1>1, <1>2, <1>3, Zenon DEF DequeInv, Types
<1>5. LastIsNear'
  BY <1>1, <1>2, Zenon DEF LastIsNear
<1>6. ASSUME dequeCareful' PROVE Span' /\ Deque!D!PopFront
  <2>1. Span
    BY <1>1, <1>6, Zenon DEF DequeInv
  <2>2. \A k \in 1 .. dequeSize - 1 : At(first', k) = At(first, k + 1)
    <3> TAKE k \in 1 .. dequeSize - 1
    <3>1. k \in 1 .. capa - 1
      BY <1>2
    <3> QED BY <1>1, <1>2, <3>1, AtShifts
  <2>3. \A k \in 1 .. dequeSize : dequeData[At(first, k)] \in Values
    BY <2>1 DEF Span
  <2>4. \A k \in 1 .. dequeSize - 1 : dequeData'[At(first', k)] = dequeData[At(first, k + 1)]
    BY <1>1, <2>2
  <2>5. \A k \in 1 .. dequeSize - 1 : dequeData'[At(first', k)] \in Values
    <3> TAKE k \in 1 .. dequeSize - 1
    <3>1. k + 1 \in 1 .. dequeSize
      BY <1>2
    <3> QED BY <2>3, <2>4, <3>1
  <2>6. dequeSize - 1 # 0 => last = At(first', dequeSize - 1)
    <3> HAVE dequeSize - 1 # 0
    <3>1. dequeSize - 1 \in 1 .. dequeSize - 1 /\ (dequeSize - 1) + 1 = dequeSize
      BY <1>2
    <3>2. At(first', dequeSize - 1) = At(first, dequeSize)
      BY <2>2, <3>1
    <3> QED BY <1>1, <2>1, <3>2 DEF Span
  <2>7. Span'
    BY <1>1, <2>5, <2>6 DEF Span, At
  <2>8. Deque!Contents = [k \in 1 .. dequeSize |-> dequeData[At(first, k)]]
    BY ContentsNow DEF DequeInv
  <2>9. Deque!Contents' = [k \in 1 .. dequeSize - 1 |-> dequeData'[At(first', k)]]
    BY <1>1, <1>4, ContentsNext
  <2>10. Deque!Contents \in [1 .. dequeSize -> Values]
    BY <2>3, <2>8
  <2>11. /\ Deque!Contents # <<>> /\ Head(Deque!Contents) = Deque!Contents[1]
         /\ Tail(Deque!Contents) = [k \in 1 .. dequeSize - 1 |-> Deque!Contents[k + 1]]
    <3>1. PICK s, G : s = dequeSize /\ G = Deque!Contents
      OBVIOUS
    <3>2. s \in Nat \ {0} /\ G \in [1 .. s -> Values]
      BY <1>2, <2>10, <3>1
    <3>3. HeadAndTail(G, s)
      BY <3>2, TailAsFunction
    <3> QED BY <3>1, <3>3 DEF HeadAndTail
  <2>12. Deque!Contents' = Tail(Deque!Contents)
    <3>1. ASSUME NEW k \in 1 .. dequeSize - 1 PROVE k + 1 \in 1 .. dequeSize
      BY <1>2, <3>1
    <3> QED BY <2>4, <2>8, <2>9, <2>11, <3>1
  <2>13. Deque!Contents[1] = dequeData[first]
    <3>1. At(first, 1) = first /\ 1 \in 1 .. dequeSize
      BY <1>2, AtShifts
    <3> QED BY <2>8, <3>1
  <2> QED BY <1>1, <2>7, <2>11, <2>12, <2>13 DEF Deque!D!PopFront
<1> QED BY <1>4, <1>5, <1>6, Zenon DEF DequeInv

(* A poll at the back takes the last element and leaves the others. *)
LEMMA PollLast ==
  ASSUME capa \in Nat \ {0}, DequeInv, Deque!pollLast
  PROVE  DequeInv' /\ (dequeCareful' => Deque!D!PopBack)
<1>1. /\ ~overrun /\ overrun' = overrun /\ dequeSize # 0 /\ dequeSize' = dequeSize - 1
      /\ first' = first /\ dequeElem' = dequeData[last]
      /\ last' = IF last # 0 THEN last - 1 ELSE capa - 1
      /\ dequeData' = dequeData /\ dequeCareful' = dequeCareful
  BY Zenon DEF Deque!pollLast, Deque!isEmpty
<1>2. /\ last \in Deque!Slots /\ first \in Deque!Slots
      /\ dequeSize \in Nat \ {0} /\ dequeSize <= capa /\ dequeSize' \in 0 .. capa
  BY <1>1 DEF DequeInv, Types, LastIsNear
<1>3. last' = Before(last) /\ last' \in Deque!Slots
  BY <1>1, <1>2 DEF Before, Deque!Slots
<1>4. Types'
  BY <1>1, <1>2, Zenon DEF DequeInv, Types
<1>5. LastIsNear'
  BY <1>1, <1>3, Zenon DEF LastIsNear
<1>6. ASSUME dequeCareful' PROVE Span' /\ Deque!D!PopBack
  <2>1. Span
    BY <1>1, <1>6, Zenon DEF DequeInv
  <2>2. \A k \in 1 .. dequeSize : dequeData[At(first, k)] \in Values
    BY <2>1 DEF Span
  <2>3. \A k \in 1 .. dequeSize - 1 : k \in 1 .. dequeSize
    BY <1>2
  <2>4. dequeSize - 1 # 0 => last' = At(first, dequeSize - 1)
    <3> HAVE dequeSize - 1 # 0
    <3>1. dequeSize - 1 \in 1 .. capa - 1 /\ (dequeSize - 1) + 1 = dequeSize
      BY <1>2
    <3>2. At(first, dequeSize - 1) = Before(At(first, dequeSize))
      <4>1. \A k \in 1 .. capa - 1 : At(first, k) = Before(At(first, k + 1))
        BY <1>2, AtShifts
      <4>2. At(first, dequeSize - 1) = Before(At(first, (dequeSize - 1) + 1))
        BY <3>1, <4>1
      <4> QED BY <3>1, <4>2
    <3> QED BY <1>1, <1>3, <2>1, <3>2 DEF Span
  <2>5. Span'
    BY <1>1, <2>2, <2>3, <2>4 DEF Span, At
  <2>6. Deque!Contents = [k \in 1 .. dequeSize |-> dequeData[At(first, k)]]
    BY ContentsNow DEF DequeInv
  <2>7. Deque!Contents' = [k \in 1 .. dequeSize - 1 |-> dequeData[At(first, k)]]
    BY <1>1, <1>4, ContentsNext
  <2>8. Deque!Contents \in [1 .. dequeSize -> Values]
    BY <2>2, <2>6
  <2>9. Deque!Contents # <<>>
    BY <1>2, <2>8, TailAsFunction DEF HeadAndTail
  <2>10. /\ Len(Deque!Contents) = dequeSize
         /\ SubSeq(Deque!Contents, 1, dequeSize - 1) = [k \in 1 .. dequeSize - 1 |-> Deque!Contents[k]]
    BY <1>2, <2>8, FrontAsFunction
  <2>11. Deque!Contents' = SubSeq(Deque!Contents, 1, Len(Deque!Contents) - 1)
    BY <2>3, <2>6, <2>7, <2>10
  <2>12. Deque!Contents[dequeSize] = dequeData[last]
    <3>1. dequeSize \in 1 .. dequeSize /\ last = At(first, dequeSize)
      BY <1>1, <1>2, <2>1 DEF Span
    <3> QED BY <2>6, <3>1
  <2> QED BY <1>1, <2>5, <2>9, <2>10, <2>11, <2>12 DEF Deque!D!PopBack
<1> QED BY <1>4, <1>5, <1>6, Zenon DEF DequeInv

-----------------------------------------------------------------------------
LEMMA Stutters ==
  ASSUME DequeInv, UNCHANGED Deque!vars
  PROVE  DequeInv' /\ UNCHANGED Deque!D!dvars
<1>1. /\ dequeData' = dequeData /\ first' = first /\ last' = last /\ dequeSize' = dequeSize
      /\ overrun' = overrun /\ dequeElem' = dequeElem /\ dequeCareful' = dequeCareful
  BY Zenon DEF Deque!vars
<1>2. Types' /\ LastIsNear' /\ Deque!Contents' = Deque!Contents
  BY <1>1, Zenon DEF DequeInv, Types, LastIsNear, Deque!Contents, Deque!SlotOf
<1>3. Span => Span'
  BY <1>1 DEF Span, At
<1> QED BY <1>1, <1>2, <1>3, Zenon DEF DequeInv, Deque!D!dvars

(* Every step keeps the invariant, and is a step of the abstract deque as long
   as the caller is careful. *)
LEMMA StepsOfADeque ==
  ASSUME capa \in Nat \ {0}, DequeInv, [Deque!Next]_(Deque!vars)
  PROVE  DequeInv' /\ [dequeCareful' => Deque!D!DNext]_(Deque!D!dvars)
<1>1. CASE UNCHANGED Deque!vars
  BY <1>1, Stutters
<1>2. ASSUME NEW input \in Values, Deque!offerFirst(input)
      PROVE  DequeInv' /\ (dequeCareful' => Deque!D!DNext)
  BY <1>2, OfferFirst, Zenon DEF Deque!D!DNext
<1>3. ASSUME NEW input \in Values, Deque!offerLast(input)
      PROVE  DequeInv' /\ (dequeCareful' => Deque!D!DNext)
  BY <1>3, OfferLast, Zenon DEF Deque!D!DNext
<1>4. CASE Deque!pollFirst
  BY <1>4, PollFirst, Zenon DEF Deque!D!DNext
<1>5. CASE Deque!pollLast
  BY <1>5, PollLast, Zenon DEF Deque!D!DNext
<1> QED BY <1>1, <1>2, <1>3, <1>4, <1>5, Zenon
        DEF Deque!Next, Deque!offerFull, Deque!pollEmpty, Deque!Overrun

(* What the ends of the deque point at, whoever the caller is and in careful
   hands, for every length of the array *)
THEOREM DequeEnds ==
  ASSUME capa \in Nat \ {0}
  PROVE  Deque!Spec => [](Deque!OverrunIsOneSlot /\ Deque!EndsSpanTheElements)
<1>1. DequeInv /\ [Deque!Next]_(Deque!vars) => DequeInv'
  BY StepsOfADeque
<1>2. DequeInv => Deque!OverrunIsOneSlot
  BY DEF DequeInv, Types, LastIsNear, Deque!OverrunIsOneSlot
<1>3. DequeInv => Deque!EndsSpanTheElements
  <2> SUFFICES ASSUME Types, LastIsNear, Span PROVE Deque!EndsSpanTheElements
    BY Zenon DEF DequeInv, Deque!EndsSpanTheElements
  <2>1. last \in Deque!Slots /\ first \in Deque!Slots /\ dequeSize \in 0 .. capa
    BY Zenon DEF Types, LastIsNear, Span
  <2>2. \A k \in 1 .. dequeSize : Deque!SlotOf(k) = At(first, k)
    BY <2>1, AtIsRemainder DEF Deque!SlotOf
  <2>3. ~Deque!isEmpty => last = Deque!SlotOf(dequeSize)
    BY <2>1, <2>2 DEF Deque!isEmpty, Span
  <2>4. \A k \in 1 .. dequeSize : dequeData[Deque!SlotOf(k)] \in Values
    BY <2>2 DEF Span
  <2> QED BY <2>1, <2>3, <2>4, Zenon DEF Deque!EndsSpanTheElements
<1> QED BY <1>1, <1>2, <1>3, InitDeque, PTL DEF Deque!Spec

(* FixedDeque<T> in careful hands implements the bounded double-ended queue. *)
THEOREM DequeIsADeque ==
  ASSUME capa \in Nat \ {0}
  PROVE  Deque!Spec => Deque!ImplementsDeque
<1>1. DequeInv /\ [Deque!Next]_(Deque!vars) => DequeInv'
  BY StepsOfADeque
<1>2. DequeInv /\ [Deque!Next]_(Deque!vars) => [dequeCareful' => Deque!D!DNext]_(Deque!D!dvars)
  BY StepsOfADeque
<1>3. Deque!Init => Deque!D!DInit
  BY DEF Deque!Init, Deque!D!DInit, Deque!Contents
<1> QED BY <1>1, <1>2, <1>3, InitDeque, PTL DEF Deque!Spec, Deque!ImplementsDeque

-----------------------------------------------------------------------------
(* Stack, for every capacity: the elements are those of the slots
   0 .. top_idx. *)

StackInv ==
  /\ stackElem \in [0 .. capa - 1 -> Values \union {Nothing}]
  /\ top_idx \in -1 .. capa - 1
  /\ \A k \in 0 .. top_idx : stackElem[k] \in Values

LEMMA StackContents ==
  ASSUME StackInv
  PROVE  /\ top_idx + 1 \in Nat
         /\ Stack!Contents \in [1 .. top_idx + 1 -> Values]
         /\ \A k \in 1 .. top_idx + 1 : Stack!Contents[k] = stackElem[k - 1]
<1>1. top_idx \in Int /\ top_idx >= -1
  BY CapaIsNat DEF StackInv
<1>2. ASSUME NEW k \in 1 .. top_idx + 1 PROVE stackElem[k - 1] \in Values
  BY <1>1 DEF StackInv
<1> QED BY <1>1, <1>2 DEF Stack!Contents

(* push puts its element behind the last. *)
LEMMA PushAppends ==
  ASSUME StackInv, NEW pushed \in Values, Stack!push(pushed)
  PROVE  StackInv' /\ Stack!D!PushBack(pushed)
<1> DEFINE s == top_idx + 1
<1>1. /\ s \in Nat /\ s \in 0 .. capa - 1 /\ top_idx' = s /\ s < capa
      /\ stackElem' = [stackElem EXCEPT ![s] = pushed] /\ given' = given
  BY CapaIsNat DEF StackInv, Stack!push
<1>2. /\ Stack!Contents \in [1 .. s -> Values]
      /\ \A k \in 1 .. s : Stack!Contents[k] = stackElem[k - 1]
  BY StackContents
<1>3. \A k \in 0 .. s : stackElem'[k] = IF k = s THEN pushed ELSE stackElem[k]
  <2> TAKE k \in 0 .. s
  <2>1. k \in 0 .. capa - 1
    BY <1>1, CapaIsNat
  <2> QED BY <1>1, <2>1 DEF StackInv
<1>4. StackInv'
  <2>1. stackElem' \in [0 .. capa - 1 -> Values \union {Nothing}]
    BY <1>1 DEF StackInv
  <2>2. \A k \in 0 .. s : stackElem'[k] \in Values
    <3> TAKE k \in 0 .. s
    <3>1. k = s \/ k \in 0 .. top_idx
      BY <1>1 DEF StackInv
    <3> QED BY <1>3, <3>1 DEF StackInv
  <2>3. s \in -1 .. capa - 1
    BY <1>1
  <2> QED BY <1>1, <2>1, <2>2, <2>3 DEF StackInv
<1>5. Stack!Contents' = [k \in 1 .. s + 1 |-> stackElem'[k - 1]]
  BY <1>1 DEF Stack!Contents
<1>6. Append(Stack!Contents, pushed)
        = [k \in 1 .. s + 1 |-> IF k = s + 1 THEN pushed ELSE Stack!Contents[k]]
  BY <1>1, <1>2, AppendAsFunction
<1>7. ASSUME NEW k \in 1 .. s + 1
      PROVE  stackElem'[k - 1] = IF k = s + 1 THEN pushed ELSE Stack!Contents[k]
  <2>1. k - 1 \in 0 .. s /\ (k - 1 = s <=> k = s + 1) /\ (k # s + 1 => k \in 1 .. s)
    BY <1>1
  <2> QED BY <1>2, <1>3, <2>1
<1>8. Stack!Contents' = Append(Stack!Contents, pushed)
  BY <1>5, <1>6, <1>7
<1>9. Len(Stack!Contents) < capa
  BY <1>1, <1>2
<1> QED BY <1>1, <1>4, <1>8, <1>9 DEF Stack!D!PushBack

(* pop takes the last element. *)
LEMMA PopTakesLast ==
  ASSUME StackInv, Stack!pop
  PROVE  StackInv' /\ Stack!D!PopBack
<1> DEFINE s == top_idx + 1
           G == Stack!Contents
<1>1. /\ s \in Nat \ {0} /\ top_idx = s - 1 /\ top_idx' = s - 2
      /\ stackElem' = stackElem /\ given' = stackElem[s - 1]
  BY CapaIsNat DEF StackInv, Stack!pop
<1>2. /\ G \in [1 .. s -> Values]
      /\ \A k \in 1 .. s : G[k] = stackElem[k - 1]
  BY StackContents
<1>3. StackInv'
  BY <1>1, CapaIsNat DEF StackInv
<1>4. G' = [k \in 1 .. s - 1 |-> stackElem[k - 1]]
  BY <1>1 DEF Stack!Contents
<1>5. G # <<>> /\ Len(G) = s /\ SubSeq(G, 1, s - 1) = [k \in 1 .. s - 1 |-> G[k]]
  <2> HIDE DEF s, G
  <2> QED BY <1>1, <1>2, TailAsFunction, FrontAsFunction DEF HeadAndTail
<1>6. \A k \in 1 .. s - 1 : G[k] = stackElem[k - 1]
  BY <1>1, <1>2
<1>7. G' = SubSeq(G, 1, s - 1)
  BY <1>4, <1>5, <1>6
<1>8. given' = G[s]
  BY <1>1, <1>2
<1> QED BY <1>3, <1>5, <1>7, <1>8 DEF Stack!D!PopBack

(* Stack implements the bounded deque of which only the back is used, and none
   of the array's uninitialised values is ever given out. *)
THEOREM StackIsAStack == Stack!Spec => Stack!ImplementsStack
<1>1. Stack!Init => StackInv /\ Stack!D!DInit
  <2> SUFFICES ASSUME Stack!Init PROVE StackInv /\ Stack!D!DInit
    OBVIOUS
  <2>1. StackInv
    BY CapaIsNat DEF Stack!Init, StackInv
  <2>2. Stack!Contents = <<>>
    BY DEF Stack!Init, Stack!Contents
  <2> QED BY <2>1, <2>2 DEF Stack!Init, Stack!D!DInit
<1>2. StackInv /\ [Stack!Next]_(Stack!vars)
        => StackInv' /\ [Stack!StackStep]_<<Stack!Contents, given>>
  <2> SUFFICES ASSUME StackInv, [Stack!Next]_(Stack!vars)
               PROVE  StackInv' /\ [Stack!StackStep]_<<Stack!Contents, given>>
    OBVIOUS
  <2>1. CASE UNCHANGED Stack!vars
    BY <2>1 DEF Stack!vars, StackInv, Stack!Contents
  <2>2. ASSUME NEW pushed \in Values, Stack!push(pushed)
        PROVE  StackInv' /\ Stack!StackStep
    BY <2>2, PushAppends DEF Stack!StackStep
  <2>3. CASE Stack!pop
    BY <2>3, PopTakesLast DEF Stack!StackStep
  <2> QED BY <2>1, <2>2, <2>3 DEF Stack!Next, Stack!NoChange
<1> QED BY <1>1, <1>2, PTL DEF Stack!Spec, Stack!ImplementsStack

-----------------------------------------------------------------------------
(* The generator, for any objects, frames and INT_MAX.  The inductive invariant
   is GenInv. *)

(* Every frame has one handle, and every handle but null has a frame. *)
Owned ==
  /\ \A o \in DOMAIN handle : handle[o] \in DOMAIN frame \union {Null}
  /\ DOMAIN frame \subseteq Frames
  /\ \A f \in DOMAIN frame : \E o \in DOMAIN handle : handle[o] = f
  /\ \A o, p \in DOMAIN handle : handle[o] = handle[p] => o = p \/ handle[o] = Null

(* What the frame r of a coroutine that has shown the values s looks like *)
Counted(r, s) ==
  /\ r \in [place : {"initial", "yield", "final"}, n : Nat, i : Nat, current_value : Nat]
  /\ s \in Seq(Nat) /\ \A k \in 1 .. Len(s) : s[k] = k
  /\ Len(s) <= r.n
  /\ r.place = "initial" => Len(s) = 0
  /\ r.place = "yield" => r.i = Len(s) /\ r.current_value = Len(s)
  /\ r.place = "final" => Len(s) = r.n

AllCounted ==
  /\ DOMAIN shown = DOMAIN frame
  /\ \A f \in DOMAIN frame : Counted(frame[f], shown[f])

(* In careful hands: nothing counts to INT_MAX, where the next i would be
   undefined. *)
EndsInTime ==
  genCareful => genDefined /\ \A f \in DOMAIN frame : frame[f].n < INT_MAX

GenInv == Owned /\ AllCounted /\ EndsInTime

LEMMA InitGen == Generator!Init => GenInv
<1> SUFFICES ASSUME Generator!Init PROVE GenInv
  OBVIOUS
<1>1. handle = <<>> /\ frame = <<>> /\ shown = <<>> /\ genDefined = TRUE
  BY DEF Generator!Init
<1>2. DOMAIN handle = {} /\ DOMAIN frame = {} /\ DOMAIN shown = {}
  BY <1>1
<1>3. Owned /\ AllCounted
  BY <1>2 DEF Owned, AllCounted
<1>4. EndsInTime
  BY <1>1, <1>2, Zenon DEF EndsInTime
<1> QED BY <1>3, <1>4 DEF GenInv

(* A resumption shows the next number, or ends a frame that has shown all. *)
LEMMA ResumedCounts ==
  ASSUME NEW r, NEW s, Counted(r, s), r.place # "final"
  PROVE  /\ Generator!Resumed(r).n = r.n
         /\ IF Generator!Resumed(r).place # "final"
            THEN Counted(Generator!Resumed(r), Append(s, Generator!Resumed(r).current_value))
            ELSE Counted(Generator!Resumed(r), s)
<1> DEFINE k == Len(s) + 1
<1>1. /\ r \in [place : {"initial", "yield", "final"}, n : Nat, i : Nat, current_value : Nat]
      /\ s \in Seq(Nat) /\ Len(s) \in Nat /\ k \in Nat /\ r.n \in Nat /\ Len(s) <= r.n
      /\ r.place \in {"initial", "yield"}
      /\ \A j \in 1 .. Len(s) : s[j] = j
  BY DEF Counted
<1>2. (IF r.place = "initial" THEN 1 ELSE r.i + 1) = k
  BY <1>1 DEF Counted
<1>3. Generator!Resumed(r) =
        IF k <= r.n THEN [r EXCEPT !.place = "yield", !.i = k, !.current_value = k]
        ELSE [r EXCEPT !.place = "final", !.i = k]
  BY <1>2 DEF Generator!Resumed
<1>4. CASE k <= r.n
  <2> DEFINE q == [r EXCEPT !.place = "yield", !.i = k, !.current_value = k]
  <2>1. /\ q \in [place : {"initial", "yield", "final"}, n : Nat, i : Nat, current_value : Nat]
        /\ q.place = "yield" /\ q.i = k /\ q.current_value = k /\ q.n = r.n
    BY <1>1
  <2>2. /\ Append(s, k) \in Seq(Nat) /\ Len(Append(s, k)) = k
        /\ Append(s, k)[k] = k
        /\ \A j \in 1 .. Len(s) : Append(s, k)[j] = s[j]
    BY <1>1, AppendProperties
  <2>3. ASSUME NEW j \in 1 .. k PROVE Append(s, k)[j] = j
    <3>1. j = k \/ j \in 1 .. Len(s)
      BY <1>1
    <3> QED BY <1>1, <2>2, <3>1
  <2> HIDE DEF q, k
  <2>4. Counted(q, Append(s, k))
    BY <1>1, <1>4, <2>1, <2>2, <2>3 DEF Counted
  <2>5. Generator!Resumed(r) = q
    BY <1>3, <1>4 DEF q
  <2> QED BY <2>1, <2>4, <2>5
<1>5. CASE ~(k <= r.n)
  <2> DEFINE q == [r EXCEPT !.place = "final", !.i = k]
  <2>1. /\ q \in [place : {"initial", "yield", "final"}, n : Nat, i : Nat, current_value : Nat]
        /\ q.place = "final" /\ q.n = r.n
    BY <1>1
  <2>2. Len(s) = r.n
    BY <1>1, <1>5
  <2> HIDE DEF q, k
  <2>3. Counted(q, s)
    BY <1>1, <2>1, <2>2 DEF Counted
  <2>4. Generator!Resumed(r) = q
    BY <1>3, <1>5 DEF q
  <2> QED BY <2>1, <2>3, <2>4
<1> QED BY <1>4, <1>5

(* next() and what begin() and ++ do with a generator *)
LEMMA AdvanceCounts ==
  ASSUME Owned, AllCounted, NEW o \in DOMAIN handle, NEW more, Generator!Advance(o, more)
  PROVE  /\ AllCounted' /\ DOMAIN frame' = DOMAIN frame
         /\ \A f \in DOMAIN frame : frame'[f].n = frame[f].n
<1> DEFINE h == handle[o]
           q == Generator!Resumed(frame[h])
<1>1. CASE Generator!CanGoOn(o)
  <2>1. h \in DOMAIN frame /\ frame[h].place # "final"
    BY <1>1 DEF Generator!CanGoOn, Owned
  <2>2. frame' = [frame EXCEPT ![h] = q]
    BY <1>1 DEF Generator!Advance
  <2>3. /\ DOMAIN frame' = DOMAIN frame /\ frame'[h] = q
        /\ \A f \in DOMAIN frame : f # h => frame'[f] = frame[f]
    BY <2>1, <2>2
  <2>4. shown' = IF q.place # "final"
                 THEN [shown EXCEPT ![h] = Append(shown[h], q.current_value)] ELSE shown
    BY <1>1, <2>3 DEF Generator!Advance
  <2>5. /\ q.n = frame[h].n
        /\ IF q.place # "final" THEN Counted(q, Append(shown[h], q.current_value))
           ELSE Counted(q, shown[h])
    BY <2>1, ResumedCounts DEF AllCounted
  <2>6. DOMAIN shown' = DOMAIN frame'
    BY <2>3, <2>4 DEF AllCounted
  <2>7. Counted(frame'[h], shown'[h])
    BY <2>1, <2>3, <2>4, <2>5 DEF AllCounted
  <2>8. ASSUME NEW f \in DOMAIN frame, f # h PROVE Counted(frame'[f], shown'[f])
    <3>1. shown'[f] = shown[f]
      BY <2>4, <2>8 DEF AllCounted
    <3> QED BY <2>3, <2>8, <3>1 DEF AllCounted
  <2>9. AllCounted'
    BY <2>3, <2>6, <2>7, <2>8 DEF AllCounted
  <2> QED BY <2>3, <2>5, <2>9
<1>2. CASE ~Generator!CanGoOn(o)
  BY <1>2 DEF Generator!Advance, AllCounted
<1> QED BY <1>1, <1>2

LEMMA AdvanceKeeps ==
  ASSUME GenInv, NEW o \in DOMAIN handle, NEW more, Generator!Advance(o, more),
         UNCHANGED handle, UNCHANGED genDefined, genCareful' => genCareful
  PROVE  GenInv'
<1>1. /\ AllCounted' /\ DOMAIN frame' = DOMAIN frame
      /\ \A f \in DOMAIN frame : frame'[f].n = frame[f].n
  BY AdvanceCounts DEF GenInv
<1>2. Owned'
  BY <1>1 DEF GenInv, Owned
<1>3. EndsInTime'
  <2>1. genCareful' => genDefined' /\ \A f \in DOMAIN frame : frame[f].n < INT_MAX
    BY Zenon DEF GenInv, EndsInTime
  <2>2. genCareful' => \A f \in DOMAIN frame' : frame'[f].n < INT_MAX
    BY <1>1, <2>1
  <2> QED BY <2>1, <2>2, Zenon DEF EndsInTime
<1> QED BY <1>1, <1>2, <1>3 DEF GenInv

(* The loop of a careful caller's frame ends before i would overflow. *)
LEMMA NothingOverflows ==
  ASSUME GenInv, genCareful, NEW o, Generator!Overflows(o)
  PROVE  FALSE
<1> DEFINE h == handle[o]
<1>1. /\ h \in DOMAIN frame /\ frame[h].place = "yield" /\ frame[h].i = INT_MAX
  BY DEF Generator!Overflows, Generator!CanGoOn, Generator!Exists, GenInv, Owned
<1>2. frame[h].n < INT_MAX
  BY <1>1, Zenon DEF GenInv, EndsInTime
<1>3. Counted(frame[h], shown[h])
  BY <1>1 DEF GenInv, AllCounted
<1>4. frame[h].i \in Nat /\ frame[h].n \in Nat /\ frame[h].i <= frame[h].n
  BY <1>1, <1>3 DEF Counted
<1> QED BY <1>1, <1>2, <1>4

(* Something undefined happens, and the caller was not careful. *)
LEMMA UndefinedKeeps ==
  ASSUME GenInv, Generator!Undefined, ~genCareful'
  PROVE  GenInv'
<1>1. UNCHANGED <<handle, frame, shown>>
  BY DEF Generator!Undefined
<1>2. Owned' /\ AllCounted'
  BY <1>1 DEF GenInv, Owned, AllCounted
<1> QED BY <1>2, Zenon DEF GenInv, EndsInTime

LEMMA CountToKeeps ==
  ASSUME GenInv, NEW o, NEW n \in 0 .. INT_MAX, Generator!count_to(o, n)
  PROVE  GenInv'
<1>1. PICK f \in Frames \ DOMAIN frame :
        /\ frame' = Generator!With(frame, f, [place |-> "initial", n |-> n, i |-> 1, current_value |-> 0])
        /\ handle' = Generator!With(handle, o, f)
        /\ shown' = Generator!With(shown, f, <<>>)
  BY DEF Generator!count_to
<1> DEFINE r == [place |-> "initial", n |-> n, i |-> 1, current_value |-> 0]
<1>2. /\ o \notin DOMAIN handle
      /\ genDefined' = genDefined /\ genCareful' = (genCareful /\ n < INT_MAX)
  BY Zenon DEF Generator!count_to, Generator!Exists
<1>3. /\ DOMAIN frame' = DOMAIN frame \union {f} /\ frame'[f] = r
      /\ \A g \in DOMAIN frame : g # f /\ frame'[g] = frame[g]
  BY <1>1 DEF Generator!With
<1>4. /\ DOMAIN handle' = DOMAIN handle \union {o} /\ handle'[o] = f
      /\ \A p \in DOMAIN handle : p # o /\ handle'[p] = handle[p]
  BY <1>1, <1>2 DEF Generator!With
<1>5. /\ DOMAIN shown' = DOMAIN shown \union {f} /\ shown'[f] = <<>>
      /\ \A g \in DOMAIN shown : g # f => shown'[g] = shown[g]
  BY <1>1 DEF Generator!With
<1>6. f # Null /\ f \notin DOMAIN frame
  BY <1>1, NullIsNoFrame
<1>7. Owned'
  <2>1. \A p \in DOMAIN handle' : handle'[p] \in DOMAIN frame' \union {Null}
    BY <1>3, <1>4 DEF GenInv, Owned
  <2>2. DOMAIN frame' \subseteq Frames
    BY <1>1, <1>3 DEF GenInv, Owned
  <2>3. \A g \in DOMAIN frame' : \E p \in DOMAIN handle' : handle'[p] = g
    BY <1>3, <1>4 DEF GenInv, Owned
  <2>4. \A p, p2 \in DOMAIN handle' : handle'[p] = handle'[p2] => p = p2 \/ handle'[p] = Null
    BY <1>4, <1>6 DEF GenInv, Owned
  <2> QED BY <2>1, <2>2, <2>3, <2>4 DEF Owned
<1>8. AllCounted'
  <2>1. Counted(r, <<>>)
    BY DEF Counted
  <2>2. \A g \in DOMAIN frame : Counted(frame'[g], shown'[g])
    BY <1>3, <1>5 DEF GenInv, AllCounted
  <2>3. Counted(frame'[f], shown'[f])
    BY <1>3, <1>5, <2>1
  <2>4. DOMAIN shown' = DOMAIN frame'
    BY <1>3, <1>5 DEF GenInv, AllCounted
  <2> QED BY <1>3, <2>2, <2>3, <2>4 DEF AllCounted
<1>9. EndsInTime'
  <2>1. genCareful' => /\ genDefined' /\ n < INT_MAX
                       /\ \A g \in DOMAIN frame : frame[g].n < INT_MAX
    BY <1>2, Zenon DEF GenInv, EndsInTime
  <2>2. r.n = n
    OBVIOUS
  <2>3. genCareful' => \A g \in DOMAIN frame' : frame'[g].n < INT_MAX
    BY <1>3, <2>1, <2>2
  <2> QED BY <2>1, <2>3, Zenon DEF EndsInTime
<1> QED BY <1>7, <1>8, <1>9 DEF GenInv

LEMMA MoveKeeps ==
  ASSUME GenInv, NEW o, NEW other, Generator!Move(o, other)
  PROVE  GenInv'
<1>1. /\ o \notin DOMAIN handle /\ other \in DOMAIN handle /\ o # other
      /\ UNCHANGED <<frame, shown>>
      /\ genDefined' = genDefined /\ genCareful' = genCareful
  BY Zenon DEF Generator!Move, Generator!Exists
<1>2. /\ DOMAIN handle' = DOMAIN handle \union {o}
      /\ handle'[o] = handle[other] /\ handle'[other] = Null
      /\ \A p \in DOMAIN handle : p # o /\ (p # other => handle'[p] = handle[p])
  BY <1>1 DEF Generator!Move, Generator!With
<1>3. Owned'
  <2>1. \A p \in DOMAIN handle' : handle'[p] \in DOMAIN frame' \union {Null}
    BY <1>1, <1>2 DEF GenInv, Owned
  <2>2. \A g \in DOMAIN frame' : \E p \in DOMAIN handle' : handle'[p] = g
    <3> TAKE g \in DOMAIN frame'
    <3>1. PICK p \in DOMAIN handle : handle[p] = g
      BY <1>1 DEF GenInv, Owned
    <3>2. CASE p = other
      BY <1>2, <3>1, <3>2
    <3>3. CASE p # other
      BY <1>2, <3>1, <3>3
    <3> QED BY <3>2, <3>3
  <2>3. \A p, p2 \in DOMAIN handle' : handle'[p] = handle'[p2] => p = p2 \/ handle'[p] = Null
    BY <1>1, <1>2 DEF GenInv, Owned
  <2> QED BY <1>1, <2>1, <2>2, <2>3 DEF GenInv, Owned
<1>4. AllCounted'
  BY <1>1 DEF GenInv, AllCounted
<1>5. EndsInTime'
  BY <1>1, Zenon DEF GenInv, EndsInTime
<1> QED BY <1>3, <1>4, <1>5 DEF GenInv

LEMMA DestroyKeeps ==
  ASSUME GenInv, NEW o, Generator!Destroy(o)
  PROVE  GenInv'
<1> DEFINE h == handle[o]
<1>1. /\ o \in DOMAIN handle
      /\ genDefined' = genDefined /\ genCareful' = genCareful
  BY Zenon DEF Generator!Destroy, Generator!Exists
<1>2. /\ DOMAIN handle' = DOMAIN handle \ {o}
      /\ \A p \in DOMAIN handle' : handle'[p] = handle[p]
      /\ DOMAIN frame' = DOMAIN frame \ {h} /\ DOMAIN shown' = DOMAIN shown \ {h}
      /\ \A g \in DOMAIN frame' : frame'[g] = frame[g]
      /\ \A g \in DOMAIN shown' : shown'[g] = shown[g]
  BY DEF Generator!Destroy, Generator!Without
<1>3. Owned'
  BY <1>1, <1>2 DEF GenInv, Owned
<1>4. AllCounted'
  BY <1>2 DEF GenInv, AllCounted
<1>5. EndsInTime'
  <2>1. genCareful' => genDefined' /\ \A g \in DOMAIN frame : frame[g].n < INT_MAX
    BY <1>1, Zenon DEF GenInv, EndsInTime
  <2>2. genCareful' => \A g \in DOMAIN frame' : frame'[g].n < INT_MAX
    BY <1>2, <2>1
  <2> QED BY <2>1, <2>2, Zenon DEF EndsInTime
<1> QED BY <1>3, <1>4, <1>5 DEF GenInv

LEMMA NextKeeps ==
  ASSUME GenInv, NEW o, Generator!next(o) \/ Generator!begin(o)
  PROVE  GenInv'
<1>1. o \in DOMAIN handle /\ genCareful' = genCareful
  BY Zenon DEF Generator!next, Generator!begin, Generator!Exists
<1>2. CASE Generator!Overflows(o) /\ Generator!Undefined
  <2>1. ~genCareful'
    BY <1>1, <1>2, NothingOverflows, Zenon
  <2> QED BY <1>2, <2>1, UndefinedKeeps
<1>3. CASE ~(Generator!Overflows(o) /\ Generator!Undefined)
  <2>1. UNCHANGED handle /\ UNCHANGED genDefined /\ \E more \in BOOLEAN : Generator!Advance(o, more)
    BY <1>3, Zenon DEF Generator!next, Generator!begin
  <2> QED BY <1>1, <2>1, AdvanceKeeps, Zenon
<1> QED BY <1>2, <1>3

LEMMA IncrementKeeps ==
  ASSUME GenInv, Generator!Increment
  PROVE  GenInv'
<1> DEFINE o == iterator.generator
<1>1. /\ genCareful' = (genCareful /\ Generator!Exists(o))
      /\ \/ ~Generator!Exists(o) /\ Generator!Undefined
         \/ Generator!Overflows(o) /\ Generator!Undefined
         \/ /\ Generator!Exists(o)
            /\ \E more \in BOOLEAN : Generator!Advance(o, more)
            /\ UNCHANGED handle /\ UNCHANGED genDefined
  BY Zenon DEF Generator!Increment
<1> HIDE DEF o
<1>2. CASE ~Generator!Exists(o) /\ Generator!Undefined
  BY <1>1, <1>2, UndefinedKeeps, Zenon
<1>3. CASE Generator!Overflows(o) /\ Generator!Undefined
  BY <1>1, <1>3, NothingOverflows, UndefinedKeeps, Zenon
<1>4. CASE /\ Generator!Exists(o)
           /\ \E more \in BOOLEAN : Generator!Advance(o, more)
           /\ UNCHANGED handle /\ UNCHANGED genDefined
  BY <1>1, <1>4, AdvanceKeeps, Zenon DEF Generator!Exists
<1> QED BY <1>1, <1>2, <1>3, <1>4

LEMMA GenStutters ==
  ASSUME GenInv, UNCHANGED <<handle, frame, shown>>, UNCHANGED genDefined,
         genCareful' => genCareful
  PROVE  GenInv'
<1>1. Owned' /\ AllCounted'
  BY DEF GenInv, Owned, AllCounted
<1>2. EndsInTime'
  <2>1. frame' = frame
    OBVIOUS
  <2> QED BY <2>1, Zenon DEF GenInv, EndsInTime
<1> QED BY <1>1, <1>2 DEF GenInv

LEMMA ValueKeeps ==
  ASSUME GenInv, NEW o, Generator!value(o)
  PROVE  GenInv'
<1>1. genCareful' = (genCareful /\ Generator!HasValue(o))
  BY Zenon DEF Generator!value
<1>2. CASE Generator!HasValue(o)
  <2>1. UNCHANGED <<handle, frame, shown>> /\ UNCHANGED genDefined
    BY <1>2, Zenon DEF Generator!value
  <2> QED BY <1>1, <2>1, GenStutters, Zenon
<1>3. CASE ~Generator!HasValue(o)
  <2>1. Generator!Undefined
    BY <1>3, Zenon DEF Generator!value
  <2> QED BY <1>1, <1>3, <2>1, UndefinedKeeps, Zenon
<1> QED BY <1>2, <1>3

LEMMA GenSteps ==
  ASSUME GenInv, [Generator!Next]_(Generator!vars)
  PROVE  GenInv'
<1>1. ASSUME UNCHANGED Generator!vars PROVE GenInv'
  <2>1. /\ UNCHANGED <<handle, frame, shown>>
        /\ genDefined' = genDefined /\ genCareful' = genCareful
    BY <1>1, Zenon DEF Generator!vars
  <2> QED BY <2>1, GenStutters, Zenon
<1> QED
  BY <1>1, CountToKeeps, MoveKeeps, DestroyKeeps, NextKeeps, IncrementKeeps, ValueKeeps,
     Zenon DEF Generator!Next, Generator!Crashed

LEMMA SameCardinality == ASSUME NEW S PROVE Generator!Cardinality(S) = Cardinality(S)
  BY DEF Generator!Cardinality, Cardinality

(* A frame gives out 1, 2, 3, ... up to its n, and has one owner, which will
   destroy it; a careful caller meets nothing undefined. *)
THEOREM GeneratorCounts ==
  Generator!Spec => [](Generator!CountsToN /\ Generator!FramesHaveOneOwner)
<1>1. GenInv => Generator!CountsToN
  <2> SUFFICES ASSUME GenInv, NEW f \in DOMAIN frame
               PROVE  /\ shown[f] = [k \in 1 .. Len(shown[f]) |-> k]
                      /\ Len(shown[f]) <= frame[f].n
                      /\ frame[f].place = "final" => Len(shown[f]) = frame[f].n
                      /\ frame[f].place = "yield" => Len(shown[f]) = frame[f].current_value
    BY DEF Generator!CountsToN
  <2> DEFINE s == shown[f]
  <2>1. Counted(frame[f], s)
    BY DEF GenInv, AllCounted
  <2>2. s \in [1 .. Len(s) -> Nat] /\ \A k \in 1 .. Len(s) : s[k] = k
    BY <2>1, LenProperties DEF Counted
  <2>3. s = [k \in 1 .. Len(s) |-> k]
    BY <2>2
  <2>4. frame[f].place = "yield" => Len(s) = frame[f].current_value
    BY <2>1 DEF Counted
  <2> QED BY <2>1, <2>3, <2>4 DEF Counted
<1>2. GenInv => Generator!FramesHaveOneOwner
  <2> SUFFICES ASSUME GenInv PROVE Generator!FramesHaveOneOwner
    OBVIOUS
  <2>1. ASSUME NEW f \in DOMAIN frame
        PROVE  Generator!Cardinality({o \in DOMAIN handle : handle[o] = f}) = 1
    <3>1. f # Null
      BY NullIsNoFrame DEF GenInv, Owned
    <3>2. PICK p \in DOMAIN handle : handle[p] = f
      BY DEF GenInv, Owned
    <3>3. {o \in DOMAIN handle : handle[o] = f} = {p}
      BY <3>1, <3>2 DEF GenInv, Owned
    <3>4. Cardinality({p}) = 1
      BY FS_Singleton
    <3> QED BY <3>3, <3>4, SameCardinality
  <2>2. \A o \in DOMAIN handle : handle[o] \in DOMAIN frame \union {Null}
    BY DEF GenInv, Owned
  <2>3. genCareful => genDefined
    BY Zenon DEF GenInv, EndsInTime
  <2> QED BY <2>1, <2>2, <2>3, Zenon DEF Generator!FramesHaveOneOwner
<1> QED BY <1>1, <1>2, InitGen, GenSteps, PTL DEF Generator!Spec
-----------------------------------------------------------------------------
(* The classes that own an array, for any number of objects, arrays and
   lengths.  What follows needs to know what stands before each statement of a
   table, not the tables themselves: Fits says it of one statement s of the
   call op of class c, with P the statements before it, and Finished of all. *)

ClassNames == {"Stack", "Queue", "FixedDeque", "MyArray", "MyArray14", "my_arr"}
CallNames == Arrays!Constructors \cup {"copyAssign", "moveAssign"}
Table(c, op) == Arrays!Classes[c][op]
BeforeIn(T, i) == {T[j] : j \in 1 .. i - 1}
Without(P, S) == \A s \in S : s \notin P

SmartClass(c) == c \in {"MyArray14", "my_arr"}
SafeCall(c, op) == op \notin Arrays!NotSafe[c]

Fits(c, op, P, s) ==
  /\ s = "test" => op = "construct" /\ (SafeCall(c, op) => Without(P, {"new", "take", "steal", "swap"}))
  /\ s = "new" =>
       /\ op \notin Arrays!Moves
       /\ Without(P, {"new", "take", "swap", "copy", "steal", "null other", "delete temp"})
       /\ SafeCall(c, op) => Without(P, {"delete", "members"})
  /\ s = "take" =>
       /\ "new" \in P /\ Without(P, {"take", "swap", "steal", "delete temp"})
       /\ op \notin Arrays!Moves
       /\ IF SmartClass(c) THEN "delete" \notin P
          ELSE op \in Arrays!Constructors \/ "delete" \in P
  /\ s = "local" => ~SafeCall(c, op)
  /\ s = "members" => "swap" \notin P
  /\ s = "copy" =>
       /\ op \in Arrays!Copies
       /\ "new" \in P /\ Without(P, {"swap", "steal", "delete temp"})
       /\ c \in {"Queue", "FixedDeque", "my_arr"} =>
            /\ SafeCall(c, op) => c = "my_arr"
            /\ "take" \in P /\ "members" \in P
  /\ s = "delete" =>
       /\ ~SmartClass(c) /\ op \notin Arrays!Constructors
       /\ Without(P, {"delete", "take", "steal", "swap", "members", "null other", "delete temp"})
  /\ s = "swap" =>
       /\ op = "copyAssign" /\ "new" \in P /\ "copy" \in P
       /\ Without(P, {"delete", "take", "steal", "swap", "members", "delete temp"})
  /\ s = "delete temp" =>
       op = "copyAssign" /\ "swap" \in P /\ Without(P, {"take", "steal", "delete"})
  /\ s = "steal" =>
       /\ op \in Arrays!Moves
       /\ Without(P, {"new", "take", "steal", "swap", "copy", "null other", "empty other"})
       /\ IF SmartClass(c) THEN "delete" \notin P ELSE op = "moveConstruct" \/ "delete" \in P
  /\ s = "null other" =>
       op \in Arrays!Moves /\ "steal" \in P /\ "null other" \notin P /\ ~SmartClass(c)
  /\ s = "empty other" =>
       op \in Arrays!Moves /\ "steal" \in P /\ (SmartClass(c) \/ "null other" \in P)

Finished(c, op, P) ==
  /\ "take" \in P \/ "steal" \in P \/ (op = "copyAssign" /\ "swap" \in P)
  /\ "delete" \in P => "take" \in P \/ "steal" \in P
  /\ "steal" \in P /\ ~SmartClass(c) => "null other" \in P
  /\ "new" \in P => "take" \in P \/ "delete temp" \in P
  /\ "swap" \in P <=> "delete temp" \in P
  /\ "steal" \in P => op \in Arrays!Moves
  /\ "members" \in P \/ "swap" \in P
  /\ op \in Arrays!Copies => "copy" \in P /\ "new" \in P
  /\ op \in Arrays!Moves =>
       /\ "steal" \in P /\ "members" \in P /\ Without(P, {"new", "take", "swap"})
       /\ "empty other" \in P \/ c = "Queue"

Sensible(c, op) ==
  LET T == Table(c, op)
  IN  /\ Len(T) \in Nat \ {0, 1}
      /\ \A i \in 1 .. Len(T) : Fits(c, op, BeforeIn(T, i), T[i])
      /\ Finished(c, op, BeforeIn(T, Len(T) + 1))

FitThree(c, op, a, b, d) ==
  /\ Fits(c, op, {}, a) /\ Fits(c, op, {a}, b) /\ Fits(c, op, {a, b}, d)
  /\ Finished(c, op, {a, b, d})
FitFour(c, op, a, b, d, e) ==
  /\ Fits(c, op, {}, a) /\ Fits(c, op, {a}, b) /\ Fits(c, op, {a, b}, d)
  /\ Fits(c, op, {a, b, d}, e) /\ Finished(c, op, {a, b, d, e})
FitFive(c, op, a, b, d, e, f) ==
  /\ Fits(c, op, {}, a) /\ Fits(c, op, {a}, b) /\ Fits(c, op, {a, b}, d)
  /\ Fits(c, op, {a, b, d}, e) /\ Fits(c, op, {a, b, d, e}, f)
  /\ Finished(c, op, {a, b, d, e, f})

LEMMA ThreeStatements ==
  ASSUME NEW c, NEW op, NEW a, NEW b, NEW d,
         Table(c, op) = <<a, b, d>>, FitThree(c, op, a, b, d)
  PROVE  Sensible(c, op)
<1> DEFINE T == <<a, b, d>>
<1>1. Len(T) = 3 /\ T[1] = a /\ T[2] = b /\ T[3] = d
  OBVIOUS
<1>2. /\ BeforeIn(T, 1) = {}
      /\ BeforeIn(T, 2) = {a}
      /\ BeforeIn(T, 3) = {a, b}
      /\ BeforeIn(T, 4) = {a, b, d}
  BY <1>1 DEF BeforeIn
<1> HIDE DEF T
<1>3. ASSUME NEW i \in 1 .. 3 PROVE Fits(c, op, BeforeIn(T, i), T[i])
  BY <1>1, <1>2, i \in {1, 2, 3} DEF FitThree
<1> QED BY <1>1, <1>2, <1>3 DEF Sensible, T, FitThree

LEMMA FourStatements ==
  ASSUME NEW c, NEW op, NEW a, NEW b, NEW d, NEW e,
         Table(c, op) = <<a, b, d, e>>, FitFour(c, op, a, b, d, e)
  PROVE  Sensible(c, op)
<1> DEFINE T == <<a, b, d, e>>
<1>1. Len(T) = 4 /\ T[1] = a /\ T[2] = b /\ T[3] = d /\ T[4] = e
  OBVIOUS
<1>2. /\ BeforeIn(T, 1) = {}
      /\ BeforeIn(T, 2) = {a}
      /\ BeforeIn(T, 3) = {a, b}
      /\ BeforeIn(T, 4) = {a, b, d}
      /\ BeforeIn(T, 5) = {a, b, d, e}
  BY <1>1 DEF BeforeIn
<1> HIDE DEF T
<1>3. ASSUME NEW i \in 1 .. 4 PROVE Fits(c, op, BeforeIn(T, i), T[i])
  BY <1>1, <1>2, i \in {1, 2, 3, 4} DEF FitFour
<1> QED BY <1>1, <1>2, <1>3 DEF Sensible, T, FitFour

LEMMA FiveStatements ==
  ASSUME NEW c, NEW op, NEW a, NEW b, NEW d, NEW e, NEW f,
         Table(c, op) = <<a, b, d, e, f>>, FitFive(c, op, a, b, d, e, f)
  PROVE  Sensible(c, op)
<1> DEFINE T == <<a, b, d, e, f>>
<1>1. Len(T) = 5 /\ T[1] = a /\ T[2] = b /\ T[3] = d /\ T[4] = e /\ T[5] = f
  OBVIOUS
<1>2. /\ BeforeIn(T, 1) = {}
      /\ BeforeIn(T, 2) = {a}
      /\ BeforeIn(T, 3) = {a, b}
      /\ BeforeIn(T, 4) = {a, b, d}
      /\ BeforeIn(T, 5) = {a, b, d, e}
      /\ BeforeIn(T, 6) = {a, b, d, e, f}
  BY <1>1 DEF BeforeIn
<1> HIDE DEF T
<1>3. ASSUME NEW i \in 1 .. 5 PROVE Fits(c, op, BeforeIn(T, i), T[i])
  BY <1>1, <1>2, i \in {1, 2, 3, 4, 5} DEF FitFive
<1> QED BY <1>1, <1>2, <1>3 DEF Sensible, T, FitFive

LEMMA StackIsSensible == \A op \in CallNames : Sensible("Stack", op)
<1> USE DEF FitThree, FitFour, FitFive, Fits, Finished, Without, SmartClass, SafeCall,
              Arrays!NotSafe, Arrays!Moves, Arrays!Copies, Arrays!Constructors
<1>1. Sensible("Stack", "construct")
  <2>1. Table("Stack", "construct") = <<"test", "new", "take", "members">>
    BY DEF Table, Arrays!Classes, Arrays!Stack
  <2>2. FitFour("Stack", "construct", "test", "new", "take", "members")
    OBVIOUS
  <2> HIDE DEF FitFour
  <2> QED BY <2>1, <2>2, FourStatements
<1>2. Sensible("Stack", "copyConstruct")
  <2>1. Table("Stack", "copyConstruct") = <<"new", "take", "members", "copy", "local">>
    BY DEF Table, Arrays!Classes, Arrays!Stack
  <2>2. FitFive("Stack", "copyConstruct", "new", "take", "members", "copy", "local")
    OBVIOUS
  <2> HIDE DEF FitFive
  <2> QED BY <2>1, <2>2, FiveStatements
<1>3. Sensible("Stack", "moveConstruct")
  <2>1. Table("Stack", "moveConstruct") = <<"steal", "members", "null other", "empty other">>
    BY DEF Table, Arrays!Classes, Arrays!Stack
  <2>2. FitFour("Stack", "moveConstruct", "steal", "members", "null other", "empty other")
    OBVIOUS
  <2> HIDE DEF FitFour
  <2> QED BY <2>1, <2>2, FourStatements
<1>4. Sensible("Stack", "copyAssign")
  <2>1. Table("Stack", "copyAssign") = <<"new", "copy", "delete", "take", "members">>
    BY DEF Table, Arrays!Classes, Arrays!Stack
  <2>2. FitFive("Stack", "copyAssign", "new", "copy", "delete", "take", "members")
    OBVIOUS
  <2> HIDE DEF FitFive
  <2> QED BY <2>1, <2>2, FiveStatements
<1>5. Sensible("Stack", "moveAssign")
  <2>1. Table("Stack", "moveAssign") = <<"delete", "steal", "members", "null other", "empty other">>
    BY DEF Table, Arrays!Classes, Arrays!Stack
  <2>2. FitFive("Stack", "moveAssign", "delete", "steal", "members", "null other", "empty other")
    OBVIOUS
  <2> HIDE DEF FitFive
  <2> QED BY <2>1, <2>2, FiveStatements
<1> QED BY <1>1, <1>2, <1>3, <1>4, <1>5 DEF CallNames, Arrays!Constructors

LEMMA QueueIsSensible == \A op \in CallNames : Sensible("Queue", op)
<1> USE DEF FitThree, FitFour, FitFive, Fits, Finished, Without, SmartClass, SafeCall,
              Arrays!NotSafe, Arrays!Moves, Arrays!Copies, Arrays!Constructors
<1>1. Sensible("Queue", "construct")
  <2>1. Table("Queue", "construct") = <<"new", "take", "members">>
    BY DEF Table, Arrays!Classes, Arrays!Queue
  <2>2. FitThree("Queue", "construct", "new", "take", "members")
    OBVIOUS
  <2> HIDE DEF FitThree
  <2> QED BY <2>1, <2>2, ThreeStatements
<1>2. Sensible("Queue", "copyConstruct")
  <2>1. Table("Queue", "copyConstruct") = <<"new", "take", "members", "copy">>
    BY DEF Table, Arrays!Classes, Arrays!Queue
  <2>2. FitFour("Queue", "copyConstruct", "new", "take", "members", "copy")
    OBVIOUS
  <2> HIDE DEF FitFour
  <2> QED BY <2>1, <2>2, FourStatements
<1>3. Sensible("Queue", "moveConstruct")
  <2>1. Table("Queue", "moveConstruct") = <<"steal", "members", "null other">>
    BY DEF Table, Arrays!Classes, Arrays!Queue
  <2>2. FitThree("Queue", "moveConstruct", "steal", "members", "null other")
    OBVIOUS
  <2> HIDE DEF FitThree
  <2> QED BY <2>1, <2>2, ThreeStatements
<1>4. Sensible("Queue", "copyAssign")
  <2>1. Table("Queue", "copyAssign") = <<"delete", "new", "take", "members", "copy">>
    BY DEF Table, Arrays!Classes, Arrays!Queue
  <2>2. FitFive("Queue", "copyAssign", "delete", "new", "take", "members", "copy")
    OBVIOUS
  <2> HIDE DEF FitFive
  <2> QED BY <2>1, <2>2, FiveStatements
<1>5. Sensible("Queue", "moveAssign")
  <2>1. Table("Queue", "moveAssign") = <<"delete", "steal", "members", "null other">>
    BY DEF Table, Arrays!Classes, Arrays!Queue
  <2>2. FitFour("Queue", "moveAssign", "delete", "steal", "members", "null other")
    OBVIOUS
  <2> HIDE DEF FitFour
  <2> QED BY <2>1, <2>2, FourStatements
<1> QED BY <1>1, <1>2, <1>3, <1>4, <1>5 DEF CallNames, Arrays!Constructors

LEMMA FixedDequeIsSensible == \A op \in CallNames : Sensible("FixedDeque", op)
<1> USE DEF FitThree, FitFour, FitFive, Fits, Finished, Without, SmartClass, SafeCall,
              Arrays!NotSafe, Arrays!Moves, Arrays!Copies, Arrays!Constructors
<1>1. Sensible("FixedDeque", "construct")
  <2>1. Table("FixedDeque", "construct") = <<"new", "take", "members", "test">>
    BY DEF Table, Arrays!Classes, Arrays!FixedDeque
  <2>2. FitFour("FixedDeque", "construct", "new", "take", "members", "test")
    OBVIOUS
  <2> HIDE DEF FitFour
  <2> QED BY <2>1, <2>2, FourStatements
<1>2. Sensible("FixedDeque", "copyConstruct")
  <2>1. Table("FixedDeque", "copyConstruct") = <<"new", "take", "members", "copy">>
    BY DEF Table, Arrays!Classes, Arrays!FixedDeque
  <2>2. FitFour("FixedDeque", "copyConstruct", "new", "take", "members", "copy")
    OBVIOUS
  <2> HIDE DEF FitFour
  <2> QED BY <2>1, <2>2, FourStatements
<1>3. Sensible("FixedDeque", "moveConstruct")
  <2>1. Table("FixedDeque", "moveConstruct") = <<"steal", "members", "null other", "empty other">>
    BY DEF Table, Arrays!Classes, Arrays!FixedDeque
  <2>2. FitFour("FixedDeque", "moveConstruct", "steal", "members", "null other", "empty other")
    OBVIOUS
  <2> HIDE DEF FitFour
  <2> QED BY <2>1, <2>2, FourStatements
<1>4. Sensible("FixedDeque", "copyAssign")
  <2>1. Table("FixedDeque", "copyAssign") = <<"delete", "new", "take", "members", "copy">>
    BY DEF Table, Arrays!Classes, Arrays!FixedDeque
  <2>2. FitFive("FixedDeque", "copyAssign", "delete", "new", "take", "members", "copy")
    OBVIOUS
  <2> HIDE DEF FitFive
  <2> QED BY <2>1, <2>2, FiveStatements
<1>5. Sensible("FixedDeque", "moveAssign")
  <2>1. Table("FixedDeque", "moveAssign") = <<"delete", "steal", "members", "null other", "empty other">>
    BY DEF Table, Arrays!Classes, Arrays!FixedDeque
  <2>2. FitFive("FixedDeque", "moveAssign", "delete", "steal", "members", "null other", "empty other")
    OBVIOUS
  <2> HIDE DEF FitFive
  <2> QED BY <2>1, <2>2, FiveStatements
<1> QED BY <1>1, <1>2, <1>3, <1>4, <1>5 DEF CallNames, Arrays!Constructors

LEMMA MyArrayIsSensible == \A op \in CallNames : Sensible("MyArray", op)
<1> USE DEF FitThree, FitFour, FitFive, Fits, Finished, Without, SmartClass, SafeCall,
              Arrays!NotSafe, Arrays!Moves, Arrays!Copies, Arrays!Constructors
<1>1. Sensible("MyArray", "construct")
  <2>1. Table("MyArray", "construct") = <<"new", "take", "members">>
    BY DEF Table, Arrays!Classes, Arrays!MyArray
  <2>2. FitThree("MyArray", "construct", "new", "take", "members")
    OBVIOUS
  <2> HIDE DEF FitThree
  <2> QED BY <2>1, <2>2, ThreeStatements
<1>2. Sensible("MyArray", "copyConstruct")
  <2>1. Table("MyArray", "copyConstruct") = <<"new", "take", "members", "copy">>
    BY DEF Table, Arrays!Classes, Arrays!MyArray
  <2>2. FitFour("MyArray", "copyConstruct", "new", "take", "members", "copy")
    OBVIOUS
  <2> HIDE DEF FitFour
  <2> QED BY <2>1, <2>2, FourStatements
<1>3. Sensible("MyArray", "moveConstruct")
  <2>1. Table("MyArray", "moveConstruct") = <<"steal", "members", "null other", "empty other">>
    BY DEF Table, Arrays!Classes, Arrays!MyArray
  <2>2. FitFour("MyArray", "moveConstruct", "steal", "members", "null other", "empty other")
    OBVIOUS
  <2> HIDE DEF FitFour
  <2> QED BY <2>1, <2>2, FourStatements
<1>4. Sensible("MyArray", "copyAssign")
  <2>1. Table("MyArray", "copyAssign") = <<"new", "copy", "swap", "delete temp">>
    BY DEF Table, Arrays!Classes, Arrays!MyArray
  <2>2. FitFour("MyArray", "copyAssign", "new", "copy", "swap", "delete temp")
    OBVIOUS
  <2> HIDE DEF FitFour
  <2> QED BY <2>1, <2>2, FourStatements
<1>5. Sensible("MyArray", "moveAssign")
  <2>1. Table("MyArray", "moveAssign") = <<"delete", "steal", "members", "null other", "empty other">>
    BY DEF Table, Arrays!Classes, Arrays!MyArray
  <2>2. FitFive("MyArray", "moveAssign", "delete", "steal", "members", "null other", "empty other")
    OBVIOUS
  <2> HIDE DEF FitFive
  <2> QED BY <2>1, <2>2, FiveStatements
<1> QED BY <1>1, <1>2, <1>3, <1>4, <1>5 DEF CallNames, Arrays!Constructors

LEMMA MyArray14IsSensible == \A op \in CallNames : Sensible("MyArray14", op)
<1> USE DEF FitThree, FitFour, FitFive, Fits, Finished, Without, SmartClass, SafeCall,
              Arrays!NotSafe, Arrays!Moves, Arrays!Copies, Arrays!Constructors
<1>1. Sensible("MyArray14", "construct")
  <2>1. Table("MyArray14", "construct") = <<"new", "take", "members">>
    BY DEF Table, Arrays!Classes, Arrays!MyArray14
  <2>2. FitThree("MyArray14", "construct", "new", "take", "members")
    OBVIOUS
  <2> HIDE DEF FitThree
  <2> QED BY <2>1, <2>2, ThreeStatements
<1>2. Sensible("MyArray14", "copyConstruct")
  <2>1. Table("MyArray14", "copyConstruct") = <<"new", "take", "members", "copy">>
    BY DEF Table, Arrays!Classes, Arrays!MyArray14
  <2>2. FitFour("MyArray14", "copyConstruct", "new", "take", "members", "copy")
    OBVIOUS
  <2> HIDE DEF FitFour
  <2> QED BY <2>1, <2>2, FourStatements
<1>3. Sensible("MyArray14", "moveConstruct")
  <2>1. Table("MyArray14", "moveConstruct") = <<"steal", "members", "empty other">>
    BY DEF Table, Arrays!Classes, Arrays!MyArray14
  <2>2. FitThree("MyArray14", "moveConstruct", "steal", "members", "empty other")
    OBVIOUS
  <2> HIDE DEF FitThree
  <2> QED BY <2>1, <2>2, ThreeStatements
<1>4. Sensible("MyArray14", "copyAssign")
  <2>1. Table("MyArray14", "copyAssign") = <<"members", "new", "take", "copy">>
    BY DEF Table, Arrays!Classes, Arrays!MyArray14
  <2>2. FitFour("MyArray14", "copyAssign", "members", "new", "take", "copy")
    OBVIOUS
  <2> HIDE DEF FitFour
  <2> QED BY <2>1, <2>2, FourStatements
<1>5. Sensible("MyArray14", "moveAssign")
  <2>1. Table("MyArray14", "moveAssign") = <<"members", "steal", "empty other">>
    BY DEF Table, Arrays!Classes, Arrays!MyArray14
  <2>2. FitThree("MyArray14", "moveAssign", "members", "steal", "empty other")
    OBVIOUS
  <2> HIDE DEF FitThree
  <2> QED BY <2>1, <2>2, ThreeStatements
<1> QED BY <1>1, <1>2, <1>3, <1>4, <1>5 DEF CallNames, Arrays!Constructors

LEMMA My_arrIsSensible == \A op \in CallNames : Sensible("my_arr", op)
<1> USE DEF FitThree, FitFour, FitFive, Fits, Finished, Without, SmartClass, SafeCall,
              Arrays!NotSafe, Arrays!Moves, Arrays!Copies, Arrays!Constructors
<1>1. Sensible("my_arr", "construct")
  <2>1. Table("my_arr", "construct") = <<"new", "take", "members">>
    BY DEF Table, Arrays!Classes, Arrays!my_arr
  <2>2. FitThree("my_arr", "construct", "new", "take", "members")
    OBVIOUS
  <2> HIDE DEF FitThree
  <2> QED BY <2>1, <2>2, ThreeStatements
<1>2. Sensible("my_arr", "copyConstruct")
  <2>1. Table("my_arr", "copyConstruct") = <<"new", "take", "members", "copy">>
    BY DEF Table, Arrays!Classes, Arrays!my_arr
  <2>2. FitFour("my_arr", "copyConstruct", "new", "take", "members", "copy")
    OBVIOUS
  <2> HIDE DEF FitFour
  <2> QED BY <2>1, <2>2, FourStatements
<1>3. Sensible("my_arr", "moveConstruct")
  <2>1. Table("my_arr", "moveConstruct") = <<"steal", "members", "empty other">>
    BY DEF Table, Arrays!Classes, Arrays!my_arr
  <2>2. FitThree("my_arr", "moveConstruct", "steal", "members", "empty other")
    OBVIOUS
  <2> HIDE DEF FitThree
  <2> QED BY <2>1, <2>2, ThreeStatements
<1>4. Sensible("my_arr", "copyAssign")
  <2>1. Table("my_arr", "copyAssign") = <<"new", "take", "members", "copy">>
    BY DEF Table, Arrays!Classes, Arrays!my_arr
  <2>2. FitFour("my_arr", "copyAssign", "new", "take", "members", "copy")
    OBVIOUS
  <2> HIDE DEF FitFour
  <2> QED BY <2>1, <2>2, FourStatements
<1>5. Sensible("my_arr", "moveAssign")
  <2>1. Table("my_arr", "moveAssign") = <<"steal", "members", "empty other">>
    BY DEF Table, Arrays!Classes, Arrays!my_arr
  <2>2. FitThree("my_arr", "moveAssign", "steal", "members", "empty other")
    OBVIOUS
  <2> HIDE DEF FitThree
  <2> QED BY <2>1, <2>2, ThreeStatements
<1> QED BY <1>1, <1>2, <1>3, <1>4, <1>5 DEF CallNames, Arrays!Constructors

LEMMA TablesAreSensible ==
  ASSUME NEW c \in ClassNames, NEW op \in CallNames PROVE Sensible(c, op)
BY StackIsSensible, QueueIsSensible, FixedDequeIsSensible, MyArrayIsSensible,
   MyArray14IsSensible, My_arrIsSensible DEF ClassNames

(* Where the assignments that change nothing when they fail may fail *)
LEMMA AllocationComesFirst ==
  /\ Table("Stack", "copyAssign")[1] = "new"
  /\ Table("MyArray", "copyAssign")[1] = "new"
BY DEF Table, Arrays!Classes, Arrays!Stack, Arrays!MyArray

-----------------------------------------------------------------------------
(* Who holds what: H are the objects that hold the arrays of A, L the arrays
   that are allocated, t the one in the hands of the function that runs.  The
   lemmas say what a statement may do to it. *)
OneHolder(H, A, L, t) ==
  /\ \A o \in H : A[o] \in L \cup {NoBlock}
  /\ \A o, p \in H : A[o] = A[p] => o = p \/ A[o] = NoBlock
  /\ t \in L \cup {NoBlock}
  /\ t # NoBlock => \A o \in H : A[o] # t
  /\ \A b \in L : b = t \/ \E o \in H : A[o] = b

Addresses == Blocks \cup {NoBlock}

LEMMA Allocated ==
  ASSUME NEW H, NEW A, NEW L, NEW b, NoBlock \notin L, b \notin L, b # NoBlock,
         OneHolder(H, A, L, NoBlock)
  PROVE  OneHolder(H, A, L \cup {b}, b)
BY DEF OneHolder

LEMMA PutDown ==
  ASSUME NEW H \in SUBSET Owners, NEW A \in [Owners -> Addresses], NEW L, NEW t,
         NEW o \in Owners \ H, OneHolder(H, A, L, t)
  PROVE  OneHolder(H \cup {o}, [A EXCEPT ![o] = t], L, NoBlock)
<1> DEFINE B == [A EXCEPT ![o] = t]
<1>1. B[o] = t /\ \A p \in H : B[p] = A[p] /\ p # o
  OBVIOUS
<1> HIDE DEF B
<1>2. OneHolder(H \cup {o}, B, L, NoBlock)
  BY <1>1 DEF OneHolder
<1> QED BY <1>2 DEF B

LEMMA DroppedBy ==
  ASSUME NEW H, NEW A, NEW L, NEW t, NEW o \in H, NoBlock \notin L,
         OneHolder(H, A, L, t)
  PROVE  OneHolder(H \ {o}, A, L \ {A[o]}, t)
BY DEF OneHolder

LEMMA HandEmptied ==
  ASSUME NEW H, NEW A, NEW L, NEW t, OneHolder(H, A, L, t)
  PROVE  OneHolder(H, A, L \ {t}, NoBlock)
BY DEF OneHolder

LEMMA Exchanged ==
  ASSUME NEW H \in SUBSET Owners, NEW A \in [Owners -> Addresses], NEW L, NEW t,
         NEW o \in H, OneHolder(H, A, L, t)
  PROVE  OneHolder(H, [A EXCEPT ![o] = t], L, A[o])
<1> DEFINE B == [A EXCEPT ![o] = t]
<1>1. B[o] = t /\ \A p \in H \ {o} : B[p] = A[p]
  OBVIOUS
<1> HIDE DEF B
<1>2. OneHolder(H, B, L, A[o])
  BY <1>1 DEF OneHolder
<1> QED BY <1>2 DEF B

LEMMA Passed ==
  ASSUME NEW H \in SUBSET Owners, NEW A \in [Owners -> Addresses], NEW L, NEW t,
         NEW o \in Owners \ H, NEW p \in H, OneHolder(H, A, L, t)
  PROVE  OneHolder((H \ {p}) \cup {o}, [A EXCEPT ![o] = A[p]], L, t)
<1> DEFINE B == [A EXCEPT ![o] = A[p]]
<1>1. B[o] = A[p] /\ \A q \in H : B[q] = A[q] /\ q # o
  OBVIOUS
<1> HIDE DEF B
<1>2. OneHolder((H \ {p}) \cup {o}, B, L, t)
  BY <1>1 DEF OneHolder
<1> QED BY <1>2 DEF B

LEMMA HoldsNothing ==
  ASSUME NEW H \in SUBSET Owners, NEW A \in [Owners -> Addresses], NEW L, NEW t,
         NEW o \in Owners \ H, OneHolder(H, A, L, t)
  PROVE  /\ OneHolder(H \cup {o}, [A EXCEPT ![o] = NoBlock], L, t)
         /\ OneHolder(H, [A EXCEPT ![o] = NoBlock], L, t)
<1> DEFINE B == [A EXCEPT ![o] = NoBlock]
<1>1. B[o] = NoBlock /\ \A p \in H : B[p] = A[p] /\ p # o
  OBVIOUS
<1> HIDE DEF B
<1>2. OneHolder(H \cup {o}, B, L, t) /\ OneHolder(H, B, L, t)
  BY <1>1 DEF OneHolder
<1> QED BY <1>2 DEF B

-----------------------------------------------------------------------------
(* The inductive invariant.  P is what the function that runs has done. *)
Running == call.status = "running"
Past == BeforeIn(Arrays!Statements, call.next)

Views == Addresses \X Nat \X (Payloads \cup {"garbage", NoBlock})
CallRecords ==
  [status : {"running", "returned", "threw"}, op : CallNames,
   self : Owners, other : Owners, n : Nat, next : Nat, temp : Addresses,
   before : Views, source : Views]

MemberTypes ==
  /\ class \in ClassNames
  /\ constructed \in SUBSET Owners
  /\ arrayOf \in [Owners -> Addresses]
  /\ capacityOf \in [Owners -> Nat]
  /\ live \in SUBSET Blocks
  /\ len \in [Blocks -> Nat]
  /\ val \in [Blocks -> Payloads \cup {"garbage"}]
ArraysTypes ==
  /\ MemberTypes
  /\ call = [status |-> "none"] \/ call \in CallRecords
  /\ Running => call \in CallRecords /\ call.next \in 1 .. Len(Arrays!Statements)

(* The object of a call holds its array but for the time between the end of
   the old one and the arrival of the new one; the other of a move that copies
   the pointer ceases to be the holder there and then. *)
SelfHolds(P) ==
  IF call.op \in Arrays!Constructors THEN "take" \in P \/ "steal" \in P
  ELSE "delete" \in P => "take" \in P \/ "steal" \in P
OtherHolds(P) == "steal" \in P /\ ~SmartClass(class) => "null other" \in P
Reach == constructed \cup {call.self}
HoldersAt(P) ==
  {o \in Reach : /\ o = call.self => SelfHolds(P)
                 /\ o = call.other /\ o # call.self => OtherHolds(P)}

NewInHand(P) == "new" \in P /\ "take" \notin P /\ "swap" \notin P
InHand(P) ==
  /\ NewInHand(P) => call.temp # NoBlock /\ len[call.temp] = call.n
  /\ ~NewInHand(P) => call.temp = NoBlock \/ ("swap" \in P /\ "delete temp" \notin P)
  /\ call.op \in Arrays!Constructors /\ ~SelfHolds(P) => arrayOf[call.self] = NoBlock

(* n is the length of o's array; only a Queue keeps one without an array. *)
IsLength(o, n) ==
  IF arrayOf[o] # NoBlock THEN n = len[arrayOf[o]] ELSE n = 0 \/ class = "Queue"
OtherLengths ==
  \A o \in Reach \ {call.self, call.other} : IsLength(o, capacityOf[o])
SelfLength(P) ==
  /\ call.op \notin Arrays!Constructors
     /\ Without(P, {"delete", "take", "steal", "swap", "members"})
     => IsLength(call.self, capacityOf[call.self])
  /\ "take" \in P => arrayOf[call.self] # NoBlock /\ len[arrayOf[call.self]] = call.n
  /\ "steal" \in P => IsLength(call.self, call.n)
  /\ "swap" \in P => IsLength(call.self, capacityOf[call.self])
  /\ "members" \in P => capacityOf[call.self] = call.n
SourceLength(P) ==
  /\ call.op \in Arrays!Copies =>
       /\ IsLength(call.other, capacityOf[call.other])
       /\ "swap" \notin P => capacityOf[call.other] = call.n
  /\ call.op \in Arrays!Moves =>
       /\ "steal" \notin P => IsLength(call.other, call.n)
       /\ capacityOf[call.other] = (IF "empty other" \in P THEN 0 ELSE call.n)
       /\ "steal" \in P /\ OtherHolds(P) => arrayOf[call.other] = NoBlock

(* What the call has done of its work *)
Target(P) == IF NewInHand(P) THEN call.temp ELSE arrayOf[call.self]
CopiedSoFar(P) ==
  call.op \in Arrays!Copies =>
    /\ call.source = <<arrayOf[call.other], capacityOf[call.other],
                       Arrays!ContentsOf(arrayOf[call.other])>>
    /\ "copy" \in P /\ call.source[2] > 0 => val[Target(P)] = call.source[3]
    /\ "swap" \in P => capacityOf[call.self] = call.source[2]
MovedSoFar(P) ==
  call.op \in Arrays!Moves =>
    LET holder == IF "steal" \in P THEN call.self ELSE call.other
    IN  /\ call.source[1] = arrayOf[holder]
        /\ call.source[2] = call.n
        /\ call.source[3] = Arrays!ContentsOf(arrayOf[holder])

Placed ==
  /\ call.op \in Arrays!Constructors <=> call.self \notin constructed
  /\ IF call.op = "construct" THEN call.other = call.self
     ELSE call.other \in constructed \ {call.self}
Body(P) ==
  /\ OneHolder(HoldersAt(P), arrayOf, live, call.temp)
  /\ InHand(P) /\ OtherLengths /\ SelfLength(P) /\ SourceLength(P)
  /\ CopiedSoFar(P) /\ MovedSoFar(P)
AtRest ==
  /\ OneHolder(constructed, arrayOf, live, NoBlock)
  /\ \A o \in constructed : IsLength(o, capacityOf[o])

Sound ==
  /\ fault # "delete"
  /\ fault = "access" => class = "Queue"
  /\ IF Running THEN Placed /\ Body(Past) ELSE AtRest
  /\ Arrays!CallsDoTheirWork

(* An assignment of Stack or MyArray has done nothing before its allocation. *)
NotBegun ==
  /\ class \in {"Stack", "MyArray"}
  /\ call.status = "running" /\ call.op = "copyAssign" /\ call.next = 1
  => call.before = <<arrayOf[call.self], capacityOf[call.self],
                     Arrays!ContentsOf(arrayOf[call.self])>>

ArraysInv ==
  /\ ArraysTypes
  /\ NotBegun /\ Arrays!FailedAssignmentChangesNothing
  /\ ~spoilt => Sound

-----------------------------------------------------------------------------
(* The end of a statement *)
Moved(t, m) ==
  /\ call' \in CallRecords
  /\ call'.op = call.op /\ call'.self = call.self /\ call'.other = call.other
  /\ call'.source = call.source
  /\ call'.temp = t /\ call'.n = m
  /\ Reach' = Reach /\ constructed' \in SUBSET Owners
  /\ \/ /\ call'.status = "running" /\ call'.next = call.next + 1
        /\ call.next < Len(Arrays!Statements)
        /\ constructed' = constructed
     \/ /\ call'.status = "returned"
        /\ call.next = Len(Arrays!Statements)
        /\ constructed' = constructed \cup {call.self}

LEMMA GoingOn ==
  ASSUME ArraysTypes, Running, NEW t \in Addresses, NEW m \in Nat,
         Arrays!GoesOn(t, m)
  PROVE  Moved(t, m)
<1>1. call \in CallRecords /\ call.next \in 1 .. Len(Arrays!Statements)
  BY DEF ArraysTypes
<1>2. Len(Arrays!Statements) \in Nat
  BY TablesAreSensible DEF ArraysTypes, MemberTypes, Running, CallRecords, Sensible, Table, Arrays!Statements
<1>3. constructed \in SUBSET Owners /\ call.self \in Owners
  BY <1>1 DEF ArraysTypes, MemberTypes, CallRecords
<1>4. CASE call.next < Len(Arrays!Statements)
  <2>1. /\ call' = [call EXCEPT !.next = @ + 1, !.temp = t, !.n = m]
        /\ constructed' = constructed
    BY <1>4 DEF Arrays!GoesOn
  <2> DEFINE k == call.next + 1
  <2>2. k \in Nat
    BY <1>1 DEF CallRecords
  <2>3. call' = [call EXCEPT !.next = k, !.temp = t, !.n = m]
    BY <2>1
  <2> HIDE DEF k
  <2>4. /\ call' \in CallRecords
        /\ call'.status = call.status /\ call'.next = k /\ call'.temp = t /\ call'.n = m
        /\ call'.op = call.op /\ call'.self = call.self /\ call'.other = call.other
        /\ call'.source = call.source
    <3>1. call' = [status |-> call.status, op |-> call.op, self |-> call.self,
                   other |-> call.other, n |-> m, next |-> k, temp |-> t,
                   before |-> call.before, source |-> call.source]
      BY <1>1, <2>3 DEF CallRecords
    <3> QED BY <1>1, <2>2, <3>1 DEF CallRecords
  <2>5. Reach' = Reach
    BY <2>1, <2>4 DEF Reach
  <2> QED BY <1>3, <1>4, <2>1, <2>4, <2>5 DEF Moved, Running, k
<1>5. CASE ~(call.next < Len(Arrays!Statements))
  <2>1. /\ call' = [call EXCEPT !.status = "returned", !.temp = t, !.n = m]
        /\ constructed' = constructed \cup {call.self}
    BY <1>5 DEF Arrays!GoesOn
  <2>2. /\ call' \in CallRecords
        /\ call'.status = "returned" /\ call'.temp = t /\ call'.n = m
        /\ call'.op = call.op /\ call'.self = call.self /\ call'.other = call.other
        /\ call'.source = call.source
    <3>1. call' = [status |-> "returned", op |-> call.op, self |-> call.self,
                   other |-> call.other, n |-> m, next |-> call.next, temp |-> t,
                   before |-> call.before, source |-> call.source]
      BY <1>1, <2>1 DEF CallRecords
    <3> QED BY <1>1, <3>1 DEF CallRecords
  <2>3. Reach' = Reach
    BY <2>1, <2>2 DEF Reach
  <2>4. call.next = Len(Arrays!Statements)
    BY <1>1, <1>2, <1>5
  <2> QED BY <1>3, <2>1, <2>2, <2>3, <2>4 DEF Moved
<1> QED BY <1>4, <1>5

(* What a statement finds and, P and itself now being done, leaves. *)
Doing(P, s) ==
  /\ ArraysTypes /\ Running /\ Placed /\ Body(P)
  /\ Fits(class, call.op, P, s)
Done(Q) ==
  /\ MemberTypes' /\ Body(Q)'
  /\ \E t \in Addresses, m \in Nat : Moved(t, m)
  /\ UNCHANGED <<class, fault, spoilt>>

LEMMA CallFields ==
  ASSUME ArraysTypes, Running
  PROVE  /\ call \in CallRecords
         /\ call.op \in CallNames /\ call.self \in Owners /\ call.other \in Owners
         /\ call.n \in Nat /\ call.temp \in Addresses
         /\ class \in ClassNames
         /\ NoBlock \notin live
         /\ arrayOf[call.self] \in Addresses /\ arrayOf[call.other] \in Addresses
         /\ capacityOf[call.self] \in Nat /\ capacityOf[call.other] \in Nat
<1>1. call \in CallRecords
  BY DEF ArraysTypes
<1> QED BY <1>1, NoBlockIsNone DEF ArraysTypes, MemberTypes, CallRecords

(* All but four statements leave the holders as they are. *)
LEMMA SameHolders ==
  ASSUME NEW P, NEW s, s \notin {"take", "steal", "delete", "null other"},
         NEW t, NEW m, Moved(t, m), class' = class
  PROVE  /\ SelfHolds(P \cup {s})' <=> SelfHolds(P)
         /\ OtherHolds(P \cup {s})' <=> OtherHolds(P)
         /\ HoldersAt(P \cup {s})' = HoldersAt(P)
<1> USE DEF Moved
<1>1. SelfHolds(P \cup {s})' <=> SelfHolds(P)
  BY DEF SelfHolds
<1>2. OtherHolds(P \cup {s})' <=> OtherHolds(P)
  BY DEF OtherHolds
<1> QED BY <1>1, <1>2 DEF HoldersAt

(* if (capa <= 0) throw, and the Stack of the copy constructor's message *)
LEMMA TestOrLocalDone ==
  ASSUME NEW P, NEW s \in {"test", "local"}, Doing(P, s),
         Arrays!GoesOn(call.temp, call.n),
         UNCHANGED <<class, arrayOf, capacityOf, live, len, val, fault, spoilt>>
  PROVE  Done(P \cup {s})
<1>1. Moved(call.temp, call.n)
  BY GoingOn, CallFields DEF Doing
<1> DEFINE Q == P \cup {s}
<1>2. \A x \in {"new", "take", "swap", "steal", "delete temp", "copy", "members",
                "empty other", "null other", "delete"} : x \in Q <=> x \in P
  OBVIOUS
<1>3. /\ SelfHolds(Q)' <=> SelfHolds(P)
      /\ OtherHolds(Q)' <=> OtherHolds(P)
      /\ HoldersAt(Q)' = HoldersAt(P)
  BY <1>1, SameHolders
<1> HIDE DEF Q
<1> USE <1>1, <1>2, <1>3 DEF Doing, Body, Moved
<1>4. OneHolder(HoldersAt(Q), arrayOf, live, call.temp)'
  OBVIOUS
<1>5. NewInHand(Q)' <=> NewInHand(P)
  BY DEF NewInHand
<1>6. InHand(Q)'
  BY <1>5 DEF InHand
<1>7. \A o \in Owners, n \in Nat : IsLength(o, n)' <=> IsLength(o, n)
  BY DEF IsLength
<1>8. OtherLengths'
  BY <1>7, CallFields DEF OtherLengths, IsLength
<1>9. SelfLength(Q)'
  BY DEF SelfLength, Without, IsLength
<1>10. SourceLength(Q)'
  BY DEF SourceLength, IsLength
<1>11. CopiedSoFar(Q)' /\ MovedSoFar(Q)'
  BY <1>5 DEF CopiedSoFar, MovedSoFar, Target, Arrays!ContentsOf
<1>12. MemberTypes'
  BY DEF MemberTypes, ArraysTypes, Reach
<1> QED BY <1>4, <1>6, <1>8, <1>9, <1>10, <1>11, <1>12, CallFields DEF Done, Q

(* Who holds an array besides the object of the call *)
LEMMA WhoHolds ==
  ASSUME NEW P, ArraysTypes, Running, Placed
  PROVE  /\ HoldersAt(P) \in SUBSET Owners
         /\ \A o \in Reach \ {call.self, call.other} : o \in HoldersAt(P)
         /\ call.self \in HoldersAt(P) <=> SelfHolds(P)
         /\ call.op # "construct" /\ OtherHolds(P) => call.other \in HoldersAt(P)
         /\ call.op # "construct" => call.other # call.self
         /\ call.op # "construct" /\ ~OtherHolds(P) => call.other \notin HoldersAt(P)
BY CallFields DEF HoldersAt, Reach, Placed, MemberTypes, ArraysTypes

(* new T[n] *)
LEMMA NewDone ==
  ASSUME NEW P, Doing(P, "new"), NEW b \in Blocks \ live,
         Arrays!GoesOn(b, call.n),
         live' = live \cup {b},
         len' = [len EXCEPT ![b] = call.n], val' = [val EXCEPT ![b] = "garbage"],
         UNCHANGED <<class, arrayOf, capacityOf, fault, spoilt>>
  PROVE  Done(P \cup {"new"})
<1>1. Moved(b, call.n)
  BY GoingOn, CallFields DEF Doing, Addresses
<1> DEFINE Q == P \cup {"new"}
<1>2. /\ "new" \in Q
      /\ \A x \in {"take", "swap", "steal", "delete temp", "copy", "members",
                   "empty other", "null other", "delete"} : x \in Q <=> x \in P
  OBVIOUS
<1>3. /\ SelfHolds(Q)' <=> SelfHolds(P)
      /\ OtherHolds(Q)' <=> OtherHolds(P)
      /\ HoldersAt(Q)' = HoldersAt(P)
  BY <1>1, SameHolders
<1> HIDE DEF Q
<1>4. /\ call.op \notin Arrays!Moves
      /\ Without(P, {"new", "take", "swap", "copy", "steal", "null other", "delete temp"})
  BY DEF Doing, Fits
<1>5. call.temp = NoBlock /\ b # NoBlock
  BY <1>4, NoBlockIsNone DEF Doing, Body, InHand, NewInHand, Without
<1> USE <1>1 DEF Moved
<1>6. OneHolder(HoldersAt(Q), arrayOf, live, call.temp)'
  BY <1>3, <1>5, Allocated, CallFields DEF Doing, Body
<1>7. \A o \in HoldersAt(P) : arrayOf[o] # b
  BY <1>5 DEF Doing, Body, OneHolder
<1>8. NewInHand(Q)'
  BY <1>2, <1>4 DEF NewInHand, Without
<1>9. len'[b] = call.n
  BY DEF Doing, ArraysTypes, MemberTypes
<1>10. InHand(Q)'
  BY <1>3, <1>5, <1>8, <1>9 DEF InHand, Doing, Body
<1>11. ASSUME NEW o \in Owners, NEW n, arrayOf[o] # b
       PROVE  IsLength(o, n)' <=> IsLength(o, n)
  BY <1>11 DEF IsLength, Doing, ArraysTypes, MemberTypes, Addresses
<1>12. OtherLengths'
  BY <1>7, <1>11, WhoHolds DEF OtherLengths, Doing, Body
<1>13. SelfLength(Q)'
  <2>1. ASSUME call.op \notin Arrays!Constructors, "delete" \notin P
        PROVE  arrayOf[call.self] # b
    BY <2>1, <1>7, WhoHolds DEF SelfHolds, Doing
  <2> QED BY <2>1, <1>2, <1>4, <1>11, CallFields DEF SelfLength, Without, Doing, Body
<1>14. ASSUME call.op \in Arrays!Copies PROVE arrayOf[call.other] # b
  BY <1>4, <1>7, <1>14, WhoHolds DEF OtherHolds, Without, Doing, Arrays!Copies
<1>15. SourceLength(Q)'
  BY <1>2, <1>4, <1>11, <1>14, CallFields DEF SourceLength, Doing, Body
<1>16. CopiedSoFar(Q)' /\ MovedSoFar(Q)'
  BY <1>2, <1>4, <1>5, <1>14, CallFields
     DEF CopiedSoFar, MovedSoFar, Arrays!ContentsOf, Without, Doing, Body, ArraysTypes,
         MemberTypes, Addresses
<1>17. MemberTypes'
  BY CallFields DEF MemberTypes, ArraysTypes, Doing
<1>18. Body(Q)'
  BY <1>6, <1>10, <1>12, <1>13, <1>15, <1>16 DEF Body
<1> QED BY <1>17, <1>18, CallFields DEF Done, Q, Doing, Addresses

(* size = other.size and its like *)
LEMMA MembersDone ==
  ASSUME NEW P, Doing(P, "members"),
         Arrays!GoesOn(call.temp, call.n),
         capacityOf' = [capacityOf EXCEPT ![call.self] = call.n],
         UNCHANGED <<class, arrayOf, live, len, val, fault, spoilt>>
  PROVE  Done(P \cup {"members"})
<1>1. Moved(call.temp, call.n)
  BY GoingOn, CallFields DEF Doing
<1> DEFINE Q == P \cup {"members"}
<1>2. /\ "members" \in Q
      /\ \A x \in {"new", "take", "swap", "steal", "delete temp", "copy",
                   "empty other", "null other", "delete"} : x \in Q <=> x \in P
  OBVIOUS
<1>3. /\ SelfHolds(Q)' <=> SelfHolds(P)
      /\ OtherHolds(Q)' <=> OtherHolds(P)
      /\ HoldersAt(Q)' = HoldersAt(P)
  BY <1>1, SameHolders
<1> HIDE DEF Q
<1>4. "swap" \notin P
  BY DEF Doing, Fits
<1> USE <1>1, <1>2, <1>3 DEF Doing, Body, Moved
<1>5. OneHolder(HoldersAt(Q), arrayOf, live, call.temp)'
  OBVIOUS
<1>6. NewInHand(Q)' <=> NewInHand(P)
  BY DEF NewInHand
<1>7. InHand(Q)'
  BY <1>6 DEF InHand
<1>8. /\ capacityOf'[call.self] = call.n
      /\ \A o \in Owners \ {call.self} : capacityOf'[o] = capacityOf[o]
  BY CallFields DEF ArraysTypes, MemberTypes
<1>9. OtherLengths'
  BY <1>8, WhoHolds DEF OtherLengths, IsLength
<1>10. SelfLength(Q)'
  BY <1>4, <1>8 DEF SelfLength, Without, IsLength
<1>11. call.op \in Arrays!Copies \cup Arrays!Moves => capacityOf'[call.other] = capacityOf[call.other]
  BY <1>8, CallFields, WhoHolds DEF Arrays!Copies, Arrays!Moves
<1>12. SourceLength(Q)'
  BY <1>4, <1>11 DEF SourceLength, IsLength
<1>13. CopiedSoFar(Q)' /\ MovedSoFar(Q)'
  BY <1>4, <1>6, <1>11 DEF CopiedSoFar, MovedSoFar, Target, Arrays!ContentsOf
<1>14. MemberTypes'
  BY CallFields DEF MemberTypes, ArraysTypes
<1> QED BY <1>5, <1>7, <1>9, <1>10, <1>12, <1>13, <1>14, CallFields DEF Done, Q

(* delete[] of what self holds, or of nothing *)
LEMMA SelfLetsGo ==
  ASSUME NEW P, ArraysTypes, Running, Placed, Body(P),
         call.self \in HoldersAt(P) \/ arrayOf[call.self] = NoBlock,
         Arrays!Free(arrayOf[call.self])
  PROVE  /\ live' = live \ {arrayOf[call.self]} /\ fault' = fault
         /\ OneHolder(HoldersAt(P) \ {call.self}, arrayOf, live', call.temp)
         /\ \A o \in HoldersAt(P) \ {call.self} :
              arrayOf[o] \in live' <=> arrayOf[o] \in live
<1>1. arrayOf[call.self] \in live \cup {NoBlock}
  BY DEF Body, OneHolder
<1>2. live' = live \ {arrayOf[call.self]} /\ fault' = fault
  BY <1>1 DEF Arrays!Free
<1>3. CASE call.self \in HoldersAt(P)
  <2>1. OneHolder(HoldersAt(P) \ {call.self}, arrayOf, live', call.temp)
    BY <1>2, <1>3, DroppedBy, CallFields DEF Body
  <2>2. \A o \in HoldersAt(P) \ {call.self} : arrayOf[o] # arrayOf[call.self] \/ arrayOf[o] = NoBlock
    BY <1>3 DEF Body, OneHolder
  <2> QED BY <1>2, <2>1, <2>2, CallFields
<1>4. CASE call.self \notin HoldersAt(P)
  BY <1>2, <1>4, CallFields DEF Body, OneHolder
<1> QED BY <1>2, <1>3, <1>4

(* data = temp *)
LEMMA TakeDone ==
  ASSUME NEW P, Doing(P, "take"), Arrays!Take
  PROVE  Done(P \cup {"take"})
<1>1. Moved(NoBlock, call.n)
  BY GoingOn, CallFields DEF Doing, Addresses, Arrays!Take
<1> DEFINE Q == P \cup {"take"}
<1>2. /\ "take" \in Q
      /\ \A x \in {"new", "swap", "steal", "delete temp", "copy",
                   "members", "empty other", "null other", "delete"} : x \in Q <=> x \in P
  OBVIOUS
<1>3. /\ "new" \in P /\ Without(P, {"take", "swap", "steal", "delete temp"})
      /\ call.op \notin Arrays!Moves
      /\ IF SmartClass(class) THEN "delete" \notin P
         ELSE call.op \in Arrays!Constructors \/ "delete" \in P
  BY DEF Doing, Fits
<1> HIDE DEF Q
<1> USE DEF Moved
<1>4. call.temp # NoBlock /\ len[call.temp] = call.n
  BY <1>3 DEF Doing, Body, InHand, NewInHand, Without
<1>5. /\ live' \in SUBSET live /\ fault' = fault
      /\ OneHolder(HoldersAt(P) \ {call.self}, arrayOf, live', call.temp)
      /\ \A o \in HoldersAt(P) \ {call.self} : arrayOf[o] \in live' <=> arrayOf[o] \in live
  <2>1. CASE SmartClass(class)
    <3>1. call.self \in HoldersAt(P) \/ arrayOf[call.self] = NoBlock
      BY <1>3, <2>1, WhoHolds DEF Doing, Body, InHand, SelfHolds
    <3>2. Arrays!Free(arrayOf[call.self])
      BY <2>1 DEF Arrays!Take, Arrays!Smart, SmartClass
    <3> QED BY <3>1, <3>2, SelfLetsGo DEF Doing
  <2>2. CASE ~SmartClass(class)
    <3>1. live' = live /\ fault' = fault
      BY <2>2 DEF Arrays!Take, Arrays!Smart, SmartClass
    <3>2. call.self \notin HoldersAt(P)
      BY <1>3, <2>2, WhoHolds DEF Doing, SelfHolds, Without
    <3>3. HoldersAt(P) \ {call.self} = HoldersAt(P)
      BY <3>2
    <3> QED BY <3>1, <3>3 DEF Doing, Body
  <2> QED BY <2>1, <2>2
<1>6. arrayOf' = [arrayOf EXCEPT ![call.self] = call.temp]
  BY DEF Arrays!Take
<1>7. /\ arrayOf'[call.self] = call.temp
      /\ \A o \in Owners \ {call.self} : arrayOf'[o] = arrayOf[o]
  BY <1>6, CallFields DEF Doing, ArraysTypes, MemberTypes
<1>8. UNCHANGED <<class, capacityOf, len, val, spoilt>>
  BY DEF Arrays!Take
<1>9. HoldersAt(Q)' = (HoldersAt(P) \ {call.self}) \cup {call.self}
  BY <1>1, <1>2, <1>3, <1>8, CallFields DEF HoldersAt, SelfHolds, OtherHolds, Reach, Without, Doing
<1>10. OneHolder(HoldersAt(Q), arrayOf, live, call.temp)'
  <2> DEFINE H == HoldersAt(P) \ {call.self}
  <2>1. /\ H \in SUBSET Owners /\ call.self \in Owners \ H
        /\ arrayOf \in [Owners -> Addresses]
    BY WhoHolds, CallFields DEF Doing, ArraysTypes, MemberTypes
  <2>2. OneHolder(H, arrayOf, live', call.temp)
    BY <1>5
  <2> HIDE DEF H
  <2>3. OneHolder(H \cup {call.self}, [arrayOf EXCEPT ![call.self] = call.temp], live', NoBlock)
    BY <2>1, <2>2, PutDown
  <2> QED BY <2>3, <1>1, <1>6, <1>9 DEF H
<1>11. InHand(Q)'
  BY <1>1, <1>2, <1>3 DEF InHand, NewInHand, SelfHolds
<1>12. OtherLengths'
  BY <1>1, <1>7, <1>8, WhoHolds DEF OtherLengths, IsLength, Doing, Body
<1>13. SelfLength(Q)'
  BY <1>1, <1>2, <1>3, <1>4, <1>7, <1>8 DEF SelfLength, Without, Doing, Body
<1>14. SourceLength(Q)'
  BY <1>1, <1>2, <1>3, <1>7, <1>8, CallFields, WhoHolds
     DEF SourceLength, IsLength, Doing, Body, Arrays!Copies
<1>15. CopiedSoFar(Q)'
  <2> SUFFICES ASSUME call.op \in Arrays!Copies
               PROVE  CopiedSoFar(Q)'
    BY <1>1 DEF CopiedSoFar
  <2>1. call.other \in HoldersAt(P) \ {call.self}
    BY <1>3, WhoHolds DEF Arrays!Copies, OtherHolds, Without, Doing
  <2>2. arrayOf'[call.other] = arrayOf[call.other]
    BY <2>1, <1>7, CallFields DEF Doing
  <2>3. Arrays!ContentsOf(arrayOf[call.other])' = Arrays!ContentsOf(arrayOf[call.other])
    BY <2>1, <2>2, <1>1, <1>5, <1>8 DEF Arrays!ContentsOf
  <2>4. Target(P) = call.temp /\ Target(Q)' = call.temp
    BY <1>2, <1>3, <1>7, <1>1 DEF Target, NewInHand, Without
  <2> QED BY <1>1, <1>2, <1>3, <1>8, <2>2, <2>3, <2>4 DEF CopiedSoFar, Without, Doing, Body
<1>16. MovedSoFar(Q)'
  BY <1>1, <1>3 DEF MovedSoFar
<1>17. MemberTypes'
  BY <1>1, <1>5, <1>6, <1>8, CallFields DEF MemberTypes, ArraysTypes, Doing
<1>18. Body(Q)'
  BY <1>10, <1>11, <1>12, <1>13, <1>14, <1>15, <1>16 DEF Body
<1> QED BY <1>1, <1>5, <1>8, <1>17, <1>18, CallFields DEF Done, Q, Doing, Addresses

(* delete[] data *)
LEMMA DeleteDone ==
  ASSUME NEW P, Doing(P, "delete"), Arrays!Delete
  PROVE  Done(P \cup {"delete"})
<1>1. Moved(call.temp, call.n)
  BY GoingOn, CallFields DEF Doing, Arrays!Delete
<1> DEFINE Q == P \cup {"delete"}
<1>2. /\ "delete" \in Q
      /\ \A x \in {"new", "take", "swap", "steal", "delete temp",
                   "copy", "members", "empty other", "null other"} : x \in Q <=> x \in P
  OBVIOUS
<1> HIDE DEF Q
<1>3. /\ ~SmartClass(class) /\ call.op \notin Arrays!Constructors
      /\ Without(P, {"delete", "take", "steal", "swap", "members", "null other", "delete temp"})
  BY DEF Doing, Fits
<1> USE DEF Moved
<1>4. call.self \in HoldersAt(P)
  BY <1>3, WhoHolds DEF Doing, SelfHolds, Without
<1>5. /\ live' \in SUBSET live /\ fault' = fault
      /\ OneHolder(HoldersAt(P) \ {call.self}, arrayOf, live', call.temp)
      /\ \A o \in HoldersAt(P) \ {call.self} : arrayOf[o] \in live' <=> arrayOf[o] \in live
  BY <1>4, SelfLetsGo DEF Doing, Arrays!Delete
<1>6. UNCHANGED <<class, arrayOf, capacityOf, len, val, spoilt>>
  BY DEF Arrays!Delete
<1>7. HoldersAt(Q)' = HoldersAt(P) \ {call.self}
  BY <1>1, <1>2, <1>3, <1>6, CallFields DEF HoldersAt, SelfHolds, OtherHolds, Reach, Without, Doing
<1>8. OneHolder(HoldersAt(Q), arrayOf, live, call.temp)'
  BY <1>1, <1>5, <1>6, <1>7
<1>9. NewInHand(Q)' <=> NewInHand(P)
  BY <1>2 DEF NewInHand
<1>10. InHand(Q)'
  BY <1>1, <1>2, <1>3, <1>6, <1>9 DEF InHand, Doing, Body
<1>11. OtherLengths'
  BY <1>1, <1>6 DEF OtherLengths, IsLength, Doing, Body
<1>12. SelfLength(Q)'
  BY <1>1, <1>2, <1>3 DEF SelfLength, Without
<1>13. SourceLength(Q)'
  BY <1>1, <1>2, <1>3, <1>6 DEF SourceLength, IsLength, Without, Doing, Body
<1>14. ASSUME call.op \in Arrays!Copies \cup Arrays!Moves
       PROVE  Arrays!ContentsOf(arrayOf[call.other])' = Arrays!ContentsOf(arrayOf[call.other])
  <2>1. call.other \in HoldersAt(P) \ {call.self}
    BY <1>3, <1>14, WhoHolds DEF Arrays!Copies, Arrays!Moves, OtherHolds, Without, Doing
  <2> QED BY <2>1, <1>1, <1>5, <1>6 DEF Arrays!ContentsOf
<1>15. CopiedSoFar(Q)' /\ MovedSoFar(Q)'
  BY <1>1, <1>2, <1>3, <1>6, <1>9, <1>14 DEF CopiedSoFar, MovedSoFar, Target, Without, Doing, Body
<1>16. MemberTypes'
  BY <1>1, <1>5, <1>6, CallFields DEF MemberTypes, ArraysTypes, Doing
<1>17. Body(Q)'
  BY <1>8, <1>10, <1>11, <1>12, <1>13, <1>15 DEF Body
<1> QED BY <1>1, <1>5, <1>6, <1>16, <1>17, CallFields DEF Done, Q, Doing, Addresses

(* std::swap of both members with temp's *)
LEMMA SwapDone ==
  ASSUME NEW P, Doing(P, "swap"), Arrays!Swap
  PROVE  Done(P \cup {"swap"})
<1>1. Moved(arrayOf[call.self], capacityOf[call.self])
  BY GoingOn, CallFields DEF Doing, Arrays!Swap
<1> DEFINE Q == P \cup {"swap"}
<1>2. /\ "swap" \in Q
      /\ \A x \in {"new", "take", "steal", "delete temp", "copy",
                   "members", "empty other", "null other", "delete"} : x \in Q <=> x \in P
  OBVIOUS
<1>3. /\ SelfHolds(Q)' <=> SelfHolds(P)
      /\ OtherHolds(Q)' <=> OtherHolds(P)
      /\ HoldersAt(Q)' = HoldersAt(P)
  BY <1>1, SameHolders DEF Arrays!Swap
<1> HIDE DEF Q
<1>4. /\ call.op = "copyAssign" /\ "new" \in P /\ "copy" \in P
      /\ Without(P, {"delete", "take", "steal", "swap", "members", "delete temp"})
  BY DEF Doing, Fits
<1> USE DEF Moved
<1>5. /\ arrayOf' = [arrayOf EXCEPT ![call.self] = call.temp]
      /\ capacityOf' = [capacityOf EXCEPT ![call.self] = call.n]
      /\ UNCHANGED <<class, live, len, val, spoilt, fault>>
  BY DEF Arrays!Swap, Arrays!heap
<1>6. /\ arrayOf'[call.self] = call.temp /\ capacityOf'[call.self] = call.n
      /\ \A o \in Owners \ {call.self} :
           arrayOf'[o] = arrayOf[o] /\ capacityOf'[o] = capacityOf[o]
  BY <1>5, CallFields DEF Doing, ArraysTypes, MemberTypes
<1>7. call.temp # NoBlock /\ len[call.temp] = call.n
  BY <1>4 DEF Doing, Body, InHand, NewInHand, Without
<1>8. OneHolder(HoldersAt(Q), arrayOf, live, call.temp)'
  <2> DEFINE H == HoldersAt(P)
  <2>1. H \in SUBSET Owners /\ call.self \in H /\ arrayOf \in [Owners -> Addresses]
    BY <1>4, WhoHolds, CallFields
       DEF Doing, ArraysTypes, MemberTypes, SelfHolds, Without, Arrays!Constructors
  <2>2. OneHolder(H, arrayOf, live, call.temp)
    BY DEF Doing, Body
  <2>3. OneHolder(H, [arrayOf EXCEPT ![call.self] = call.temp], live, arrayOf[call.self])
    <3> HIDE DEF H
    <3> QED BY <2>1, <2>2, Exchanged
  <2> QED BY <2>3, <1>1, <1>3, <1>5
<1>9. InHand(Q)'
  BY <1>1, <1>2, <1>4 DEF InHand, NewInHand, Without, Arrays!Constructors
<1>10. OtherLengths'
  BY <1>1, <1>5, <1>6, WhoHolds DEF OtherLengths, IsLength, Doing, Body
<1>11. SelfLength(Q)'
  <2>1. arrayOf'[call.self] # NoBlock /\ len'[arrayOf'[call.self]] = capacityOf'[call.self]
    BY <1>5, <1>6, <1>7
  <2>2. call'.self = call.self /\ call'.op = call.op
    BY <1>1
  <2> QED BY <1>1, <1>2, <1>4, <1>6, <2>1, <2>2 DEF SelfLength, IsLength, Without
<1>12. call.other \in Owners \ {call.self}
  BY <1>4, WhoHolds, CallFields DEF Doing
<1>13. SourceLength(Q)'
  <2>1. IsLength(call.other, capacityOf[call.other])
    BY <1>4 DEF Doing, Body, SourceLength, Arrays!Copies
  <2>2. IsLength(call.other, capacityOf[call.other])'
    BY <2>1, <1>1, <1>5, <1>6, <1>12 DEF IsLength
  <2> QED BY <2>2, <1>1, <1>2, <1>4 DEF SourceLength, Arrays!Moves
<1>14. CopiedSoFar(Q)' /\ MovedSoFar(Q)'
  <2>1. Target(P) = call.temp /\ Target(Q)' = call.temp
    BY <1>1, <1>2, <1>4, <1>6 DEF Target, NewInHand, Without
  <2>2. call.op \in Arrays!Copies /\ call.op \notin Arrays!Moves
    BY <1>4 DEF Arrays!Copies, Arrays!Moves
  <2>3. /\ call.source = <<arrayOf[call.other], capacityOf[call.other],
                          Arrays!ContentsOf(arrayOf[call.other])>>
        /\ call.source[2] > 0 => val[call.temp] = call.source[3]
    BY <2>1, <2>2, <1>4 DEF Doing, Body, CopiedSoFar
  <2>4. capacityOf[call.other] = call.n
    BY <2>2, <1>4 DEF Doing, Body, SourceLength, Without
  <2>5. Arrays!ContentsOf(arrayOf[call.other])' = Arrays!ContentsOf(arrayOf[call.other])
    BY <1>1, <1>5, <1>6, <1>12 DEF Arrays!ContentsOf
  <2>6. CopiedSoFar(Q)'
    <3>1. call.source[2] = call.n
      BY <2>3, <2>4
    <3> QED BY <1>1, <1>5, <1>6, <1>12, <2>1, <2>3, <2>5, <3>1 DEF CopiedSoFar
  <2> QED BY <1>1, <2>2, <2>6 DEF MovedSoFar
<1>15. MemberTypes'
  BY <1>1, <1>5, CallFields DEF MemberTypes, ArraysTypes, Doing
<1>16. Body(Q)'
  BY <1>8, <1>9, <1>10, <1>11, <1>13, <1>14 DEF Body
<1> QED BY <1>1, <1>5, <1>15, <1>16, CallFields DEF Done, Q, Doing, Addresses

(* The end of temp, which has the old array *)
LEMMA DeleteTempDone ==
  ASSUME NEW P, Doing(P, "delete temp"), Arrays!DeleteTemp
  PROVE  Done(P \cup {"delete temp"})
<1>1. Moved(NoBlock, call.n)
  BY GoingOn, CallFields DEF Doing, Addresses, Arrays!DeleteTemp
<1> DEFINE Q == P \cup {"delete temp"}
<1>2. /\ "delete temp" \in Q
      /\ \A x \in {"new", "take", "swap", "steal", "copy",
                   "members", "empty other", "null other", "delete"} : x \in Q <=> x \in P
  OBVIOUS
<1>3. /\ SelfHolds(Q)' <=> SelfHolds(P)
      /\ OtherHolds(Q)' <=> OtherHolds(P)
      /\ HoldersAt(Q)' = HoldersAt(P)
  BY <1>1, SameHolders DEF Arrays!DeleteTemp
<1> HIDE DEF Q
<1>4. call.op = "copyAssign" /\ "swap" \in P /\ Without(P, {"take", "steal", "delete"})
  BY DEF Doing, Fits
<1> USE DEF Moved
<1>5. call.temp \in live \cup {NoBlock}
  BY DEF Doing, Body, OneHolder
<1>6. /\ live' = live \ {call.temp}
      /\ UNCHANGED <<class, arrayOf, capacityOf, len, val, spoilt, fault>>
  BY <1>5 DEF Arrays!DeleteTemp, Arrays!Free
<1>7. OneHolder(HoldersAt(Q), arrayOf, live, call.temp)'
  BY <1>1, <1>3, <1>6, HandEmptied DEF Doing, Body
<1>8. InHand(Q)'
  BY <1>1, <1>2, <1>4 DEF InHand, NewInHand, Arrays!Constructors
<1>9. OtherLengths'
  BY <1>1, <1>6 DEF OtherLengths, IsLength, Doing, Body
<1>10. SelfLength(Q)'
  BY <1>1, <1>2, <1>4, <1>6 DEF SelfLength, IsLength, Without, Doing, Body
<1>11. SourceLength(Q)'
  BY <1>1, <1>2, <1>4, <1>6 DEF SourceLength, IsLength, Doing, Body, Arrays!Moves
<1>12. Arrays!ContentsOf(arrayOf[call.other])' = Arrays!ContentsOf(arrayOf[call.other])
  <2>1. call.other \in HoldersAt(P)
    BY <1>4, WhoHolds DEF OtherHolds, Without, Doing
  <2>2. arrayOf[call.other] # call.temp \/ call.temp = NoBlock
    BY <2>1 DEF Doing, Body, OneHolder
  <2> QED BY <2>2, <1>1, <1>6, CallFields DEF Arrays!ContentsOf, Doing
<1>13. CopiedSoFar(Q)' /\ MovedSoFar(Q)'
  BY <1>1, <1>2, <1>4, <1>6, <1>12
     DEF CopiedSoFar, MovedSoFar, Target, NewInHand, Doing, Body, Arrays!Moves
<1>14. MemberTypes'
  BY <1>1, <1>6, CallFields DEF MemberTypes, ArraysTypes, Doing
<1>15. Body(Q)'
  BY <1>7, <1>8, <1>9, <1>10, <1>11, <1>13 DEF Body
<1> QED BY <1>1, <1>6, <1>14, <1>15, CallFields DEF Done, Q, Doing, Addresses

(* data = other.data, by a unique_ptr's move or by the copy of a pointer *)
LEMMA StealDone ==
  ASSUME NEW P, Doing(P, "steal"), Arrays!Steal
  PROVE  Done(P \cup {"steal"})
<1>1. Moved(call.temp, call.n)
  BY GoingOn, CallFields DEF Doing, Arrays!Steal
<1> DEFINE Q == P \cup {"steal"}
<1>2. /\ "steal" \in Q
      /\ \A x \in {"new", "take", "swap", "delete temp", "copy",
                   "members", "empty other", "null other", "delete"} : x \in Q <=> x \in P
  OBVIOUS
<1> HIDE DEF Q
<1>3. /\ call.op \in Arrays!Moves
      /\ Without(P, {"new", "take", "steal", "swap", "copy", "null other", "empty other"})
      /\ IF SmartClass(class) THEN "delete" \notin P
         ELSE call.op = "moveConstruct" \/ "delete" \in P
  BY DEF Doing, Fits
<1> USE DEF Moved
<1>4. call.other \in HoldersAt(P) \ {call.self}
  BY <1>3, WhoHolds DEF Arrays!Moves, OtherHolds, Without, Doing
<1>5. /\ live' \in SUBSET live /\ fault' = fault
      /\ OneHolder(HoldersAt(P) \ {call.self}, arrayOf, live', call.temp)
      /\ \A o \in HoldersAt(P) \ {call.self} : arrayOf[o] \in live' <=> arrayOf[o] \in live
  <2>1. CASE SmartClass(class)
    <3>1. call.self \in HoldersAt(P) \/ arrayOf[call.self] = NoBlock
      BY <1>3, <2>1, WhoHolds DEF Doing, Body, InHand, SelfHolds
    <3>2. Arrays!Free(arrayOf[call.self])
      BY <2>1 DEF Arrays!Steal, Arrays!Smart, SmartClass
    <3> QED BY <3>1, <3>2, SelfLetsGo DEF Doing
  <2>2. CASE ~SmartClass(class)
    <3>1. live' = live /\ fault' = fault
      BY <2>2 DEF Arrays!Steal, Arrays!Smart, SmartClass
    <3>2. call.self \notin HoldersAt(P)
      BY <1>3, <2>2, WhoHolds DEF Doing, SelfHolds, Without, Arrays!Constructors, Arrays!Moves
    <3>3. HoldersAt(P) \ {call.self} = HoldersAt(P)
      BY <3>2
    <3> QED BY <3>1, <3>3 DEF Doing, Body
  <2> QED BY <2>1, <2>2
<1>6. UNCHANGED <<class, capacityOf, len, val, spoilt>>
  BY DEF Arrays!Steal
<1>7. /\ arrayOf \in [Owners -> Addresses]
      /\ call.self \in Owners /\ call.other \in Owners \ {call.self}
      /\ arrayOf[call.other] \in Addresses
  BY <1>4, CallFields DEF Doing, ArraysTypes, MemberTypes
<1> DEFINE A == [arrayOf EXCEPT ![call.self] = arrayOf[call.other]]
           H == HoldersAt(P) \ {call.self}
<1>8. arrayOf' = IF SmartClass(class) THEN [A EXCEPT ![call.other] = NoBlock] ELSE A
  BY DEF Arrays!Steal, Arrays!Smart, SmartClass
<1>9. /\ arrayOf'[call.self] = arrayOf[call.other]
      /\ SmartClass(class) => arrayOf'[call.other] = NoBlock
      /\ \A o \in Owners \ {call.self, call.other} : arrayOf'[o] = arrayOf[o]
      /\ arrayOf' \in [Owners -> Addresses]
  BY <1>7, <1>8 DEF Addresses
<1>10. OneHolder(HoldersAt(Q), arrayOf, live, call.temp)'
  <2>1. H \in SUBSET Owners /\ call.self \in Owners \ H /\ call.other \in H
    BY <1>4, WhoHolds, CallFields DEF Doing
  <2>2. A \in [Owners -> Addresses]
    BY <1>7
  <2>3. HoldersAt(Q)' = IF SmartClass(class) THEN H \cup {call.self}
                        ELSE (H \ {call.other}) \cup {call.self}
    BY <1>1, <1>2, <1>3, <1>4, <1>6, CallFields
       DEF HoldersAt, SelfHolds, OtherHolds, Reach, Without, Doing
  <2>4. OneHolder(H, arrayOf, live', call.temp)
    BY <1>5
  <2> HIDE DEF H
  <2>5. OneHolder((H \ {call.other}) \cup {call.self}, A, live', call.temp)
    BY <2>1, <2>4, <1>7, Passed
  <2>6. CASE ~SmartClass(class)
    BY <2>6, <2>3, <2>5, <1>1, <1>8
  <2>7. CASE SmartClass(class)
    <3> DEFINE K == (H \ {call.other}) \cup {call.self}
    <3>1. K \in SUBSET Owners /\ call.other \in Owners \ K
      BY <2>1, <1>7
    <3>2. K \cup {call.other} = H \cup {call.self}
      BY <2>1
    <3>3. OneHolder(K, A, live', call.temp)
      BY <2>5
    <3> HIDE DEF K, A
    <3>4. OneHolder(K \cup {call.other}, [A EXCEPT ![call.other] = NoBlock], live', call.temp)
      BY <3>1, <3>3, <2>2, HoldsNothing
    <3> QED BY <2>7, <2>3, <3>2, <3>4, <1>1, <1>8
  <2> QED BY <2>6, <2>7
<1> HIDE DEF A, H
<1>11. InHand(Q)'
  BY <1>1, <1>2, <1>3, <1>6 DEF InHand, NewInHand, SelfHolds, Without, Doing, Body
<1>12. OtherLengths'
  BY <1>1, <1>6, <1>9, WhoHolds DEF OtherLengths, IsLength, Doing, Body
<1>13. SelfLength(Q)'
  BY <1>1, <1>2, <1>3, <1>6, <1>9 DEF SelfLength, SourceLength, IsLength, Without, Doing, Body
<1>14. SourceLength(Q)'
  BY <1>1, <1>2, <1>3, <1>6, <1>9
     DEF SourceLength, OtherHolds, Without, Doing, Body, Arrays!Copies, Arrays!Moves
<1>15. CopiedSoFar(Q)'
  BY <1>1, <1>3 DEF CopiedSoFar, Arrays!Copies, Arrays!Moves
<1>16. MovedSoFar(Q)'
  BY <1>1, <1>2, <1>3, <1>4, <1>5, <1>6, <1>9
     DEF MovedSoFar, Arrays!ContentsOf, Without, Doing, Body
<1>17. MemberTypes'
  BY <1>1, <1>5, <1>6, <1>9, CallFields DEF MemberTypes, ArraysTypes, Doing
<1>18. Body(Q)'
  BY <1>10, <1>11, <1>12, <1>13, <1>14, <1>15, <1>16 DEF Body
<1> QED BY <1>1, <1>5, <1>6, <1>17, <1>18, CallFields DEF Done, Q, Doing, Addresses

(* other.data = nullptr *)
LEMMA NullOtherDone ==
  ASSUME NEW P, Doing(P, "null other"), Arrays!NullOther
  PROVE  Done(P \cup {"null other"})
<1>1. Moved(call.temp, call.n)
  BY GoingOn, CallFields DEF Doing, Arrays!NullOther
<1> DEFINE Q == P \cup {"null other"}
<1>2. /\ "null other" \in Q
      /\ \A x \in {"new", "take", "swap", "steal", "delete temp",
                   "copy", "members", "empty other", "delete"} : x \in Q <=> x \in P
  OBVIOUS
<1> HIDE DEF Q
<1>3. /\ call.op \in Arrays!Moves /\ "steal" \in P /\ "null other" \notin P
      /\ ~SmartClass(class)
  BY DEF Doing, Fits
<1> USE DEF Moved
<1>4. /\ arrayOf' = [arrayOf EXCEPT ![call.other] = NoBlock]
      /\ UNCHANGED <<class, capacityOf, live, len, val, spoilt, fault>>
  BY DEF Arrays!NullOther, Arrays!heap
<1>5. /\ call.other \in Owners \ HoldersAt(P) /\ call.other # call.self
      /\ call.other \in Reach
  BY <1>3, WhoHolds, CallFields DEF Doing, OtherHolds, Arrays!Moves, Reach, Placed
<1>6. /\ arrayOf'[call.other] = NoBlock
      /\ \A o \in Owners \ {call.other} : arrayOf'[o] = arrayOf[o]
      /\ arrayOf' \in [Owners -> Addresses]
  BY <1>4, <1>5 DEF Doing, ArraysTypes, MemberTypes, Addresses
<1>7. HoldersAt(Q)' = HoldersAt(P) \cup {call.other}
  BY <1>1, <1>2, <1>3, <1>4, <1>5, CallFields
     DEF HoldersAt, SelfHolds, OtherHolds, Doing
<1>8. OneHolder(HoldersAt(Q), arrayOf, live, call.temp)'
  <2> DEFINE H == HoldersAt(P)
  <2>1. H \in SUBSET Owners /\ call.other \in Owners \ H /\ arrayOf \in [Owners -> Addresses]
    BY <1>5, WhoHolds DEF Doing, ArraysTypes, MemberTypes
  <2>2. OneHolder(H, arrayOf, live, call.temp)
    BY DEF Doing, Body
  <2> HIDE DEF H
  <2>3. OneHolder(H \cup {call.other}, [arrayOf EXCEPT ![call.other] = NoBlock], live, call.temp)
    BY <2>1, <2>2, HoldsNothing
  <2> QED BY <2>3, <1>1, <1>4, <1>7 DEF H
<1>9. InHand(Q)'
  BY <1>1, <1>2, <1>3, <1>4 DEF InHand, NewInHand, SelfHolds, Doing, Body
<1>10. OtherLengths'
  BY <1>1, <1>4, <1>6, WhoHolds DEF OtherLengths, IsLength, Doing, Body
<1>11. arrayOf'[call.self] = arrayOf[call.self]
  BY <1>5, <1>6, CallFields DEF Doing
<1>12. SelfLength(Q)'
  BY <1>1, <1>2, <1>4, <1>11 DEF SelfLength, IsLength, Without, Doing, Body
<1>13. SourceLength(Q)'
  BY <1>1, <1>2, <1>3, <1>4, <1>6 DEF SourceLength, Doing, Body, Arrays!Copies, Arrays!Moves
<1>14. CopiedSoFar(Q)'
  BY <1>1, <1>3 DEF CopiedSoFar, Arrays!Copies, Arrays!Moves
<1>15. MovedSoFar(Q)'
  <2>1. /\ call.source[1] = arrayOf[call.self] /\ call.source[2] = call.n
        /\ call.source[3] = Arrays!ContentsOf(arrayOf[call.self])
    BY <1>3 DEF MovedSoFar, Doing, Body
  <2>2. Arrays!ContentsOf(arrayOf[call.self])' = Arrays!ContentsOf(arrayOf[call.self])
    <3>1. call'.self = call.self /\ live' = live /\ val' = val
      BY <1>1, <1>4
    <3> QED BY <1>11, <3>1 DEF Arrays!ContentsOf
  <2>3. "steal" \in Q
    BY <1>2, <1>3
  <2> QED BY <1>1, <1>11, <2>1, <2>2, <2>3 DEF MovedSoFar
<1>16. MemberTypes'
  BY <1>1, <1>4, <1>6, CallFields DEF MemberTypes, ArraysTypes, Doing
<1>17. Body(Q)'
  BY <1>8, <1>9, <1>10, <1>12, <1>13, <1>14, <1>15 DEF Body
<1> QED BY <1>1, <1>4, <1>16, <1>17, CallFields DEF Done, Q, Doing, Addresses

(* other.size = 0 *)
LEMMA EmptyOtherDone ==
  ASSUME NEW P, Doing(P, "empty other"), Arrays!EmptyOther
  PROVE  Done(P \cup {"empty other"})
<1>1. Moved(call.temp, call.n)
  BY GoingOn, CallFields DEF Doing, Arrays!EmptyOther
<1> DEFINE Q == P \cup {"empty other"}
<1>2. /\ "empty other" \in Q
      /\ \A x \in {"new", "take", "swap", "steal", "delete temp",
                   "copy", "members", "null other", "delete"} : x \in Q <=> x \in P
  OBVIOUS
<1>3. /\ SelfHolds(Q)' <=> SelfHolds(P)
      /\ OtherHolds(Q)' <=> OtherHolds(P)
      /\ HoldersAt(Q)' = HoldersAt(P)
  BY <1>1, SameHolders DEF Arrays!EmptyOther
<1> HIDE DEF Q
<1>4. /\ call.op \in Arrays!Moves /\ "steal" \in P
      /\ SmartClass(class) \/ "null other" \in P
  BY DEF Doing, Fits
<1> USE DEF Moved
<1>5. /\ capacityOf' = [capacityOf EXCEPT ![call.other] = 0]
      /\ UNCHANGED <<class, arrayOf, live, len, val, spoilt, fault>>
  BY DEF Arrays!EmptyOther, Arrays!heap
<1>6. call.other \in Owners \ {call.self}
  BY <1>4, WhoHolds, CallFields DEF Doing, Arrays!Moves
<1>7. /\ capacityOf'[call.other] = 0
      /\ \A o \in Owners \ {call.other} : capacityOf'[o] = capacityOf[o]
      /\ capacityOf' \in [Owners -> Nat]
  BY <1>5, <1>6 DEF Doing, ArraysTypes, MemberTypes
<1>8. OneHolder(HoldersAt(Q), arrayOf, live, call.temp)'
  BY <1>1, <1>3, <1>5 DEF Doing, Body
<1>9. NewInHand(Q)' <=> NewInHand(P)
  BY <1>2 DEF NewInHand
<1>10. InHand(Q)'
  BY <1>1, <1>2, <1>3, <1>5, <1>9 DEF InHand, Doing, Body
<1>11. OtherLengths'
  BY <1>1, <1>5, <1>7, WhoHolds DEF OtherLengths, IsLength, Doing, Body
<1>12. capacityOf'[call.self] = capacityOf[call.self]
  BY <1>6, <1>7, CallFields DEF Doing
<1>13. SelfLength(Q)'
  BY <1>1, <1>2, <1>5, <1>12 DEF SelfLength, IsLength, Without, Doing, Body
<1>14. SourceLength(Q)'
  BY <1>1, <1>2, <1>3, <1>4, <1>5, <1>7 DEF SourceLength, Doing, Body, Arrays!Copies, Arrays!Moves
<1>15. CopiedSoFar(Q)'
  BY <1>1, <1>4 DEF CopiedSoFar, Arrays!Copies, Arrays!Moves
<1>16. MovedSoFar(Q)'
  BY <1>1, <1>2, <1>5 DEF MovedSoFar, Arrays!ContentsOf, Doing, Body
<1>17. MemberTypes'
  BY <1>1, <1>5, <1>7, CallFields DEF MemberTypes, ArraysTypes, Doing
<1>18. Body(Q)'
  BY <1>8, <1>10, <1>11, <1>13, <1>14, <1>15, <1>16 DEF Body
<1> QED BY <1>1, <1>5, <1>17, <1>18, CallFields DEF Done, Q, Doing, Addresses

(* Where a copy comes from and where it goes: two arrays that are there, unless
   there is nothing to copy, or the other is a Queue without its array. *)
LEMMA CopyEnds ==
  ASSUME NEW P, Doing(P, "copy"), call.n > 0
  PROVE  /\ (IF call.temp # NoBlock THEN call.temp ELSE arrayOf[call.self]) = Target(P)
         /\ Target(P) \in live
         /\ IF arrayOf[call.other] # NoBlock
            THEN arrayOf[call.other] \in live /\ call.n = len[arrayOf[call.other]]
            ELSE class = "Queue"
         /\ Target(P) # arrayOf[call.other]
<1>1. /\ call.op \in Arrays!Copies /\ "new" \in P
      /\ Without(P, {"swap", "steal", "delete temp"})
  BY DEF Doing, Fits
<1>2. call.other \in HoldersAt(P) \ {call.self}
  BY <1>1, WhoHolds DEF Doing, Arrays!Copies, OtherHolds, Without
<1>3. call.n = capacityOf[call.other] /\ IsLength(call.other, call.n)
  BY <1>1 DEF Doing, Body, SourceLength, Without
<1>4. CASE "take" \in P
  <2>1. call.temp = NoBlock /\ Target(P) = arrayOf[call.self]
    BY <1>1, <1>4 DEF Doing, Body, InHand, NewInHand, Target, Without
  <2>2. call.self \in HoldersAt(P)
    BY <1>4, WhoHolds DEF Doing, SelfHolds
  <2>3. arrayOf[call.self] # NoBlock
    BY <1>4 DEF Doing, Body, SelfLength
  <2> QED BY <1>2, <1>3, <2>1, <2>2, <2>3 DEF Doing, Body, OneHolder, IsLength
<1>5. CASE "take" \notin P
  <2>1. call.temp # NoBlock /\ Target(P) = call.temp
    BY <1>1, <1>5 DEF Doing, Body, InHand, NewInHand, Target, Without
  <2> QED BY <1>2, <1>3, <2>1 DEF Doing, Body, OneHolder, IsLength
<1> QED BY <1>4, <1>5

(* The loop or std::copy that copies the elements *)
LEMMA CopyDone ==
  ASSUME NEW P, Doing(P, "copy"), Arrays!GoesOn(call.temp, call.n),
         val' = IF call.n = 0 THEN val
                ELSE [val EXCEPT ![Target(P)] = val[arrayOf[call.other]]],
         call.n > 0 => arrayOf[call.other] \in live,
         UNCHANGED <<class, arrayOf, capacityOf, live, len, fault, spoilt>>
  PROVE  Done(P \cup {"copy"})
<1>1. Moved(call.temp, call.n)
  BY GoingOn, CallFields DEF Doing
<1> DEFINE Q == P \cup {"copy"}
<1>2. /\ "copy" \in Q
      /\ \A x \in {"new", "take", "swap", "steal", "delete temp",
                   "members", "empty other", "null other", "delete"} : x \in Q <=> x \in P
  OBVIOUS
<1>3. /\ SelfHolds(Q)' <=> SelfHolds(P)
      /\ OtherHolds(Q)' <=> OtherHolds(P)
      /\ HoldersAt(Q)' = HoldersAt(P)
  BY <1>1, SameHolders
<1> HIDE DEF Q
<1>4. /\ call.op \in Arrays!Copies /\ "new" \in P
      /\ Without(P, {"swap", "steal", "delete temp"})
  BY DEF Doing, Fits
<1> USE <1>1 DEF Moved
<1>5. OneHolder(HoldersAt(Q), arrayOf, live, call.temp)'
  BY <1>3 DEF Doing, Body
<1>6. NewInHand(Q)' <=> NewInHand(P)
  BY <1>2 DEF NewInHand
<1>7. InHand(Q)'
  BY <1>2, <1>3, <1>6 DEF InHand, Doing, Body
<1>8. OtherLengths' /\ SelfLength(Q)'
  BY <1>2 DEF OtherLengths, SelfLength, IsLength, Without, Doing, Body
<1>9. SourceLength(Q)'
  BY <1>2, <1>3 DEF SourceLength, IsLength, Doing, Body
<1>10. CopiedSoFar(Q)'
  <2>1. /\ call.source = <<arrayOf[call.other], capacityOf[call.other],
                           Arrays!ContentsOf(arrayOf[call.other])>>
        /\ capacityOf[call.other] = call.n
    BY <1>4 DEF Doing, Body, CopiedSoFar, SourceLength, Without
  <2>2. call.source[2] = call.n /\ call.source[3] = Arrays!ContentsOf(arrayOf[call.other])
    BY <2>1
  <2>3. Target(Q)' = Target(P)
    BY <1>6 DEF Target
  <2>4. CASE call.n = 0
    <3>1. Arrays!ContentsOf(arrayOf[call.other])' = Arrays!ContentsOf(arrayOf[call.other])
      BY <2>4 DEF Arrays!ContentsOf
    <3>2. "swap" \notin Q
      BY <1>2, <1>4 DEF Without
    <3>3. ~(call.source[2] > 0)
      BY <2>2, <2>4
    <3>4. call'.source = <<arrayOf[call.other], capacityOf[call.other],
                           Arrays!ContentsOf(arrayOf[call.other])>>'
      BY <2>1, <3>1
    <3> QED BY <3>2, <3>3, <3>4 DEF CopiedSoFar
  <2>5. CASE call.n > 0
    <3>1. /\ Target(P) \in Blocks /\ Target(P) # arrayOf[call.other]
          /\ arrayOf[call.other] \in live
      BY <2>5, CopyEnds DEF Doing, ArraysTypes, MemberTypes
    <3>2. /\ val'[Target(P)] = val[arrayOf[call.other]]
          /\ \A b \in Blocks \ {Target(P)} : val'[b] = val[b]
      BY <2>5, <3>1 DEF Doing, ArraysTypes, MemberTypes
    <3>3. Arrays!ContentsOf(arrayOf[call.other])' = val[arrayOf[call.other]]
      BY <3>1, <3>2 DEF Arrays!ContentsOf, Doing, ArraysTypes, MemberTypes
    <3>4. Arrays!ContentsOf(arrayOf[call.other]) = val[arrayOf[call.other]]
      BY <3>1 DEF Arrays!ContentsOf
    <3> QED BY <1>2, <1>4, <2>1, <2>2, <2>3, <3>2, <3>3, <3>4 DEF CopiedSoFar, Without
  <2> QED BY <2>4, <2>5, CallFields DEF Doing
<1>11. MovedSoFar(Q)'
  BY <1>4 DEF MovedSoFar, Arrays!Copies, Arrays!Moves
<1>12. MemberTypes'
  BY CallFields, CopyEnds DEF MemberTypes, ArraysTypes, Doing
<1>13. Body(Q)'
  BY <1>5, <1>7, <1>8, <1>9, <1>10, <1>11 DEF Body
<1> QED BY <1>12, <1>13, CallFields DEF Done, Q, Doing, Addresses

(* What an exception leaves *)
LEMMA Thrown ==
  ASSUME ArraysTypes, Running, Arrays!Throws
  PROVE  /\ call' \in CallRecords /\ call'.status = "threw"
         /\ call'.op = call.op /\ call'.self = call.self /\ call'.before = call.before
         /\ constructed' = constructed
         /\ spoilt' <=> spoilt \/ ~SafeCall(class, call.op)
         /\ live' = IF SmartClass(class) /\ call.op \in Arrays!Constructors
                    THEN live \ {arrayOf[call.self]} ELSE live
<1>1. call \in CallRecords
  BY CallFields
<1>2. call' = [status |-> "threw", op |-> call.op, self |-> call.self,
               other |-> call.other, n |-> call.n, next |-> call.next, temp |-> call.temp,
               before |-> call.before, source |-> call.source]
  BY <1>1 DEF CallRecords, Arrays!Throws
<1>3. call' \in CallRecords
  BY <1>1, <1>2 DEF CallRecords
<1> QED BY <1>2, <1>3 DEF Arrays!Throws, SafeCall, Arrays!Smart, SmartClass

(* A call that is safe has nothing in its hands when it allocates, and what
   every object holds is still its own. *)
LEMMA ThrowAtAllocation ==
  ASSUME NEW P, NEW s \in {"test", "new"}, Doing(P, s), SafeCall(class, call.op),
         Arrays!Throws, UNCHANGED <<class, arrayOf, capacityOf, len>>
  PROVE  AtRest'
<1>1. /\ call.op \in {"construct", "copyConstruct", "copyAssign"}
      /\ Without(P, {"new", "take", "steal", "swap"})
      /\ call.op = "copyAssign" => Without(P, {"delete", "members"})
  BY CallFields DEF Doing, Fits, Arrays!Constructors, Arrays!Moves, CallNames, Without
<1>2. /\ call.temp = NoBlock
      /\ call.op \in Arrays!Constructors => arrayOf[call.self] = NoBlock
  BY <1>1 DEF Doing, Body, InHand, NewInHand, Without, SelfHolds
<1>3. live' = live /\ constructed' = constructed
  BY <1>2, Thrown, CallFields DEF Doing
<1>4. HoldersAt(P) = constructed
  <2>1. OtherHolds(P)
    BY <1>1 DEF OtherHolds, Without
  <2>2. CASE call.op = "copyAssign"
    BY <1>1, <2>1, <2>2 DEF Doing, HoldersAt, SelfHolds, Reach, Placed, Without, Arrays!Constructors
  <2>3. CASE call.op # "copyAssign"
    BY <1>1, <2>1, <2>3 DEF Doing, HoldersAt, SelfHolds, Reach, Placed, Without, Arrays!Constructors
  <2> QED BY <2>2, <2>3
<1>5. OneHolder(constructed, arrayOf, live, NoBlock)
  BY <1>2, <1>4 DEF Doing, Body
<1>6. ASSUME NEW o \in constructed PROVE IsLength(o, capacityOf[o])
  <2>1. o \in Reach \ {call.self, call.other} => IsLength(o, capacityOf[o])
    BY DEF Doing, Body, OtherLengths
  <2>2. call.op \in Arrays!Copies => IsLength(call.other, capacityOf[call.other])
    BY DEF Doing, Body, SourceLength
  <2>3. call.op = "copyAssign" => IsLength(call.self, capacityOf[call.self])
    BY <1>1 DEF Doing, Body, SelfLength, Without, Arrays!Constructors
  <2> QED BY <1>1, <2>1, <2>2, <2>3 DEF Reach, Doing, Placed, Arrays!Copies, Arrays!Constructors
<1>7. ASSUME NEW o \in constructed PROVE IsLength(o, capacityOf[o])'
  BY <1>6, <1>7 DEF IsLength
<1> QED BY <1>3, <1>5, <1>7 DEF AtRest

(* A copy of my_arr that fails half-way: the new array is the object's. *)
LEMMA ThrowAtCopy ==
  ASSUME NEW P, Doing(P, "copy"), SafeCall(class, call.op), Arrays!ElementsMayThrow,
         Arrays!Throws, UNCHANGED <<class, arrayOf, capacityOf, len>>
  PROVE  AtRest'
<1>1. /\ class = "my_arr" /\ call.op \in Arrays!Copies
      /\ Without(P, {"swap", "steal", "delete temp"})
      /\ "new" \in P /\ "take" \in P /\ "members" \in P
  BY DEF Doing, Fits, Arrays!ElementsMayThrow
<1>2. call.temp = NoBlock
  BY <1>1 DEF Doing, Body, InHand, NewInHand, Without
<1>3. /\ OneHolder(HoldersAt(P), arrayOf, live, NoBlock)
      /\ call.self \in HoldersAt(P)
      /\ HoldersAt(P) = Reach
  <2>1. OtherHolds(P) /\ SelfHolds(P)
    BY <1>1 DEF OtherHolds, SelfHolds, Without
  <2> QED BY <1>2, <2>1 DEF Doing, Body, HoldersAt, Reach
<1>4. /\ constructed' = constructed
      /\ live' = IF call.op = "copyConstruct" THEN live \ {arrayOf[call.self]} ELSE live
  BY <1>1, Thrown DEF Doing, SmartClass, Arrays!Copies, Arrays!Constructors
<1>5. OneHolder(constructed, arrayOf, live', NoBlock)
  <2>1. CASE call.op = "copyConstruct"
    <3>1. HoldersAt(P) \ {call.self} = constructed
      BY <1>3, <2>1 DEF Reach, Doing, Placed, Arrays!Constructors
    <3> QED BY <1>3, <1>4, <2>1, <3>1, DroppedBy, CallFields DEF Doing
  <2>2. CASE call.op = "copyAssign"
    <3>1. HoldersAt(P) = constructed
      BY <1>3, <2>2 DEF Reach, Doing, Placed, Arrays!Constructors
    <3> QED BY <1>3, <1>4, <2>2, <3>1
  <2> QED BY <1>1, <2>1, <2>2 DEF Arrays!Copies
<1>6. ASSUME NEW o \in constructed PROVE IsLength(o, capacityOf[o])
  <2>1. o \in Reach \ {call.self, call.other} => IsLength(o, capacityOf[o])
    BY DEF Doing, Body, OtherLengths
  <2>2. IsLength(call.other, capacityOf[call.other])
    BY <1>1 DEF Doing, Body, SourceLength
  <2>3. IsLength(call.self, capacityOf[call.self])
    BY <1>1 DEF Doing, Body, SelfLength, IsLength
  <2> QED BY <2>1, <2>2, <2>3 DEF Reach
<1>7. ASSUME NEW o \in constructed PROVE IsLength(o, capacityOf[o])'
  BY <1>6, <1>7 DEF IsLength
<1> QED BY <1>4, <1>5, <1>7 DEF AtRest

-----------------------------------------------------------------------------
(* The table as the statements run through it *)
LEMMA AtOneStatement ==
  ASSUME ArraysTypes, NEW s, Arrays!At(s)
  PROVE  /\ Running /\ fault = "none"
         /\ Fits(class, call.op, Past, s)
         /\ Past \cup {s} = BeforeIn(Arrays!Statements, call.next + 1)
         /\ call.next = Len(Arrays!Statements) => Finished(class, call.op, Past \cup {s})
<1>1. Running /\ fault = "none" /\ s = Arrays!Statements[call.next]
  BY DEF Arrays!At, Arrays!Running, Running
<1>2. call.next \in 1 .. Len(Arrays!Statements) /\ Sensible(class, call.op)
  BY <1>1, CallFields, TablesAreSensible DEF ArraysTypes
<1> DEFINE T == Arrays!Statements
<1>3. T = Table(class, call.op)
  BY DEF Arrays!Statements, Table
<1>4. Len(T) \in Nat
  BY <1>2, <1>3 DEF Sensible
<1> HIDE DEF T
<1>5. call.next \in 1 .. Len(T)
  BY <1>2 DEF T
<1>6. BeforeIn(T, call.next + 1) = BeforeIn(T, call.next) \cup {T[call.next]}
  BY <1>4, <1>5 DEF BeforeIn
<1>7. Fits(class, call.op, BeforeIn(T, call.next), T[call.next])
  BY <1>2, <1>3, <1>5 DEF Sensible
<1>8. call.next = Len(T) => Finished(class, call.op, BeforeIn(T, call.next + 1))
  BY <1>2, <1>3 DEF Sensible
<1>9. Past = BeforeIn(T, call.next) /\ s = T[call.next]
  BY <1>1 DEF T, Past
<1> QED BY <1>1, <1>6, <1>7, <1>8, <1>9 DEF T

(* The types, which hold after an exception too *)
LEMMA GoingOnTypes ==
  ASSUME ArraysTypes, Running, MemberTypes', class' = class,
         NEW t \in Addresses, NEW m \in Nat, Arrays!GoesOn(t, m)
  PROVE  ArraysTypes' /\ NotBegun' /\ Arrays!FailedAssignmentChangesNothing'
<1>1. Moved(t, m)
  BY GoingOn
<1>2. /\ call' \in CallRecords
      /\ call'.status = "threw" => FALSE
      /\ call'.status = "running" => call'.next = call.next + 1 /\ call.next < Len(Arrays!Statements)
  BY <1>1 DEF Moved
<1>3. call.next \in Nat /\ call.next >= 1 /\ Len(Arrays!Statements) \in Nat
  BY CallFields, TablesAreSensible
     DEF ArraysTypes, Running, CallRecords, Sensible, Table, Arrays!Statements
<1>4. Arrays!Statements' = Arrays!Statements
  BY <1>1 DEF Moved, Arrays!Statements
<1>5. Running' => call'.next \in 1 .. Len(Arrays!Statements')
  <2> DEFINE L == Len(Arrays!Statements)
  <2>1. Len(Arrays!Statements') = L
    BY <1>4
  <2>2. L \in Nat
    BY <1>3
  <2>3. Running' => call'.next = call.next + 1 /\ call.next < L
    BY <1>2 DEF Running
  <2> HIDE DEF L
  <2> QED BY <1>3, <2>1, <2>2, <2>3
<1>6. ArraysTypes'
  BY <1>2, <1>5 DEF ArraysTypes
<1>7. NotBegun'
  BY <1>2, <1>3 DEF NotBegun
<1>8. Arrays!FailedAssignmentChangesNothing'
  BY <1>2 DEF Arrays!FailedAssignmentChangesNothing
<1> QED BY <1>6, <1>7, <1>8

(* Of the assignments that are undone, only the allocation may throw. *)
LEMMA ThrownTypes ==
  ASSUME ArraysTypes, NotBegun, NEW s, Arrays!At(s),
         s = "copy" => Arrays!ElementsMayThrow,
         s \in {"test", "new", "local", "copy"},
         Arrays!Throws, UNCHANGED <<class, arrayOf, capacityOf, len, fault>>,
         s = "copy" \/ UNCHANGED val,
         val' \in [Blocks -> Payloads \cup {"garbage"}]
  PROVE  ArraysTypes' /\ NotBegun' /\ Arrays!FailedAssignmentChangesNothing'
<1>1. Running /\ Fits(class, call.op, Past, s)
  BY AtOneStatement
<1>2. /\ call' \in CallRecords /\ call'.status = "threw"
      /\ call'.op = call.op /\ call'.self = call.self /\ call'.before = call.before
      /\ constructed' = constructed
      /\ live' = IF SmartClass(class) /\ call.op \in Arrays!Constructors
                 THEN live \ {arrayOf[call.self]} ELSE live
  BY <1>1, Thrown
<1>3. ArraysTypes'
  BY <1>2 DEF ArraysTypes, MemberTypes, Running
<1>4. NotBegun'
  BY <1>2 DEF NotBegun
<1>5. Arrays!FailedAssignmentChangesNothing'
  <2> SUFFICES ASSUME class \in {"Stack", "MyArray"}, call.op = "copyAssign"
               PROVE  call.before = <<arrayOf[call.self], capacityOf[call.self],
                                      Arrays!ContentsOf(arrayOf[call.self])'>>
    BY <1>2 DEF Arrays!FailedAssignmentChangesNothing, Arrays!ContentsOf
  <2>1. s = "new"
    <3>1. SafeCall(class, call.op)
      BY DEF SafeCall, Arrays!NotSafe
    <3> QED BY <1>1, <3>1 DEF Fits, Arrays!ElementsMayThrow
  <2>2. "new" \notin Past
    BY <1>1, <2>1 DEF Fits, Without
  <2>3. Arrays!Statements[1] = "new"
    BY AllocationComesFirst DEF Arrays!Statements, Table
  <2>4. call.next = 1
    <3> DEFINE T == Arrays!Statements
    <3>1. "new" \notin BeforeIn(T, call.next) /\ T[1] = "new"
      BY <2>2, <2>3 DEF Past
    <3>2. call.next \in Nat /\ call.next >= 1
      BY <1>1, CallFields DEF ArraysTypes, CallRecords
    <3> HIDE DEF T
    <3>3. ASSUME call.next > 1 PROVE FALSE
      <4>1. 1 \in 1 .. call.next - 1
        BY <3>2, <3>3
      <4>2. T[1] \in BeforeIn(T, call.next)
        BY <4>1 DEF BeforeIn
      <4> QED BY <3>1, <4>2
    <3> QED BY <3>2, <3>3
  <2>5. call.before = <<arrayOf[call.self], capacityOf[call.self],
                        Arrays!ContentsOf(arrayOf[call.self])>>
    BY <1>1, <2>4 DEF NotBegun, Running
  <2>6. live' = live /\ val' = val
    BY <1>2, <2>1 DEF SmartClass
  <2>7. Arrays!ContentsOf(arrayOf[call.self])' = Arrays!ContentsOf(arrayOf[call.self])
    BY <1>2, <2>6 DEF Arrays!ContentsOf
  <2> QED BY <2>5, <2>7
<1> QED BY <1>3, <1>4, <1>5

LEMMA StatementTypes ==
  ASSUME ArraysTypes, NotBegun, Arrays!FailedAssignmentChangesNothing,
         Arrays!Statement
  PROVE  ArraysTypes' /\ NotBegun' /\ Arrays!FailedAssignmentChangesNothing'
<1> DEFINE Kept == ArraysTypes' /\ NotBegun' /\ Arrays!FailedAssignmentChangesNothing'
<1>1. /\ call.op \in CallNames /\ call.self \in Owners /\ call.other \in Owners
      /\ call.n \in Nat /\ call.temp \in Addresses
      /\ Running /\ fault = "none" /\ MemberTypes
      /\ arrayOf[call.self] \in Addresses /\ capacityOf[call.self] \in Nat
      /\ NoBlock \in Addresses
  <2>1. Running /\ fault = "none"
    BY DEF Arrays!Statement, Arrays!Test, Arrays!New, Arrays!Take, Arrays!Local,
           Arrays!Members, Arrays!Copy, Arrays!Delete, Arrays!Swap, Arrays!DeleteTemp,
           Arrays!Steal, Arrays!NullOther, Arrays!EmptyOther, Arrays!At, Arrays!Running,
           Running
  <2> QED BY <2>1, CallFields DEF ArraysTypes, Addresses
<1>2. ASSUME NEW t \in Addresses, NEW m \in Nat, Arrays!GoesOn(t, m), class' = class,
             arrayOf' \in [Owners -> Addresses], capacityOf' \in [Owners -> Nat],
             live' \in SUBSET Blocks, len' \in [Blocks -> Nat],
             val' \in [Blocks -> Payloads \cup {"garbage"}]
      PROVE  Kept
  <2>1. Moved(t, m)
    BY <1>1, <1>2, GoingOn
  <2>2. MemberTypes'
    BY <1>1, <1>2, <2>1 DEF MemberTypes, Moved
  <2> QED BY <1>1, <1>2, <2>2, GoingOnTypes
<1>3. ASSUME NEW b, Arrays!Free(b) PROVE live' \in SUBSET Blocks
  BY <1>1, <1>3 DEF Arrays!Free, MemberTypes
<1>4. CASE Arrays!Test
  <2>1. CASE Arrays!Throws
    BY <1>1, <1>4, <2>1, ThrownTypes DEF Arrays!Test, MemberTypes
  <2>2. CASE Arrays!GoesOn(call.temp, call.n) /\ UNCHANGED live
    BY <1>1, <1>2, <1>4, <2>2 DEF Arrays!Test, MemberTypes
  <2> QED BY <1>4, <2>1, <2>2 DEF Arrays!Test
<1>5. CASE Arrays!New
  <2>1. CASE Arrays!Throws /\ UNCHANGED <<len, val>>
    BY <1>1, <1>5, <2>1, ThrownTypes DEF Arrays!New, MemberTypes
  <2>2. ASSUME NEW b \in Blocks \ live, live' = live \cup {b},
               len' = [len EXCEPT ![b] = call.n], val' = [val EXCEPT ![b] = "garbage"],
               Arrays!GoesOn(b, call.n)
        PROVE  Kept
    <3>1. /\ b \in Addresses /\ live' \in SUBSET Blocks /\ len' \in [Blocks -> Nat]
          /\ val' \in [Blocks -> Payloads \cup {"garbage"}]
      BY <1>1, <2>2 DEF MemberTypes, Addresses
    <3> QED BY <1>1, <1>2, <1>5, <2>2, <3>1 DEF Arrays!New, MemberTypes
  <2> QED BY <1>5, <2>1, <2>2 DEF Arrays!New, Arrays!Garbage
<1>6. CASE Arrays!Take
  <2>1. arrayOf' \in [Owners -> Addresses] /\ live' \in SUBSET Blocks
    BY <1>1, <1>3, <1>6 DEF Arrays!Take, MemberTypes
  <2> QED BY <1>1, <1>2, <1>6, <2>1 DEF Arrays!Take, MemberTypes
<1>7. CASE Arrays!Local
  <2>1. CASE Arrays!Throws
    BY <1>1, <1>7, <2>1, ThrownTypes DEF Arrays!Local, MemberTypes
  <2>2. CASE Arrays!GoesOn(call.temp, call.n) /\ UNCHANGED live
    BY <1>1, <1>2, <1>7, <2>2 DEF Arrays!Local, MemberTypes
  <2> QED BY <1>7, <2>1, <2>2 DEF Arrays!Local
<1>8. CASE Arrays!Members
  BY <1>1, <1>2, <1>8 DEF Arrays!Members, Arrays!heap, MemberTypes
<1>9. CASE Arrays!Copy
  <2> DEFINE from == arrayOf[call.other]
             to == IF call.temp # NoBlock THEN call.temp ELSE arrayOf[call.self]
  <2>1. CASE call.n = 0 \/ ({from, to} \subseteq live /\ call.n <= len[from])
    <3>1. /\ (val' = IF call.n = 0 THEN val ELSE [val EXCEPT ![to] = val[from]])
             => val' \in [Blocks -> Payloads \cup {"garbage"}]
          /\ val' = [val EXCEPT ![to] = "garbage"]
             => val' \in [Blocks -> Payloads \cup {"garbage"}]
      BY <1>1, <2>1 DEF MemberTypes
    <3>2. /\ Arrays!At("copy") /\ UNCHANGED <<class, arrayOf, capacityOf, len, fault>>
          /\ \/ /\ Arrays!GoesOn(call.temp, call.n) /\ UNCHANGED live
                /\ val' = IF call.n = 0 THEN val ELSE [val EXCEPT ![to] = val[from]]
             \/ /\ Arrays!ElementsMayThrow /\ Arrays!Throws
                /\ val' = [val EXCEPT ![to] = "garbage"]
      BY <1>9, <2>1 DEF Arrays!Copy, Arrays!Garbage
    <3> HIDE DEF from, to
    <3>3. CASE /\ Arrays!ElementsMayThrow /\ Arrays!Throws
               /\ val' = [val EXCEPT ![to] = "garbage"]
      BY <3>1, <3>2, <3>3, ThrownTypes
    <3>4. CASE /\ Arrays!GoesOn(call.temp, call.n) /\ UNCHANGED live
               /\ val' = IF call.n = 0 THEN val ELSE [val EXCEPT ![to] = val[from]]
      BY <1>1, <1>2, <3>1, <3>2, <3>4 DEF MemberTypes
    <3> QED BY <3>2, <3>3, <3>4
  <2>2. CASE ~(call.n = 0 \/ ({from, to} \subseteq live /\ call.n <= len[from]))
    <3>1. UNCHANGED <<class, constructed, arrayOf, capacityOf, live, len, val, call>>
      BY <1>9, <2>2 DEF Arrays!Copy
    <3>2. ArraysTypes'
      BY <3>1 DEF ArraysTypes, MemberTypes, Running, Arrays!Statements
    <3>3. NotBegun' /\ Arrays!FailedAssignmentChangesNothing'
      BY <3>1 DEF NotBegun, Arrays!FailedAssignmentChangesNothing, Arrays!ContentsOf
    <3> QED BY <3>2, <3>3
  <2> QED BY <2>1, <2>2
<1>10. CASE Arrays!Delete
  BY <1>1, <1>2, <1>3, <1>10 DEF Arrays!Delete, MemberTypes
<1>11. CASE Arrays!Swap
  <2>1. arrayOf' \in [Owners -> Addresses] /\ capacityOf' \in [Owners -> Nat]
    BY <1>1, <1>11 DEF Arrays!Swap, MemberTypes
  <2> QED BY <1>1, <1>2, <1>11, <2>1 DEF Arrays!Swap, Arrays!heap, MemberTypes
<1>12. CASE Arrays!DeleteTemp
  BY <1>1, <1>2, <1>3, <1>12 DEF Arrays!DeleteTemp, MemberTypes
<1>13. CASE Arrays!Steal
  <2>1. arrayOf' \in [Owners -> Addresses] /\ live' \in SUBSET Blocks
    BY <1>1, <1>3, <1>13 DEF Arrays!Steal, MemberTypes
  <2> QED BY <1>1, <1>2, <1>13, <2>1 DEF Arrays!Steal, MemberTypes
<1>14. CASE Arrays!NullOther
  BY <1>1, <1>2, <1>14 DEF Arrays!NullOther, Arrays!heap, MemberTypes
<1>15. CASE Arrays!EmptyOther
  BY <1>1, <1>2, <1>15 DEF Arrays!EmptyOther, Arrays!heap, MemberTypes
<1> QED BY <1>4, <1>5, <1>6, <1>7, <1>8, <1>9, <1>10, <1>11, <1>12, <1>13, <1>14, <1>15
        DEF Arrays!Statement

-----------------------------------------------------------------------------
(* A call that has run through its table has done what it is for, and every
   object holds its array again. *)
LEMMA CallReturns ==
  ASSUME NEW Q, MemberTypes', Body(Q)', NEW t, NEW m, Moved(t, m), Placed,
         class' = class, class \in ClassNames, call'.status = "returned",
         Finished(class, call.op, Q), call.op \in CallNames
  PROVE  AtRest' /\ Arrays!CallsDoTheirWork'
<1> USE DEF Body
<1>1. /\ call'.op = call.op /\ call'.self = call.self /\ call'.other = call.other
      /\ call'.source = call.source /\ call'.temp = t /\ call'.n = m
      /\ constructed' = constructed \cup {call.self}
  BY DEF Moved
<1>2. /\ "take" \in Q \/ "steal" \in Q \/ "swap" \in Q
      /\ "steal" \in Q => call.op \in Arrays!Moves
      /\ "steal" \in Q /\ ~SmartClass(class) => "null other" \in Q
      /\ "members" \in Q \/ "swap" \in Q
      /\ call.op \in Arrays!Copies => "copy" \in Q /\ "new" \in Q
      /\ call.op \in Arrays!Moves =>
           /\ "steal" \in Q /\ "members" \in Q /\ Without(Q, {"new", "take", "swap"})
           /\ "empty other" \in Q \/ class = "Queue"
  BY DEF Finished
<1>3. SelfHolds(Q)' /\ OtherHolds(Q)'
  BY <1>1 DEF Finished, SelfHolds, OtherHolds, Arrays!Constructors
<1>4. HoldersAt(Q)' = constructed'
  BY <1>1, <1>3 DEF HoldersAt, Reach
<1>5. ~NewInHand(Q)' /\ call'.temp = NoBlock
  BY DEF Finished, InHand, NewInHand, Arrays!Copies, Arrays!Moves
<1>6. OneHolder(constructed', arrayOf', live', NoBlock)
  BY <1>4, <1>5
<1>7. IsLength(call.self, capacityOf[call.self])'
  BY <1>1, <1>2 DEF SelfLength, IsLength
<1>8. call.op # "construct" => IsLength(call.other, capacityOf[call.other])'
  <2>1. call.op \in Arrays!Copies => IsLength(call.other, capacityOf[call.other])'
    BY <1>1 DEF SourceLength
  <2>2. call.op \in Arrays!Moves => IsLength(call.other, capacityOf[call.other])'
    BY <1>1, <1>2, <1>3 DEF SourceLength, IsLength
  <2> QED BY <2>1, <2>2 DEF CallNames, Arrays!Constructors, Arrays!Copies, Arrays!Moves
<1>9. ASSUME NEW o \in constructed' PROVE IsLength(o, capacityOf[o])'
  <2>1. o \notin {call.self, call.other} => IsLength(o, capacityOf[o])'
    BY <1>1 DEF OtherLengths, Reach
  <2>2. o = call.self => IsLength(o, capacityOf[o])'
    BY <1>1, <1>7
  <2>3. o = call.other /\ call.op # "construct" => IsLength(o, capacityOf[o])'
    BY <1>1, <1>8
  <2> QED BY <2>1, <2>2, <2>3 DEF Placed
<1>10. AtRest'
  BY <1>6, <1>9 DEF AtRest
<1>11. Arrays!CallsDoTheirWork'
  <2> SUFFICES ASSUME call.op # "construct"
               PROVE  /\ capacityOf'[call.self] = call.source[2]
                      /\ capacityOf'[call.self] > 0 /\ arrayOf'[call.self] # NoBlock
                         => Arrays!ContentsOf(arrayOf[call.self])' = call.source[3]
                      /\ call.op \in Arrays!Copies =>
                           call.source = <<arrayOf'[call.other], capacityOf'[call.other],
                                           Arrays!ContentsOf(arrayOf[call.other])'>>
                      /\ call.op \in Arrays!Moves =>
                           arrayOf'[call.self] = call.source[1] /\ arrayOf'[call.other] = NoBlock
    BY <1>1 DEF Arrays!CallsDoTheirWork, Arrays!ContentsOf
  <2>1. arrayOf'[call.self] # NoBlock => arrayOf'[call.self] \in live'
    BY <1>1, <1>6 DEF OneHolder
  <2>2. CASE call.op \in Arrays!Copies
    <3>1. /\ call.source = <<arrayOf'[call.other], capacityOf'[call.other],
                             Arrays!ContentsOf(arrayOf[call.other])'>>
          /\ call.source[2] > 0 => val'[Target(Q)'] = call.source[3]
          /\ "swap" \in Q => capacityOf'[call.self] = call.source[2]
      BY <1>1, <1>2, <2>2 DEF CopiedSoFar, Arrays!ContentsOf
    <3>2. call.source[2] = capacityOf'[call.other]
      BY <3>1
    <3>3. capacityOf'[call.self] = call.source[2]
      BY <1>1, <1>2, <2>2, <3>1, <3>2 DEF SelfLength, SourceLength
    <3>4. Target(Q)' = arrayOf'[call.self]
      BY <1>1, <1>5 DEF Target
    <3> QED BY <1>1, <2>1, <2>2, <3>1, <3>3, <3>4
            DEF Arrays!ContentsOf, Arrays!Copies, Arrays!Moves
  <2>3. CASE call.op \in Arrays!Moves
    <3>1. /\ call.source[1] = arrayOf'[call.self]
          /\ call.source[2] = m
          /\ call.source[3] = Arrays!ContentsOf(arrayOf[call.self])'
      BY <1>1, <1>2, <2>3 DEF MovedSoFar, Arrays!ContentsOf
    <3>2. capacityOf'[call.self] = m
      BY <1>1, <1>2, <2>3 DEF SelfLength
    <3>3. arrayOf'[call.other] = NoBlock
      BY <1>1, <1>2, <1>3, <2>3 DEF SourceLength
    <3> QED BY <2>3, <3>1, <3>2, <3>3 DEF Arrays!Copies, Arrays!Moves
  <2> QED BY <2>2, <2>3 DEF CallNames, Arrays!Constructors, Arrays!Copies, Arrays!Moves
<1> QED BY <1>10, <1>11

LEMMA DoneIsSound ==
  ASSUME ArraysTypes, Sound, NEW s, Arrays!At(s), NEW P, P = Past, Done(P \cup {s})
  PROVE  Sound'
<1>1. /\ Running /\ fault = "none"
      /\ P \cup {s} = BeforeIn(Arrays!Statements, call.next + 1)
      /\ call.next = Len(Arrays!Statements) => Finished(class, call.op, P \cup {s})
  BY AtOneStatement
<1>2. MemberTypes' /\ Body(P \cup {s})' /\ class' = class /\ fault' = "none"
  BY <1>1 DEF Done
<1>3. PICK t \in Addresses, m \in Nat : Moved(t, m)
  BY DEF Done
<1>4. Placed
  BY <1>1 DEF Sound
<1>5. CASE call'.status = "running"
  <2>1. Arrays!Statements' = Arrays!Statements /\ call'.next = call.next + 1
    BY <1>2, <1>3, <1>5 DEF Moved, Arrays!Statements
  <2>2. Past' = P \cup {s}
    BY <1>1, <2>1 DEF Past
  <2>3. Placed'
    BY <1>3, <1>4, <1>5 DEF Moved, Placed
  <2> QED BY <1>2, <1>5, <2>2, <2>3 DEF Sound, Running, Arrays!CallsDoTheirWork
<1>6. CASE call'.status # "running"
  <2>1. call'.status = "returned" /\ call.next = Len(Arrays!Statements)
    BY <1>3, <1>6 DEF Moved
  <2>2. AtRest' /\ Arrays!CallsDoTheirWork'
    BY <1>1, <1>2, <1>3, <1>4, <2>1, CallReturns, CallFields
  <2> QED BY <1>2, <2>1, <2>2 DEF Sound, Running
<1> QED BY <1>5, <1>6

LEMMA ThrownIsSound ==
  ASSUME ArraysTypes, Running, fault' = "none", Arrays!Throws,
         SafeCall(class, call.op) => AtRest'
  PROVE  ~spoilt' => Sound'
BY Thrown DEF Sound, Running, Arrays!CallsDoTheirWork

(* What nothing is done to stays as it is. *)
LEMMA Undisturbed ==
  ASSUME ArraysTypes,
         UNCHANGED <<class, constructed, arrayOf, capacityOf, len, call, live, val>>
  PROVE  /\ ArraysTypes'
         /\ NotBegun' <=> NotBegun
         /\ Arrays!FailedAssignmentChangesNothing' <=> Arrays!FailedAssignmentChangesNothing
         /\ Running' <=> Running
         /\ Placed' <=> Placed
         /\ Past' = Past
         /\ AtRest' <=> AtRest
         /\ spoilt' = spoilt =>
              (Arrays!CallsDoTheirWork' <=> Arrays!CallsDoTheirWork)
         /\ \A P : Body(P) => Body(P)'
<1>1. Running' <=> Running
  BY DEF Running
<1>2. Arrays!Statements' = Arrays!Statements
  BY DEF Arrays!Statements
<1>3. ArraysTypes'
  BY <1>1, <1>2 DEF ArraysTypes, MemberTypes
<1>4. /\ NotBegun' <=> NotBegun
      /\ Arrays!FailedAssignmentChangesNothing' <=> Arrays!FailedAssignmentChangesNothing
  BY DEF NotBegun, Arrays!FailedAssignmentChangesNothing, Arrays!ContentsOf
<1>5. Placed' <=> Placed
  BY DEF Placed
<1>6. Past' = Past
  BY <1>2 DEF Past
<1>7. \A o, n : IsLength(o, n)' <=> IsLength(o, n)
  BY DEF IsLength
<1>8. AtRest' <=> AtRest
  BY <1>7 DEF AtRest
<1>9. ASSUME spoilt' = spoilt
      PROVE  Arrays!CallsDoTheirWork' <=> Arrays!CallsDoTheirWork
  BY <1>9 DEF Arrays!CallsDoTheirWork, Arrays!ContentsOf
<1>10. ASSUME NEW P, Body(P) PROVE Body(P)'
  <2> USE <1>10 DEF Body
  <2>1. SelfHolds(P)' <=> SelfHolds(P)
    BY DEF SelfHolds
  <2>2. OtherHolds(P)' <=> OtherHolds(P)
    BY DEF OtherHolds
  <2>3. HoldersAt(P)' = HoldersAt(P) /\ Reach' = Reach
    BY <2>1, <2>2 DEF HoldersAt, Reach
  <2>4. OneHolder(HoldersAt(P), arrayOf, live, call.temp)'
    BY <2>3
  <2>5. InHand(P)'
    BY <2>1 DEF InHand, NewInHand
  <2>6. OtherLengths'
    BY <1>7, <2>3 DEF OtherLengths
  <2>7. SelfLength(P)'
    BY DEF SelfLength, IsLength
  <2>8. SourceLength(P)'
    BY <2>2 DEF SourceLength, IsLength
  <2>9. CopiedSoFar(P)' /\ MovedSoFar(P)'
    BY DEF CopiedSoFar, MovedSoFar, Target, NewInHand, Arrays!ContentsOf
  <2> QED BY <2>4, <2>5, <2>6, <2>7, <2>8, <2>9
<1> QED BY <1>1, <1>3, <1>4, <1>5, <1>6, <1>8, <1>9, <1>10

LEMMA StatementIsSound ==
  ASSUME ArraysTypes, ~spoilt, Sound, Arrays!Statement
  PROVE  ~spoilt' => Sound'
<1>1. PICK P : P = Past
  OBVIOUS
<1>2. ASSUME NEW s, Arrays!At(s)
      PROVE  Doing(P, s) /\ Running /\ fault = "none"
  BY <1>1, <1>2, AtOneStatement DEF Doing, Sound
<1>3. ASSUME NEW s, Arrays!At(s), Done(P \cup {s}) PROVE Sound'
  BY <1>1, <1>3, DoneIsSound
<1>4. CASE Arrays!Test
  <2>1. Doing(P, "test") /\ fault = "none" /\ Running /\ Arrays!At("test")
    BY <1>2, <1>4 DEF Arrays!Test
  <2>2. CASE Arrays!Throws
    BY <1>4, <2>1, <2>2, ThrowAtAllocation, ThrownIsSound DEF Arrays!Test
  <2>3. CASE Arrays!GoesOn(call.temp, call.n) /\ UNCHANGED <<live, spoilt>>
    BY <1>3, <1>4, <2>1, <2>3, TestOrLocalDone DEF Arrays!Test
  <2> QED BY <1>4, <2>2, <2>3 DEF Arrays!Test
<1>5. CASE Arrays!New
  <2>1. Doing(P, "new") /\ fault = "none" /\ Running /\ Arrays!At("new")
    BY <1>2, <1>5 DEF Arrays!New
  <2>2. CASE Arrays!Throws /\ UNCHANGED <<len, val>>
    BY <1>5, <2>1, <2>2, ThrowAtAllocation, ThrownIsSound DEF Arrays!New
  <2>3. ASSUME NEW b \in Blocks \ live, live' = live \cup {b},
               len' = [len EXCEPT ![b] = call.n], val' = [val EXCEPT ![b] = "garbage"],
               Arrays!GoesOn(b, call.n), UNCHANGED spoilt
        PROVE  Sound'
    BY <1>3, <1>5, <2>1, <2>3, NewDone DEF Arrays!New
  <2> QED BY <1>5, <2>2, <2>3 DEF Arrays!New, Arrays!Garbage
<1>6. CASE Arrays!Take
  BY <1>2, <1>3, <1>6, TakeDone DEF Arrays!Take
<1>7. CASE Arrays!Local
  <2>1. Doing(P, "local") /\ fault = "none" /\ Running /\ Arrays!At("local")
    BY <1>2, <1>7 DEF Arrays!Local
  <2>2. CASE Arrays!Throws
    <3>1. ~SafeCall(class, call.op)
      BY <2>1 DEF Doing, Fits
    <3> QED BY <1>7, <2>1, <2>2, <3>1, Thrown DEF Doing
  <2>3. CASE Arrays!GoesOn(call.temp, call.n) /\ UNCHANGED <<live, spoilt>>
    BY <1>3, <1>7, <2>1, <2>3, TestOrLocalDone DEF Arrays!Local
  <2> QED BY <1>7, <2>2, <2>3 DEF Arrays!Local
<1>8. CASE Arrays!Members
  <2>1. Doing(P, "members") /\ Arrays!At("members")
    BY <1>2, <1>8 DEF Arrays!Members
  <2> QED BY <1>3, <1>8, <2>1, MembersDone DEF Arrays!Members, Arrays!heap
<1>9. CASE Arrays!Copy
  <2>1. Doing(P, "copy") /\ fault = "none" /\ Running /\ Arrays!At("copy")
    BY <1>2, <1>9 DEF Arrays!Copy
  <2> DEFINE from == arrayOf[call.other]
             to == IF call.temp # NoBlock THEN call.temp ELSE arrayOf[call.self]
             possible == call.n = 0 \/ ({from, to} \subseteq live /\ call.n <= len[from])
  <2>2. CASE possible
    <3>1. /\ UNCHANGED <<class, arrayOf, capacityOf, len, fault>>
          /\ \/ /\ Arrays!GoesOn(call.temp, call.n) /\ UNCHANGED <<live, spoilt>>
                /\ val' = IF call.n = 0 THEN val ELSE [val EXCEPT ![to] = val[from]]
             \/ Arrays!ElementsMayThrow /\ Arrays!Throws
      BY <1>9, <2>2 DEF Arrays!Copy
    <3>2. CASE Arrays!ElementsMayThrow /\ Arrays!Throws
      BY <2>1, <3>1, <3>2, ThrowAtCopy, ThrownIsSound
    <3>3. CASE /\ Arrays!GoesOn(call.temp, call.n) /\ UNCHANGED <<live, spoilt>>
               /\ val' = IF call.n = 0 THEN val ELSE [val EXCEPT ![to] = val[from]]
      <4>1. call.n > 0 => to = Target(P)
        BY <2>1, CopyEnds
      <4>2. call.n \in Nat
        BY <2>1, CallFields DEF Doing
      <4>3. val' = IF call.n = 0 THEN val ELSE [val EXCEPT ![Target(P)] = val[from]]
        <5>1. CASE call.n = 0
          BY <3>3, <5>1
        <5>2. CASE call.n > 0
          BY <3>3, <4>1, <5>2
        <5> QED BY <4>2, <5>1, <5>2
      <4>4. call.n > 0 => arrayOf[call.other] \in live
        BY <2>2
      <4>5. Done(P \cup {"copy"})
        BY <2>1, <3>1, <3>3, <4>3, <4>4, CopyDone
      <4> QED BY <1>3, <2>1, <4>5
    <3> QED BY <3>1, <3>2, <3>3
  <2>3. CASE ~possible
    <3>1. /\ fault' = "access"
          /\ UNCHANGED <<class, constructed, arrayOf, capacityOf, len, call, live, val>>
      BY <1>9, <2>3 DEF Arrays!Copy
    <3>2. class = "Queue"
      <4>1. call.n \in Nat /\ call.n > 0
        BY <2>1, <2>3, CallFields DEF Doing
      <4>2. /\ to = Target(P) /\ to \in live
            /\ IF arrayOf[call.other] # NoBlock
               THEN arrayOf[call.other] \in live /\ call.n = len[arrayOf[call.other]]
               ELSE class = "Queue"
        BY <2>1, <4>1, CopyEnds
      <4> QED BY <2>3, <4>1, <4>2
    <3>3. Past' = P /\ Body(P)' /\ Placed' /\ Running' /\ Arrays!CallsDoTheirWork'
      <4>1. Body(P) /\ Placed /\ Running
        BY <2>1 DEF Doing
      <4>2. Arrays!CallsDoTheirWork'
        BY <3>1, <4>1 DEF Running, Arrays!CallsDoTheirWork
      <4> QED BY <1>1, <3>1, <4>1, <4>2, Undisturbed
    <3> QED BY <3>1, <3>2, <3>3 DEF Sound
  <2> QED BY <2>2, <2>3
<1>10. CASE Arrays!Delete
  BY <1>2, <1>3, <1>10, DeleteDone DEF Arrays!Delete
<1>11. CASE Arrays!Swap
  BY <1>2, <1>3, <1>11, SwapDone DEF Arrays!Swap
<1>12. CASE Arrays!DeleteTemp
  BY <1>2, <1>3, <1>12, DeleteTempDone DEF Arrays!DeleteTemp
<1>13. CASE Arrays!Steal
  BY <1>2, <1>3, <1>13, StealDone DEF Arrays!Steal
<1>14. CASE Arrays!NullOther
  BY <1>2, <1>3, <1>14, NullOtherDone DEF Arrays!NullOther
<1>15. CASE Arrays!EmptyOther
  BY <1>2, <1>3, <1>15, EmptyOtherDone DEF Arrays!EmptyOther
<1> QED BY <1>4, <1>5, <1>6, <1>7, <1>8, <1>9, <1>10, <1>11, <1>12, <1>13, <1>14, <1>15
        DEF Arrays!Statement

-----------------------------------------------------------------------------
(* A call begins with nothing done. *)
LEMMA CallIsTyped ==
  ASSUME ArraysTypes, NEW op \in CallNames, NEW o \in Owners, NEW other \in Owners,
         NEW n \in Nat, call' = Arrays!Called(op, o, other, n),
         UNCHANGED <<class, constructed, live, len, val>>,
         arrayOf' \in [Owners -> Addresses], capacityOf' \in [Owners -> Nat]
  PROVE  /\ ArraysTypes' /\ Running' /\ Past' = {}
         /\ call'.op = op /\ call'.self = o /\ call'.other = other /\ call'.n = n
         /\ call'.temp = NoBlock /\ call'.next = 1
         /\ call'.before = <<arrayOf[o], capacityOf[o], Arrays!ContentsOf(arrayOf[o])>>
         /\ call'.source = <<arrayOf[other], capacityOf[other],
                             Arrays!ContentsOf(arrayOf[other])>>
<1>1. ASSUME NEW p \in Owners
      PROVE  <<arrayOf[p], capacityOf[p], Arrays!ContentsOf(arrayOf[p])>> \in Views
  BY DEF ArraysTypes, MemberTypes, Arrays!ContentsOf, Views
<1> DEFINE before == <<arrayOf[o], capacityOf[o], Arrays!ContentsOf(arrayOf[o])>>
           source == <<arrayOf[other], capacityOf[other],
                       Arrays!ContentsOf(arrayOf[other])>>
<1>2. before \in Views /\ source \in Views
  BY <1>1
<1>3. call' = [status |-> "running", op |-> op, self |-> o, other |-> other, n |-> n,
               next |-> 1, temp |-> NoBlock, before |-> before, source |-> source]
  BY DEF Arrays!Called
<1> HIDE DEF before, source
<1>4. call' \in CallRecords
  BY <1>2, <1>3 DEF CallRecords, Addresses
<1>5. /\ call'.status = "running"
      /\ call'.op = op /\ call'.self = o /\ call'.other = other /\ call'.n = n
      /\ call'.temp = NoBlock /\ call'.next = 1
      /\ call'.before = before /\ call'.source = source
  BY <1>3
<1>6. Arrays!Statements' = Table(class, op) /\ Sensible(class, op)
  BY <1>5, TablesAreSensible DEF ArraysTypes, MemberTypes, Arrays!Statements, Table
<1>7. 1 \in 1 .. Len(Arrays!Statements')
  <2> DEFINE T == Table(class, op)
  <2>1. Len(T) \in Nat \ {0, 1}
    BY <1>6 DEF Sensible
  <2> HIDE DEF T
  <2>2. 1 \in 1 .. Len(T)
    BY <2>1
  <2> QED BY <1>6, <2>2 DEF T
<1>8. MemberTypes'
  BY DEF ArraysTypes, MemberTypes
<1>9. ArraysTypes' /\ Running'
  BY <1>4, <1>5, <1>7, <1>8 DEF ArraysTypes, Running
<1>10. Past' = {}
  BY <1>5 DEF Past, BeforeIn
<1> QED BY <1>5, <1>9, <1>10 DEF before, source

LEMMA CallBegins ==
  ASSUME ArraysTypes, AtRest, NEW op \in CallNames, NEW o \in Owners, NEW other \in Owners,
         NEW n \in Nat, call' = Arrays!Called(op, o, other, n),
         UNCHANGED <<class, constructed, live, len, val>>,
         arrayOf' \in [Owners -> Addresses], capacityOf' \in [Owners -> Nat],
         op \in Arrays!Constructors <=> o \notin constructed,
         op \in Arrays!Constructors => arrayOf'[o] = NoBlock,
         IF op = "construct" THEN other = o
         ELSE other \in constructed \ {o} /\ n = capacityOf[other],
         \A p \in constructed : arrayOf'[p] = arrayOf[p] /\ capacityOf'[p] = capacityOf[p]
  PROVE  Running' /\ Placed' /\ Body(Past)' /\ Arrays!CallsDoTheirWork'
<1>1. /\ Running' /\ Past' = {}
      /\ call'.op = op /\ call'.self = o /\ call'.other = other /\ call'.n = n
      /\ call'.temp = NoBlock
      /\ call'.source = <<arrayOf[other], capacityOf[other],
                          Arrays!ContentsOf(arrayOf[other])>>
  BY CallIsTyped
<1>2. Placed'
  BY <1>1 DEF Placed
<1>3. HoldersAt({})' = constructed
  BY <1>1 DEF HoldersAt, Reach, SelfHolds, OtherHolds
<1>4. OneHolder(HoldersAt({}), arrayOf, live, call.temp)'
  BY <1>1, <1>3 DEF AtRest, OneHolder
<1>5. ASSUME NEW p \in constructed, NEW k
      PROVE  IsLength(p, k)' <=> IsLength(p, k)
  BY <1>5 DEF IsLength
<1>6. ASSUME NEW p \in constructed PROVE IsLength(p, capacityOf[p])'
  <2>1. IsLength(p, capacityOf[p])
    BY <1>6 DEF AtRest
  <2> QED BY <1>6, <2>1 DEF IsLength
<1>7. InHand({})'
  BY <1>1 DEF InHand, NewInHand
<1>8. OtherLengths'
  BY <1>1, <1>6 DEF OtherLengths, Reach
<1>9. SelfLength({})'
  BY <1>1, <1>6 DEF SelfLength
<1>10. SourceLength({})'
  <2> SUFFICES ASSUME op # "construct" PROVE SourceLength({})'
    BY <1>1 DEF SourceLength, Arrays!Copies, Arrays!Moves
  <2>1. /\ other \in constructed /\ capacityOf'[other] = n
        /\ IsLength(other, capacityOf[other])'
    BY <1>6
  <2> QED BY <1>1, <2>1 DEF SourceLength, IsLength
<1>11. CopiedSoFar({})' /\ MovedSoFar({})'
  <2> SUFFICES ASSUME op # "construct" PROVE CopiedSoFar({})' /\ MovedSoFar({})'
    BY <1>1 DEF CopiedSoFar, MovedSoFar, Arrays!Copies, Arrays!Moves
  <2>1. arrayOf'[other] = arrayOf[other] /\ capacityOf'[other] = capacityOf[other] /\ n = capacityOf[other]
    OBVIOUS
  <2>2. Arrays!ContentsOf(arrayOf[other])' = Arrays!ContentsOf(arrayOf[other])
    BY <2>1 DEF Arrays!ContentsOf
  <2>3. /\ call'.source[1] = arrayOf[other] /\ call'.source[2] = capacityOf[other]
        /\ call'.source[3] = Arrays!ContentsOf(arrayOf[other])
    BY <1>1
  <2>4. CopiedSoFar({})'
    <3>1. call'.source = <<arrayOf'[other], capacityOf'[other],
                           Arrays!ContentsOf(arrayOf[other])'>>
      BY <1>1, <2>1, <2>2
    <3> QED BY <1>1, <3>1 DEF CopiedSoFar, Arrays!ContentsOf
  <2>5. MovedSoFar({})'
    BY <1>1, <2>1, <2>2, <2>3 DEF MovedSoFar, Arrays!ContentsOf
  <2> QED BY <2>4, <2>5
<1>12. Body({})'
  BY <1>4, <1>7, <1>8, <1>9, <1>10, <1>11 DEF Body
<1>13. Body(Past)'
  BY <1>1, <1>12
<1>14. Arrays!CallsDoTheirWork'
  BY <1>1 DEF Running, Arrays!CallsDoTheirWork
<1> QED BY <1>1, <1>2, <1>13, <1>14

LEMMA InitArrays == ASSUME Arrays!Init PROVE ArraysInv
<1> USE DEF Arrays!Init
<1>1. /\ call = [status |-> "none"] /\ call.status = "none"
      /\ constructed = {} /\ live = {} /\ fault = "none"
  OBVIOUS
<1>2. MemberTypes
  BY DEF MemberTypes, ClassNames, Arrays!Classes, Addresses, Arrays!Garbage
<1>3. ArraysTypes
  BY <1>1, <1>2 DEF ArraysTypes, Running
<1>4. AtRest
  BY <1>1 DEF AtRest, OneHolder
<1>5. NotBegun /\ Arrays!FailedAssignmentChangesNothing /\ Arrays!CallsDoTheirWork
  BY <1>1 DEF NotBegun, Arrays!FailedAssignmentChangesNothing, Arrays!CallsDoTheirWork
<1> QED BY <1>1, <1>3, <1>4, <1>5 DEF ArraysInv, Sound, Running

(* A member function is called. *)
LEMMA CallStarts ==
  ASSUME ArraysInv, Arrays!Between, NEW op \in CallNames, NEW o \in Owners,
         NEW other \in Owners, NEW n \in Nat, call' = Arrays!Called(op, o, other, n),
         UNCHANGED <<class, constructed, live, len, val, spoilt, fault>>,
         arrayOf' \in [Owners -> Addresses], capacityOf' \in [Owners -> Nat],
         op \in Arrays!Constructors <=> o \notin constructed,
         op \in Arrays!Constructors => arrayOf'[o] = NoBlock,
         IF op = "construct" THEN other = o
         ELSE other \in constructed \ {o} /\ n = capacityOf[other],
         \A p \in constructed : arrayOf'[p] = arrayOf[p] /\ capacityOf'[p] = capacityOf[p]
  PROVE  ArraysInv'
<1>1. ArraysTypes /\ fault' = "none"
  BY DEF ArraysInv, Arrays!Between
<1>2. /\ ArraysTypes' /\ Running' /\ call'.op = op /\ call'.self = o
      /\ call'.before = <<arrayOf[o], capacityOf[o], Arrays!ContentsOf(arrayOf[o])>>
  BY <1>1, CallIsTyped
<1>3. NotBegun'
  <2> SUFFICES ASSUME op = "copyAssign" PROVE NotBegun'
    BY <1>2 DEF NotBegun
  <2>1. arrayOf'[o] = arrayOf[o] /\ capacityOf'[o] = capacityOf[o]
    BY DEF Arrays!Constructors
  <2>2. Arrays!ContentsOf(arrayOf[o])' = Arrays!ContentsOf(arrayOf[o])
    BY <2>1 DEF Arrays!ContentsOf
  <2>3. call'.before = <<arrayOf'[o], capacityOf'[o], Arrays!ContentsOf(arrayOf[o])'>>
    BY <1>2, <2>1, <2>2
  <2> QED BY <1>2, <2>3 DEF NotBegun, Arrays!ContentsOf
<1>4. Arrays!FailedAssignmentChangesNothing'
  BY <1>2 DEF Arrays!FailedAssignmentChangesNothing, Running
<1>5. ASSUME ~spoilt' PROVE Sound'
  <2>1. AtRest
    BY <1>5 DEF ArraysInv, Sound, Arrays!Between, Running
  <2>2. Running' /\ Placed' /\ Body(Past)' /\ Arrays!CallsDoTheirWork'
    BY <1>1, <2>1, CallBegins
  <2> QED BY <1>1, <2>2 DEF Sound
<1> QED BY <1>2, <1>3, <1>4, <1>5 DEF ArraysInv

LEMMA ElementWritten ==
  ASSUME ArraysInv, NEW o \in Owners, NEW idx \in Nat, NEW v \in Payloads,
         Arrays!Write(o, idx, v)
  PROVE  ArraysInv'
<1> USE DEF Arrays!Write
<1>1. ArraysTypes /\ MemberTypes /\ o \in constructed /\ fault = "none"
  BY DEF ArraysInv, ArraysTypes, Arrays!Between
<1>2. /\ call' = [status |-> "none"] /\ call'.status = "none"
      /\ UNCHANGED <<class, constructed, arrayOf, capacityOf, live, len, spoilt>>
  BY DEF Arrays!objects
<1>3. MemberTypes'
  BY <1>1, <1>2 DEF MemberTypes
<1>4. ArraysTypes' /\ NotBegun' /\ Arrays!FailedAssignmentChangesNothing' /\ ~Running'
  BY <1>2, <1>3 DEF ArraysTypes, Running, NotBegun, Arrays!FailedAssignmentChangesNothing
<1>5. ASSUME ~spoilt' PROVE Sound'
  <2>1. AtRest
    BY <1>2, <1>5 DEF ArraysInv, Sound, Arrays!Between, Running
  <2>2. AtRest'
    BY <1>2, <2>1 DEF AtRest, IsLength
  <2>3. fault' = "none" \/ (fault' = "access" /\ class' = "Queue")
    <3>1. IsLength(o, capacityOf[o]) /\ arrayOf[o] \in live \cup {NoBlock}
      BY <1>1, <2>1 DEF AtRest, OneHolder
    <3>2. idx < capacityOf[o]
      OBVIOUS
    <3>3. arrayOf[o] \in live /\ idx < len[arrayOf[o]] => fault' = "none"
      BY <1>1
    <3>4. ~(arrayOf[o] \in live /\ idx < len[arrayOf[o]]) => fault' = "access"
      BY <1>1
    <3>5. capacityOf[o] # 0
      BY <3>2
    <3> QED BY <1>2, <3>1, <3>2, <3>3, <3>4, <3>5 DEF IsLength
  <2>4. Arrays!CallsDoTheirWork'
    BY <1>2 DEF Arrays!CallsDoTheirWork
  <2> QED BY <1>4, <2>2, <2>3, <2>4 DEF Sound
<1> QED BY <1>4, <1>5 DEF ArraysInv

LEMMA ObjectGoes ==
  ASSUME ArraysInv, NEW o \in Owners, Arrays!Destroy(o)
  PROVE  ArraysInv'
<1> USE DEF Arrays!Destroy
<1>1. ArraysTypes /\ MemberTypes /\ o \in constructed /\ fault = "none" /\ NoBlock \notin live
  BY NoBlockIsNone DEF ArraysInv, ArraysTypes, MemberTypes, Arrays!Between
<1>2. /\ call' = [status |-> "none"] /\ call'.status = "none"
      /\ constructed' = constructed \ {o}
      /\ UNCHANGED <<class, arrayOf, capacityOf, len, val, spoilt>>
  OBVIOUS
<1>3. MemberTypes'
  BY <1>1, <1>2 DEF MemberTypes, Arrays!Free
<1>4. ArraysTypes' /\ NotBegun' /\ Arrays!FailedAssignmentChangesNothing' /\ ~Running'
  BY <1>2, <1>3 DEF ArraysTypes, Running, NotBegun, Arrays!FailedAssignmentChangesNothing
<1>5. ASSUME ~spoilt' PROVE Sound'
  <2>1. AtRest
    BY <1>2, <1>5 DEF ArraysInv, Sound, Arrays!Between, Running
  <2>2. live' = live \ {arrayOf[o]} /\ fault' = "none"
    BY <1>1, <2>1 DEF AtRest, OneHolder, Arrays!Free
  <2>3. OneHolder(constructed', arrayOf, live', NoBlock)
    BY <1>1, <1>2, <2>1, <2>2, DroppedBy DEF AtRest
  <2>4. AtRest'
    BY <1>2, <2>1, <2>3 DEF AtRest, IsLength
  <2>5. Arrays!CallsDoTheirWork'
    BY <1>2 DEF Arrays!CallsDoTheirWork
  <2> QED BY <1>4, <2>2, <2>4, <2>5 DEF Sound
<1> QED BY <1>4, <1>5 DEF ArraysInv

LEMMA StepArrays ==
  ASSUME ArraysInv, [Arrays!Next]_(Arrays!vars)
  PROVE  ArraysInv'
<1>1. ArraysTypes /\ MemberTypes
  BY DEF ArraysInv, ArraysTypes
<1>2. ASSUME NEW o \in Owners, NEW n \in 0 .. MaxCapacity, Arrays!Construct(o, n)
      PROVE  ArraysInv'
  <2> USE <1>2 DEF Arrays!Construct
  <2>1. /\ arrayOf' \in [Owners -> Addresses] /\ capacityOf' \in [Owners -> Nat]
        /\ arrayOf'[o] = NoBlock
        /\ \A p \in constructed : arrayOf'[p] = arrayOf[p] /\ capacityOf'[p] = capacityOf[p]
    BY <1>1 DEF MemberTypes, Addresses
  <2>2. "construct" \in CallNames /\ "construct" \in Arrays!Constructors /\ n \in Nat
    BY MaxCapacityIsNat DEF CallNames, Arrays!Constructors
  <2> QED BY <2>1, <2>2, CallStarts DEF Arrays!heap
<1>3. ASSUME NEW op \in {"copyConstruct", "moveConstruct"}, NEW o \in Owners,
             NEW other \in Owners, Arrays!ConstructFrom(op, o, other)
      PROVE  ArraysInv'
  <2> USE <1>3 DEF Arrays!ConstructFrom
  <2>1. /\ arrayOf' \in [Owners -> Addresses] /\ capacityOf' \in [Owners -> Nat]
        /\ arrayOf'[o] = NoBlock /\ capacityOf[other] \in Nat
        /\ \A p \in constructed : arrayOf'[p] = arrayOf[p] /\ capacityOf'[p] = capacityOf[p]
    BY <1>1 DEF MemberTypes, Addresses
  <2>2. op \in CallNames /\ op \in Arrays!Constructors /\ op # "construct"
    BY DEF CallNames, Arrays!Constructors
  <2> QED BY <2>1, <2>2, CallStarts DEF Arrays!heap
<1>4. ASSUME NEW op \in {"copyAssign", "moveAssign"}, NEW o \in Owners,
             NEW other \in Owners, Arrays!AssignFrom(op, o, other)
      PROVE  ArraysInv'
  <2> USE <1>4 DEF Arrays!AssignFrom
  <2>1. /\ UNCHANGED <<class, constructed, arrayOf, capacityOf, live, len, val, spoilt, fault>>
        /\ arrayOf' \in [Owners -> Addresses] /\ capacityOf' \in [Owners -> Nat]
        /\ capacityOf[other] \in Nat
    BY <1>1 DEF MemberTypes, Arrays!heap, Arrays!objects
  <2>2. op \in CallNames /\ op \notin Arrays!Constructors /\ op # "construct"
    BY DEF CallNames, Arrays!Constructors
  <2> QED BY <2>1, <2>2, CallStarts
<1>5. ASSUME NEW o \in Owners, NEW idx \in 0 .. MaxCapacity - 1, NEW v \in Payloads,
             Arrays!Write(o, idx, v)
      PROVE  ArraysInv'
  BY <1>5, ElementWritten, MaxCapacityIsNat
<1>6. CASE \E o \in Owners : Arrays!Destroy(o)
  BY <1>6, ObjectGoes
<1>7. CASE Arrays!Statement
  <2>1. ArraysTypes' /\ NotBegun' /\ Arrays!FailedAssignmentChangesNothing'
    BY <1>7, StatementTypes DEF ArraysInv
  <2>2. ASSUME ~spoilt' PROVE Sound'
    <3>1. ~spoilt
      BY <1>7, <2>2 DEF Arrays!Statement, Arrays!Test, Arrays!New, Arrays!Take, Arrays!Local,
         Arrays!Members, Arrays!Copy, Arrays!Delete, Arrays!Swap, Arrays!DeleteTemp,
         Arrays!Steal, Arrays!NullOther, Arrays!EmptyOther, Arrays!Throws
    <3> QED BY <1>1, <1>7, <2>2, <3>1, StatementIsSound DEF ArraysInv
  <2> QED BY <2>1, <2>2 DEF ArraysInv
<1>8. CASE UNCHANGED Arrays!vars
  <2>1. UNCHANGED <<class, constructed, arrayOf, capacityOf, live, len, call, live, val,
                    spoilt, fault>>
    BY <1>8 DEF Arrays!vars, Arrays!objects, Arrays!heap
  <2>2. ASSUME ~spoilt' PROVE Sound'
    <3>1. PICK P : P = Past
      OBVIOUS
    <3>2. Past' = P
      BY <1>1, <2>1, <3>1, Undisturbed
    <3>3. Running => Placed' /\ Body(Past)'
      <4>1. ASSUME Running PROVE Placed /\ Body(P)
        BY <2>1, <2>2, <3>1, <4>1 DEF ArraysInv, Sound
      <4> QED BY <1>1, <2>1, <3>2, <4>1, Undisturbed
    <3> QED BY <1>1, <2>1, <2>2, <3>3, Undisturbed DEF ArraysInv, Sound
  <2> QED BY <1>1, <2>1, <2>2, Undisturbed DEF ArraysInv
<1> QED BY <1>2, <1>3, <1>4, <1>5, <1>6, <1>7, <1>8 DEF Arrays!Next, Arrays!Faulted

LEMMA ArraysAreSound == ArraysSpec => []ArraysInv
<1>1. Arrays!Init => ArraysInv
  BY InitArrays
<1>2. ArraysInv /\ [Arrays!Next]_(Arrays!vars) => ArraysInv'
  BY StepArrays
<1> QED BY <1>1, <1>2, PTL DEF ArraysSpec, Arrays!Spec

(* Every array has one owner, between any two calls: new and delete[] in the
   constructors, the assignments and the destructor of Stack, Queue,
   FixedDeque and the three arrays. *)
THEOREM EachArrayHasAnOwner == ArraysSpec => []EveryArrayHasOneOwner
<1>1. ArraysInv => EveryArrayHasOneOwner
  <2> SUFFICES ASSUME ArraysTypes, Sound PROVE Arrays!EveryArrayHasOneOwner
    BY DEF ArraysInv, EveryArrayHasOneOwner, Arrays!EveryArrayHasOneOwner
  <2>1. NoBlock \notin live /\ fault # "delete"
    BY NoBlockIsNone DEF ArraysTypes, MemberTypes, Sound
  <2>2. ASSUME ~Running
        PROVE  /\ \A o \in constructed : arrayOf[o] \in live \cup {NoBlock}
               /\ \A o, p \in constructed : arrayOf[o] = arrayOf[p] => o = p \/ arrayOf[o] = NoBlock
               /\ live = {arrayOf[o] : o \in constructed} \ {NoBlock}
    BY <2>1, <2>2 DEF Sound, AtRest, OneHolder
  <2> QED BY <2>1, <2>2 DEF Arrays!EveryArrayHasOneOwner, Running
<1> QED BY <1>1, ArraysAreSound, PTL

(* The member that says how long the array is says the truth. *)
THEOREM LengthsAreReal == ArraysSpec => []CapacityIsReal
<1>1. ArraysInv => CapacityIsReal
  BY DEF ArraysInv, Sound, AtRest, IsLength, Running, CapacityIsReal, Arrays!CapacityIsReal
<1> QED BY <1>1, ArraysAreSound, PTL

(* stack.cpp:60 and array.cpp:54: the assignments that allocate before they
   let go leave the object as it was when they throw. *)
THEOREM FailedAssignmentsAreUndone == ArraysSpec => []FailedAssignmentChangesNothing
<1>1. ArraysInv => FailedAssignmentChangesNothing
  BY DEF ArraysInv, FailedAssignmentChangesNothing
<1> QED BY <1>1, ArraysAreSound, PTL

(* A copy equals what it was made of and shares nothing with it, and a move
   leaves nothing behind. *)
THEOREM CallsWork == ArraysSpec => []CallsDoTheirWork
<1>1. ArraysInv => CallsDoTheirWork
  BY DEF ArraysInv, Sound, CallsDoTheirWork, Arrays!CallsDoTheirWork
<1> QED BY <1>1, ArraysAreSound, PTL

-----------------------------------------------------------------------------
(* The two linked lists.  First what holds of both. *)

(* A list's nodes, and its elements, as functions on 1 .. m: what becomes of
   them when one is put in at i, and when the one at i is taken out. *)
Inserted(c, m, i, n) ==
  [k \in 1 .. m + 1 |-> IF k < i THEN c[k] ELSE IF k = i THEN n ELSE c[k - 1]]
Removed(c, m, i) == [k \in 1 .. m - 1 |-> IF k < i THEN c[k] ELSE c[k + 1]]

Distinct(c, m) == \A j, k \in 1 .. m : c[j] = c[k] => j = k
Members(c, m) == {c[k] : k \in 1 .. m}

LEMMA InsertedIsDistinct ==
  ASSUME NEW S, NEW m \in Nat, NEW c, c \in [1 .. m -> S], Distinct(c, m),
         NEW i \in 1 .. m + 1, NEW n \in S, n \notin Members(c, m)
  PROVE  /\ Inserted(c, m, i, n) \in [1 .. m + 1 -> S]
         /\ Distinct(Inserted(c, m, i, n), m + 1)
<1> DEFINE d == Inserted(c, m, i, n)
<1>1. \A k \in 1 .. m + 1 : d[k] = IF k < i THEN c[k] ELSE IF k = i THEN n ELSE c[k - 1]
  BY DEF Inserted
<1>2. d \in [1 .. m + 1 -> S]
  <2>1. ASSUME NEW k \in 1 .. m + 1
        PROVE  (IF k < i THEN c[k] ELSE IF k = i THEN n ELSE c[k - 1]) \in S
    <3>1. CASE k < i
      <4>1. k \in 1 .. m
        BY <3>1
      <4> QED BY <3>1, <4>1
    <3>2. CASE k = i
      BY <3>2
    <3>3. CASE k > i
      <4>1. k - 1 \in 1 .. m
        BY <3>3
      <4> QED BY <3>3, <4>1
    <3> QED BY <3>1, <3>2, <3>3
  <2> QED BY <2>1 DEF Inserted
<1>3. ASSUME NEW k \in 1 .. m + 1
      PROVE  \/ k < i /\ k \in 1 .. m /\ d[k] = c[k]
             \/ k = i /\ d[k] = n
             \/ k > i /\ k - 1 \in 1 .. m /\ d[k] = c[k - 1]
  BY <1>1
<1>4. \A k \in 1 .. m : c[k] # n
  BY DEF Members
<1> HIDE DEF d
<1>5. Distinct(d, m + 1)
  <2> SUFFICES ASSUME NEW j \in 1 .. m + 1, NEW k \in 1 .. m + 1, d[j] = d[k] PROVE j = k
    BY DEF Distinct
  <2>1. \A p, q \in 1 .. m : c[p] = c[q] => p = q
    BY DEF Distinct
  <2>2. CASE j = i
    BY <1>3, <1>4, <2>2
  <2>3. CASE j < i
    BY <1>3, <1>4, <2>1, <2>3
  <2>4. CASE j > i
    BY <1>3, <1>4, <2>1, <2>4
  <2> QED BY <2>2, <2>3, <2>4
<1> QED BY <1>2, <1>5 DEF d

LEMMA InsertedMembers ==
  ASSUME NEW m \in Nat, NEW c, NEW i \in 1 .. m + 1, NEW n
  PROVE  Members(Inserted(c, m, i, n), m + 1) = Members(c, m) \cup {n}
<1> DEFINE d == Inserted(c, m, i, n)
<1>1. \A k \in 1 .. m + 1 : d[k] = IF k < i THEN c[k] ELSE IF k = i THEN n ELSE c[k - 1]
  BY DEF Inserted
<1>2. ASSUME NEW k \in 1 .. m + 1
      PROVE  \/ k < i /\ k \in 1 .. m /\ d[k] = c[k]
             \/ k = i /\ d[k] = n
             \/ k > i /\ k - 1 \in 1 .. m /\ d[k] = c[k - 1]
  BY <1>1
<1> HIDE DEF d
<1>3. Members(d, m + 1) \subseteq Members(c, m) \cup {n}
  BY <1>2 DEF Members
<1>4. n \in Members(d, m + 1)
  BY <1>2 DEF Members
<1>5. ASSUME NEW k \in 1 .. m PROVE c[k] \in Members(d, m + 1)
  <2>1. CASE k < i
    <3>1. k \in 1 .. m + 1 /\ d[k] = c[k]
      BY <1>2, <2>1
    <3> QED BY <3>1 DEF Members
  <2>2. CASE k >= i
    <3>1. k + 1 \in 1 .. m + 1 /\ d[k + 1] = c[k]
      BY <1>2, <2>2
    <3> QED BY <3>1 DEF Members
  <2> QED BY <2>1, <2>2
<1> QED BY <1>3, <1>4, <1>5 DEF Members, d

LEMMA RemovedIsDistinct ==
  ASSUME NEW S, NEW m \in Nat, NEW c, c \in [1 .. m -> S], Distinct(c, m), NEW i \in 1 .. m
  PROVE  /\ Removed(c, m, i) \in [1 .. m - 1 -> S]
         /\ Distinct(Removed(c, m, i), m - 1)
<1> DEFINE d == Removed(c, m, i)
<1>1. ASSUME NEW k \in 1 .. m - 1
      PROVE  \/ k < i /\ k \in 1 .. m /\ d[k] = c[k]
             \/ k >= i /\ k + 1 \in 1 .. m /\ d[k] = c[k + 1]
  BY DEF Removed
<1>2. d \in [1 .. m - 1 -> S]
  BY DEF Removed
<1>3. \A p, q \in 1 .. m : c[p] = c[q] => p = q
  BY DEF Distinct
<1> HIDE DEF d
<1>4. Distinct(d, m - 1)
  <2> SUFFICES ASSUME NEW j \in 1 .. m - 1, NEW k \in 1 .. m - 1, d[j] = d[k] PROVE j = k
    BY DEF Distinct
  <2>1. CASE j < i
    BY <1>1, <1>3, <2>1
  <2>2. CASE j >= i
    BY <1>1, <1>3, <2>2
  <2> QED BY <2>1, <2>2
<1> QED BY <1>2, <1>4 DEF d

LEMMA RemovedMembers ==
  ASSUME NEW m \in Nat, NEW c, Distinct(c, m), NEW i \in 1 .. m
  PROVE  Members(Removed(c, m, i), m - 1) = Members(c, m) \ {c[i]}
<1> DEFINE d == Removed(c, m, i)
<1>1. ASSUME NEW k \in 1 .. m - 1
      PROVE  \/ k < i /\ k \in 1 .. m /\ d[k] = c[k]
             \/ k >= i /\ k + 1 \in 1 .. m /\ d[k] = c[k + 1]
  BY DEF Removed
<1>2. \A p, q \in 1 .. m : c[p] = c[q] => p = q
  BY DEF Distinct
<1> HIDE DEF d
<1>3. ASSUME NEW k \in 1 .. m - 1 PROVE d[k] \in Members(c, m) \ {c[i]}
  <2>1. CASE k < i
    BY <1>1, <1>2, <2>1 DEF Members
  <2>2. CASE k >= i
    BY <1>1, <1>2, <2>2 DEF Members
  <2> QED BY <2>1, <2>2
<1>4. ASSUME NEW k \in 1 .. m, c[k] # c[i] PROVE c[k] \in Members(d, m - 1)
  <2>1. CASE k < i
    <3>1. k \in 1 .. m - 1 /\ d[k] = c[k]
      BY <1>1, <2>1
    <3> QED BY <3>1 DEF Members
  <2>2. CASE k > i
    <3>1. k - 1 \in 1 .. m - 1 /\ d[k - 1] = c[k]
      BY <1>1, <2>2
    <3> QED BY <3>1 DEF Members
  <2>3. k # i
    BY <1>4
  <2> QED BY <2>1, <2>2, <2>3
<1> QED BY <1>3, <1>4 DEF Members, d

(* A finite set has room for a one-to-one function's values only. *)
LEMMA DistinctFit ==
  ASSUME NEW S, IsFiniteSet(S), NEW m \in Nat, NEW c \in [1 .. m -> S], Distinct(c, m)
  PROVE  m <= Cardinality(S)
<1> DEFINE I == 1 .. m
<1>1. c \in Injection(I, S)
  BY DEF Injection, IsInjective, Distinct
<1>2. Cardinality(I) = m
  BY FS_Interval
<1> HIDE DEF I
<1>3. Cardinality(I) <= Cardinality(S)
  BY <1>1, FS_Injection
<1> QED BY <1>2, <1>3

(* Among natural numbers there is always a least one. *)
LEMMA LeastNumber ==
  ASSUME NEW T, T \subseteq Nat, T # {}
  PROVE  \E x \in T : \A y \in T : x <= y
<1> DEFINE R == OpToRel(<, Nat)
<1>1. PICK x \in T : \A y \in T : ~ (<<y, x>> \in R)
  <2>1. IsWellFoundedOn(R, Nat)
    BY NatLessThanWellFounded, Zenon
  <2> HIDE DEF R
  <2> QED BY <2>1, WFMin
<1>2. ASSUME NEW y \in T PROVE x <= y
  <2>1. ~ (y < x)
    BY <1>1, Zenon DEF OpToRel
  <2> QED BY <2>1
<1> QED BY <1>2

LEMMA AppendIsInserted ==
  ASSUME NEW S, NEW m \in Nat, NEW c \in [1 .. m -> S], NEW n \in S
  PROVE  Append(c, n) = Inserted(c, m, m + 1, n)
<1>1. Append(c, n) = [k \in 1 .. m + 1 |-> IF k = m + 1 THEN n ELSE c[k]]
  BY AppendAsFunction
<1> QED BY <1>1 DEF Inserted

LEMMA PrependIsInserted ==
  ASSUME NEW S, NEW m \in Nat, NEW c \in [1 .. m -> S], NEW n \in S
  PROVE  <<n>> \o c = Inserted(c, m, 1, n)
<1>1. <<n>> \o c = [k \in 1 .. m + 1 |-> IF k = 1 THEN n ELSE c[k - 1]]
  BY PrependAsFunction
<1> QED BY <1>1 DEF Inserted

LEMMA TailIsRemoved ==
  ASSUME NEW S, NEW m \in Nat \ {0}, NEW c \in [1 .. m -> S]
  PROVE  Tail(c) = Removed(c, m, 1)
<1>1. Tail(c) = [k \in 1 .. m - 1 |-> c[k + 1]]
  BY TailAsFunction DEF HeadAndTail
<1> QED BY <1>1 DEF Removed

LEMMA FrontIsRemoved ==
  ASSUME NEW S, NEW m \in Nat \ {0}, NEW c \in [1 .. m -> S]
  PROVE  SubSeq(c, 1, Len(c) - 1) = Removed(c, m, m)
<1>1. Len(c) = m /\ SubSeq(c, 1, m - 1) = [k \in 1 .. m - 1 |-> c[k]]
  BY FrontAsFunction
<1> QED BY <1>1 DEF Removed

(* The part of a sequence from a to b *)
LEMMA PartAsFunction ==
  ASSUME NEW S, NEW m \in Nat, NEW c \in [1 .. m -> S],
         NEW a \in 1 .. m + 1, NEW b \in 0 .. m, a <= b + 1
  PROVE  /\ SubSeq(c, a, b) \in Seq(S)
         /\ Len(SubSeq(c, a, b)) = b - a + 1
         /\ \A k \in 1 .. b - a + 1 : SubSeq(c, a, b)[k] = c[a + k - 1]
         /\ SubSeq(c, a, b) = [k \in 1 .. b - a + 1 |-> c[a + k - 1]]
<1>1. \A i \in a .. b : c[i] \in S
  OBVIOUS
<1>2. /\ SubSeq(c, a, b) \in Seq(S)
      /\ Len(SubSeq(c, a, b)) = IF a <= b THEN b - a + 1 ELSE 0
      /\ \A i \in 1 .. b - a + 1 : SubSeq(c, a, b)[i] = c[a + i - 1]
  BY <1>1, SubSeqProperties
<1>3. Len(SubSeq(c, a, b)) = b - a + 1
  BY <1>2
<1>4. SubSeq(c, a, b) \in [1 .. b - a + 1 -> S]
  BY <1>2, <1>3, LenProperties
<1> QED BY <1>2, <1>3, <1>4

LEMMA InsertAtIsInserted ==
  ASSUME NEW S, NEW m \in Nat, NEW c \in [1 .. m -> S], NEW i \in 1 .. m + 1, NEW n \in S
  PROVE  SubSeq(c, 1, i - 1) \o <<n>> \o SubSeq(c, i, Len(c)) = Inserted(c, m, i, n)
<1> DEFINE s == SubSeq(c, 1, i - 1)
           u == SubSeq(c, i, m)
           w == <<n>>
           t == s \o w
<1>1. Len(c) = m
  OBVIOUS
<1>2. s \in Seq(S) /\ Len(s) = i - 1 /\ \A k \in 1 .. i - 1 : s[k] = c[k]
  <2>1. 1 \in 1 .. m + 1 /\ i - 1 \in 0 .. m /\ 1 <= i - 1 + 1
    OBVIOUS
  <2>2. /\ s \in Seq(S) /\ Len(s) = i - 1 - 1 + 1
        /\ \A k \in 1 .. i - 1 - 1 + 1 : s[k] = c[1 + k - 1]
    BY <2>1, PartAsFunction
  <2> QED BY <2>2
<1>3. u \in Seq(S) /\ Len(u) = m - i + 1 /\ \A k \in 1 .. m - i + 1 : u[k] = c[i + k - 1]
  <2>1. m \in 0 .. m /\ i <= m + 1
    OBVIOUS
  <2> QED BY <2>1, PartAsFunction
<1>4. w \in Seq(S) /\ Len(w) = 1 /\ w[1] = n
  OBVIOUS
<1> HIDE DEF s, u, w
<1>5. /\ t \in Seq(S) /\ Len(t) = i - 1 + 1
      /\ \A k \in 1 .. i - 1 + 1 : t[k] = IF k <= i - 1 THEN s[k] ELSE w[k - (i - 1)]
  <2>1. s \in Seq(S) /\ w \in Seq(S)
    BY <1>2, <1>4
  <2>2. /\ t \in Seq(S) /\ Len(t) = Len(s) + Len(w)
        /\ \A k \in 1 .. Len(s) + Len(w) : t[k] = IF k <= Len(s) THEN s[k] ELSE w[k - Len(s)]
    BY <2>1, ConcatProperties
  <2>3. Len(s) = i - 1 /\ Len(w) = 1
    BY <1>2, <1>4
  <2> QED BY <2>2, <2>3
<1>6. Len(t) = i /\ \A k \in 1 .. i : t[k] = IF k < i THEN c[k] ELSE n
  BY <1>2, <1>4, <1>5
<1> HIDE DEF t
<1>7. /\ t \o u \in Seq(S) /\ Len(t \o u) = m + 1
      /\ \A k \in 1 .. m + 1 : (t \o u)[k] = IF k <= i THEN t[k] ELSE u[k - i]
  <2> HIDE DEF t
  <2>1. Len(t) + Len(u) = m + 1
    BY <1>3, <1>6
  <2>2. /\ t \o u \in Seq(S) /\ Len(t \o u) = Len(t) + Len(u)
        /\ \A k \in 1 .. Len(t) + Len(u) :
             (t \o u)[k] = IF k <= Len(t) THEN t[k] ELSE u[k - Len(t)]
    BY <1>3, <1>5, ConcatProperties
  <2> QED BY <1>6, <2>1, <2>2
<1>8. t \o u \in [1 .. m + 1 -> S]
  BY <1>7, LenProperties
<1>9. ASSUME NEW k \in 1 .. m + 1
      PROVE  (t \o u)[k] = IF k < i THEN c[k] ELSE IF k = i THEN n ELSE c[k - 1]
  <2> HIDE DEF t
  <2>0. k <= i \/ k > i
    OBVIOUS
  <2>1. CASE k <= i
    BY <1>6, <1>7, <2>1
  <2>2. CASE k > i
    <3>1. k - i \in 1 .. m - i + 1 /\ i + (k - i) - 1 = k - 1
      BY <2>2
    <3>2. u[k - i] = c[k - 1]
      BY <1>3, <3>1
    <3> QED BY <1>7, <2>2, <3>2
  <2> QED BY <2>0, <2>1, <2>2
<1>10. t \o u = Inserted(c, m, i, n)
  BY <1>8, <1>9 DEF Inserted
<1> QED BY <1>1, <1>10 DEF s, t, u, w

LEMMA RemoveAtIsRemoved ==
  ASSUME NEW S, NEW m \in Nat, NEW c \in [1 .. m -> S], NEW i \in 1 .. m
  PROVE  SubSeq(c, 1, i - 1) \o SubSeq(c, i + 1, Len(c)) = Removed(c, m, i)
<1> DEFINE s == SubSeq(c, 1, i - 1)
           u == SubSeq(c, i + 1, m)
<1>1. Len(c) = m
  OBVIOUS
<1>2. s \in Seq(S) /\ Len(s) = i - 1 /\ \A k \in 1 .. i - 1 : s[k] = c[k]
  <2>1. 1 \in 1 .. m + 1 /\ i - 1 \in 0 .. m /\ 1 <= i - 1 + 1
    OBVIOUS
  <2>2. /\ s \in Seq(S) /\ Len(s) = i - 1 - 1 + 1
        /\ \A k \in 1 .. i - 1 - 1 + 1 : s[k] = c[1 + k - 1]
    BY <2>1, PartAsFunction
  <2> QED BY <2>2
<1>3. u \in Seq(S) /\ Len(u) = m - i /\ \A k \in 1 .. m - i : u[k] = c[i + k]
  <2>1. m \in 0 .. m /\ i + 1 \in 1 .. m + 1 /\ i + 1 <= m + 1
    OBVIOUS
  <2>2. /\ u \in Seq(S) /\ Len(u) = m - (i + 1) + 1
        /\ \A k \in 1 .. m - (i + 1) + 1 : u[k] = c[i + 1 + k - 1]
    BY <2>1, PartAsFunction
  <2>3. m - (i + 1) + 1 = m - i /\ \A k \in 1 .. m - i : i + 1 + k - 1 = i + k
    OBVIOUS
  <2> QED BY <2>2, <2>3
<1> HIDE DEF s, u
<1>4. /\ s \o u \in Seq(S) /\ Len(s \o u) = m - 1
      /\ \A k \in 1 .. m - 1 : (s \o u)[k] = IF k <= i - 1 THEN s[k] ELSE u[k - (i - 1)]
  BY <1>2, <1>3, ConcatProperties
<1>5. s \o u \in [1 .. m - 1 -> S]
  BY <1>4, LenProperties
<1>6. ASSUME NEW k \in 1 .. m - 1
      PROVE  (s \o u)[k] = IF k < i THEN c[k] ELSE c[k + 1]
  <2>0. k < i \/ k >= i
    OBVIOUS
  <2>1. CASE k < i
    BY <1>2, <1>4, <2>1
  <2>2. CASE k >= i
    <3>1. k - (i - 1) \in 1 .. m - i /\ i + (k - (i - 1)) = k + 1
      BY <2>2
    <3>2. u[k - (i - 1)] = c[k + 1]
      BY <1>3, <3>1
    <3> QED BY <1>4, <2>2, <3>2
  <2> QED BY <2>0, <2>1, <2>2
<1>7. s \o u = Removed(c, m, i)
  BY <1>5, <1>6 DEF Removed
<1> QED BY <1>1, <1>7 DEF s, u

-----------------------------------------------------------------------------
(* SLL<T>.  In careful hands the list is a function c from positions to nodes:
   the nodes in use, each once, with next leading from each to the one after
   it.  The inductive invariant says that there is one; what Chain and Elements
   find along next are its nodes and their elements. *)
Links(c, m, h, t, A, nx) ==
  /\ m \in Nat /\ c \in [1 .. m -> Nodes] /\ Distinct(c, m)
  /\ A = Members(c, m)
  /\ nx \in [Nodes -> Nodes \cup {Null}]
  /\ m = 0 => h = Null /\ t = Null
  /\ m # 0 => h = c[1] /\ t = c[m] /\ nx[c[m]] = Null
  /\ \A k \in 1 .. m - 1 : nx[c[k]] = c[k + 1]

SllGood ==
  /\ outcome # "ub"
  /\ nodeElem = [n \in Nodes |-> nodeElem[n]]
  /\ \A n \in alive : nodeElem[n] \in Values
  /\ \E c : Links(c, sz, head, tail, alive, next)

SllInv == listCareful => SllGood

LEMMA SinglyCardinality == ASSUME NEW S PROVE Singly!Cardinality(S) = Cardinality(S)
  BY DEF Singly!Cardinality, Cardinality

(* The recursive function at is the one function that follows next. *)
Follows(f, N, h, A, nx) ==
  f = [k \in 1 .. N |-> IF k = 1 THEN h ELSE IF f[k - 1] \in A THEN nx[f[k - 1]] ELSE f[k - 1]]

LEMMA FollowersAgree ==
  ASSUME NEW N \in Nat, NEW h, NEW A, NEW nx, NEW f, NEW g,
         Follows(f, N, h, A, nx), Follows(g, N, h, A, nx)
  PROVE  \A k \in 1 .. N : f[k] = g[k]
<1>1. ASSUME NEW p \in 1 .. N, f[p] # g[p] PROVE FALSE
  <2> DEFINE Differ == {k \in 1 .. N : f[k] # g[k]}
  <2>1. Differ # {} /\ Differ \subseteq Nat
    BY <1>1
  <2>2. PICK k \in Differ : \A j \in Differ : k <= j
    BY <2>1, LeastNumber
  <2>3. CASE k = 1
    BY <2>2, <2>3 DEF Follows
  <2>4. CASE k # 1
    <3>1. k \in 1 .. N /\ k - 1 \in 1 .. N
      BY <2>2, <2>4
    <3>2. f[k - 1] = g[k - 1]
      BY <2>2, <3>1
    <3>3. /\ f[k] = IF f[k - 1] \in A THEN nx[f[k - 1]] ELSE f[k - 1]
          /\ g[k] = IF g[k - 1] \in A THEN nx[g[k - 1]] ELSE g[k - 1]
      BY <2>4, <3>1 DEF Follows
    <3> QED BY <2>2, <3>2, <3>3
  <2> QED BY <2>3, <2>4
<1> QED BY <1>1

LEMMA FollowerChosen ==
  ASSUME NEW N, NEW h, NEW A, NEW nx, NEW g, Follows(g, N, h, A, nx), NEW f,
         f = CHOOSE at : at = [k \in 1 .. N |->
               IF k = 1 THEN h ELSE IF at[k - 1] \in A THEN nx[at[k - 1]] ELSE at[k - 1]]
  PROVE  Follows(f, N, h, A, nx)
<1>1. \E at : at = [k \in 1 .. N |->
               IF k = 1 THEN h ELSE IF at[k - 1] \in A THEN nx[at[k - 1]] ELSE at[k - 1]]
  BY DEF Follows
<1> QED BY <1>1 DEF Follows

(* Along the nodes of c, and then nullptr *)
Along(c, m, N) == [k \in 1 .. N |-> IF k <= m THEN c[k] ELSE Null]

LEMMA AlongFollows ==
  ASSUME NEW c, NEW m, NEW h, NEW t, NEW A, NEW nx, Links(c, m, h, t, A, nx),
         NEW N \in Nat \ {0}, m <= N
  PROVE  Follows(Along(c, m, N), N, h, A, nx)
<1> DEFINE g == Along(c, m, N)
<1>1. Null \notin A
  BY NullIsNoNode DEF Links, Members
<1>2. \A k \in 1 .. m : c[k] \in A
  BY DEF Links, Members
<1>3. ASSUME NEW k \in 1 .. N
      PROVE  g[k] = IF k = 1 THEN h ELSE IF g[k - 1] \in A THEN nx[g[k - 1]] ELSE g[k - 1]
  <2>1. m \in Nat /\ g[k] = IF k <= m THEN c[k] ELSE Null
    BY DEF Links, Along
  <2>2. CASE k = 1
    BY <2>1, <2>2 DEF Links
  <2>3. CASE k # 1
    <3>1. k - 1 \in 1 .. N /\ g[k - 1] = IF k - 1 <= m THEN c[k - 1] ELSE Null
      BY <2>3 DEF Along
    <3>2. CASE k <= m
      <4>1. k - 1 \in 1 .. m - 1 /\ k - 1 \in 1 .. m /\ k - 1 + 1 = k
        BY <2>1, <2>3, <3>2
      <4>2. nx[c[k - 1]] = c[k]
        BY <4>1 DEF Links
      <4> QED BY <1>2, <2>1, <2>3, <3>1, <3>2, <4>1, <4>2
    <3>3. CASE k = m + 1
      <4>1. k - 1 = m /\ m # 0 /\ m \in 1 .. m
        BY <2>1, <2>3, <3>3
      <4>2. nx[c[m]] = Null
        BY <4>1 DEF Links
      <4> QED BY <1>2, <2>1, <2>3, <3>1, <3>3, <4>1, <4>2
    <3>4. CASE k > m + 1
      <4>1. g[k - 1] = Null /\ g[k] = Null
        BY <2>1, <3>1, <3>4
      <4> QED BY <1>1, <2>3, <4>1
    <3>5. k <= m \/ k = m + 1 \/ k > m + 1
      BY <2>1
    <3> QED BY <3>2, <3>3, <3>4, <3>5
  <2> QED BY <2>2, <2>3
<1>4. g = [k \in 1 .. N |-> g[k]]
  BY DEF Along
<1> HIDE DEF g
<1>5. g = [k \in 1 .. N |->
             IF k = 1 THEN h ELSE IF g[k - 1] \in A THEN nx[g[k - 1]] ELSE g[k - 1]]
  BY <1>3, <1>4
<1> QED BY <1>5 DEF Follows, g

(* What the operators of SLL give for a list whose nodes are those of c: in this
   state and in the next. *)
LEMMA ChainFits ==
  ASSUME NEW c, NEW m, NEW h, NEW t, NEW A, NEW nx, Links(c, m, h, t, A, nx)
  PROVE  /\ Singly!Cardinality(Nodes) \in Nat
         /\ m \in Nat /\ m <= Singly!Cardinality(Nodes)
<1>1. Cardinality(Nodes) \in Nat
  BY NodesAreFinite, FS_CardinalityType
<1>2. m <= Cardinality(Nodes)
  BY NodesAreFinite, DistinctFit DEF Links
<1> QED BY <1>1, <1>2, SinglyCardinality DEF Links

LEMMA SllNow ==
  ASSUME NEW c, Links(c, sz, head, tail, alive, next)
  PROVE  /\ DOMAIN Singly!at = 1 .. Singly!Cardinality(Nodes) + 1
         /\ \A k \in 1 .. Singly!Cardinality(Nodes) + 1 :
              Singly!at[k] = IF k <= sz THEN c[k] ELSE Null
         /\ Singly!Chain = 1 .. sz
         /\ Singly!Elements = [k \in 1 .. sz |-> nodeElem[c[k]]]
<1> DEFINE N == Singly!Cardinality(Nodes) + 1
<1>1. N \in Nat \ {0} /\ sz \in Nat /\ sz < N
  BY ChainFits
<1>2. Follows(Along(c, sz, N), N, head, alive, next)
  <2> HIDE DEF N
  <2> QED BY <1>1, AlongFollows
<1>3. Follows(Singly!at, N, head, alive, next)
  BY <1>2, FollowerChosen DEF Singly!at
<1>4. DOMAIN Singly!at = 1 .. N
  BY <1>3 DEF Follows
<1> HIDE DEF N
<1>5. \A k \in 1 .. N : Singly!at[k] = IF k <= sz THEN c[k] ELSE Null
  <2>1. \A k \in 1 .. N : Singly!at[k] = Along(c, sz, N)[k]
    BY <1>1, <1>2, <1>3, FollowersAgree
  <2> QED BY <2>1 DEF Along
<1>6. \A k \in 1 .. sz : c[k] \in alive
  BY DEF Links, Members
<1>7. Null \notin alive
  BY NullIsNoNode DEF Links, Members
<1>8. Singly!Chain = 1 .. sz
  BY <1>1, <1>4, <1>5, <1>6, <1>7 DEF Singly!Chain
<1>9. Singly!Elements = [k \in 1 .. sz |-> nodeElem[c[k]]]
  BY <1>1, <1>5, <1>8 DEF Singly!Elements
<1> QED BY <1>4, <1>5, <1>8, <1>9 DEF N

LEMMA SllNext ==
  ASSUME NEW c, Links(c, sz', head', tail', alive', next')
  PROVE  Singly!Elements' = [k \in 1 .. sz' |-> nodeElem'[c[k]]]
<1> DEFINE N == Singly!Cardinality(Nodes) + 1
<1>1. N \in Nat \ {0} /\ sz' \in Nat /\ sz' < N
  BY ChainFits
<1>2. Follows(Along(c, sz', N), N, head', alive', next')
  <2> HIDE DEF N
  <2> QED BY <1>1, AlongFollows
<1>3. Follows(Singly!at', N, head', alive', next')
  BY <1>2, FollowerChosen DEF Singly!at
<1>4. DOMAIN Singly!at' = 1 .. N
  BY <1>3 DEF Follows
<1> HIDE DEF N
<1>5. \A k \in 1 .. N : Singly!at'[k] = IF k <= sz' THEN c[k] ELSE Null
  <2>1. \A k \in 1 .. N : Singly!at'[k] = Along(c, sz', N)[k]
    BY <1>1, <1>2, <1>3, FollowersAgree
  <2> QED BY <2>1 DEF Along
<1>6. \A k \in 1 .. sz' : c[k] \in alive'
  BY DEF Links, Members
<1>7. Null \notin alive'
  BY NullIsNoNode DEF Links, Members
<1>8. Singly!Chain' = 1 .. sz'
  BY <1>1, <1>4, <1>5, <1>6, <1>7 DEF Singly!Chain
<1> QED BY <1>1, <1>5, <1>8 DEF Singly!Elements

(* Where the nodes of Inserted and Removed come from *)
LEMMA InsertedAt ==
  ASSUME NEW m \in Nat, NEW c, NEW i \in 1 .. m + 1, NEW n
  PROVE  /\ \A k \in 1 .. i - 1 : k \in 1 .. m /\ Inserted(c, m, i, n)[k] = c[k]
         /\ Inserted(c, m, i, n)[i] = n
         /\ \A k \in i + 1 .. m + 1 : k - 1 \in 1 .. m /\ Inserted(c, m, i, n)[k] = c[k - 1]
BY DEF Inserted

LEMMA RemovedAt ==
  ASSUME NEW m \in Nat, NEW c, NEW i \in 1 .. m
  PROVE  /\ \A k \in 1 .. i - 1 : k \in 1 .. m - 1 /\ Removed(c, m, i)[k] = c[k]
         /\ \A k \in i .. m - 1 : k + 1 \in 1 .. m /\ Removed(c, m, i)[k] = c[k + 1]
BY DEF Removed

(* A node that is put in at i leads to the one that was there, and the one
   before leads to it. *)
LEMMA LinksAfterInsert ==
  ASSUME NEW c, NEW m \in Nat, NEW h, NEW t, NEW A, NEW nx, Links(c, m, h, t, A, nx),
         NEW i \in 1 .. m + 1, NEW n \in Nodes \ A,
         NEW nx2 \in [Nodes -> Nodes \cup {Null}],
         nx2[n] = IF i <= m THEN c[i] ELSE Null,
         i > 1 => nx2[c[i - 1]] = n,
         \A k \in 1 .. m : k # i - 1 => nx2[c[k]] = nx[c[k]]
  PROVE  Links(Inserted(c, m, i, n), m + 1,
               IF i = 1 THEN n ELSE h, IF i = m + 1 THEN n ELSE t, A \cup {n}, nx2)
<1> DEFINE d == Inserted(c, m, i, n)
<1>1. /\ m \in Nat /\ c \in [1 .. m -> Nodes] /\ Distinct(c, m) /\ A = Members(c, m)
      /\ m = 0 => h = Null /\ t = Null
      /\ m # 0 => h = c[1] /\ t = c[m] /\ nx[c[m]] = Null
      /\ \A k \in 1 .. m - 1 : nx[c[k]] = c[k + 1]
  BY DEF Links
<1>2. /\ d \in [1 .. m + 1 -> Nodes] /\ Distinct(d, m + 1)
      /\ Members(d, m + 1) = A \cup {n}
  <2>1. n \in Nodes /\ n \notin Members(c, m)
    BY <1>1
  <2>2. c \in [1 .. m -> Nodes] /\ Distinct(c, m)
    BY <1>1
  <2>3. /\ d \in [1 .. m + 1 -> Nodes] /\ Distinct(d, m + 1)
        /\ Members(d, m + 1) = Members(c, m) \cup {n}
    BY <2>1, <2>2, InsertedIsDistinct, InsertedMembers
  <2> QED BY <1>1, <2>3
<1>3. /\ \A k \in 1 .. i - 1 : k \in 1 .. m /\ d[k] = c[k]
      /\ d[i] = n
      /\ \A k \in i + 1 .. m + 1 : k - 1 \in 1 .. m /\ d[k] = c[k - 1]
  BY <1>1, InsertedAt
<1> HIDE DEF d
<1>4. (IF i = 1 THEN n ELSE h) = d[1]
  <2>1. CASE i = 1
    BY <1>3, <2>1
  <2>2. CASE i # 1
    <3>1. 1 \in 1 .. i - 1 /\ m # 0
      BY <1>1, <2>2
    <3> QED BY <1>1, <1>3, <2>2, <3>1
  <2> QED BY <2>1, <2>2
<1>5. (IF i = m + 1 THEN n ELSE t) = d[m + 1] /\ nx2[d[m + 1]] = Null
  <2>1. CASE i = m + 1
    BY <1>1, <1>3, <2>1
  <2>2. CASE i # m + 1
    <3>1. m + 1 \in i + 1 .. m + 1 /\ m # 0 /\ m \in 1 .. m /\ m # i - 1 /\ m + 1 - 1 = m
      BY <1>1, <2>2
    <3> QED BY <1>1, <1>3, <2>2, <3>1
  <2> QED BY <2>1, <2>2
<1>6. ASSUME NEW k \in 1 .. m PROVE nx2[d[k]] = d[k + 1]
  <2>0. k \in Nat /\ i \in Nat
    BY <1>1
  <2>1. CASE k < i - 1
    <3>1. k \in 1 .. i - 1 /\ k + 1 \in 1 .. i - 1 /\ k \in 1 .. m - 1 /\ k # i - 1
      BY <1>1, <2>0, <2>1
    <3> QED BY <1>1, <1>3, <3>1
  <2>2. CASE k = i - 1
    <3>1. i - 1 \in 1 .. i - 1 /\ i > 1 /\ k + 1 = i
      BY <1>1, <2>0, <2>2
    <3> QED BY <1>3, <2>2, <3>1
  <2>3. CASE k = i
    <3>1. k + 1 \in i + 1 .. m + 1 /\ i <= m /\ k + 1 - 1 = i
      BY <1>1, <2>0, <2>3
    <3> QED BY <1>3, <2>3, <3>1
  <2>4. CASE k > i
    <3>1. /\ k \in i + 1 .. m + 1 /\ k + 1 \in i + 1 .. m + 1
          /\ k - 1 \in 1 .. m - 1 /\ k - 1 \in 1 .. m /\ k - 1 # i - 1
          /\ k + 1 - 1 = k /\ k - 1 + 1 = k
      BY <1>1, <2>0, <2>4
    <3> QED BY <1>1, <1>3, <3>1
  <2> QED BY <2>0, <2>1, <2>2, <2>3, <2>4
<1>7. m + 1 \in Nat /\ m + 1 # 0 /\ m + 1 - 1 = m
  BY <1>1
<1>8. Links(d, m + 1, IF i = 1 THEN n ELSE h, IF i = m + 1 THEN n ELSE t, A \cup {n}, nx2)
  BY <1>2, <1>4, <1>5, <1>6, <1>7 DEF Links
<1> QED BY <1>8 DEF d

(* Where a node is taken out, the one before it leads to the one after it. *)
LEMMA LinksAfterRemove ==
  ASSUME NEW c, NEW m \in Nat, NEW h, NEW t, NEW A, NEW nx, Links(c, m, h, t, A, nx),
         NEW i \in 1 .. m, NEW nx2 \in [Nodes -> Nodes \cup {Null}],
         i > 1 => nx2[c[i - 1]] = IF i < m THEN c[i + 1] ELSE Null,
         \A k \in 1 .. m : k \notin {i - 1, i} => nx2[c[k]] = nx[c[k]]
  PROVE  Links(Removed(c, m, i), m - 1,
               IF m = 1 THEN Null ELSE IF i = 1 THEN c[2] ELSE h,
               IF m = 1 THEN Null ELSE IF i = m THEN c[m - 1] ELSE t,
               A \ {c[i]}, nx2)
<1> DEFINE d == Removed(c, m, i)
           first_ == IF m = 1 THEN Null ELSE IF i = 1 THEN c[2] ELSE h
           last_ == IF m = 1 THEN Null ELSE IF i = m THEN c[m - 1] ELSE t
<1>1. /\ m \in Nat /\ c \in [1 .. m -> Nodes] /\ Distinct(c, m) /\ A = Members(c, m)
      /\ m # 0 => h = c[1] /\ t = c[m] /\ nx[c[m]] = Null
      /\ \A k \in 1 .. m - 1 : nx[c[k]] = c[k + 1]
  BY DEF Links
<1>2. /\ d \in [1 .. m - 1 -> Nodes] /\ Distinct(d, m - 1)
      /\ Members(d, m - 1) = A \ {c[i]}
  <2>1. c \in [1 .. m -> Nodes] /\ Distinct(c, m)
    BY <1>1
  <2>2. d \in [1 .. m - 1 -> Nodes] /\ Distinct(d, m - 1)
    BY <2>1, RemovedIsDistinct
  <2>3. Members(d, m - 1) = Members(c, m) \ {c[i]}
    BY <2>1, RemovedMembers
  <2> QED BY <1>1, <2>2, <2>3
<1>3. /\ \A k \in 1 .. i - 1 : k \in 1 .. m - 1 /\ d[k] = c[k]
      /\ \A k \in i .. m - 1 : k + 1 \in 1 .. m /\ d[k] = c[k + 1]
  BY <1>1, RemovedAt
<1>4. m \in Nat /\ m - 1 \in Nat /\ i \in Nat /\ i >= 1 /\ i <= m /\ m # 0
  BY <1>1
<1> HIDE DEF d
<1>5. ASSUME m # 1
      PROVE  first_ = d[1] /\ last_ = d[m - 1] /\ nx2[d[m - 1]] = Null
  <2>1. first_ = d[1]
    <3>1. CASE i = 1
      <4>1. 1 \in i .. m - 1
        BY <1>4, <1>5, <3>1
      <4> QED BY <1>3, <1>5, <3>1, <4>1
    <3>2. CASE i # 1
      <4>1. 1 \in 1 .. i - 1
        BY <1>4, <3>2
      <4> QED BY <1>1, <1>3, <1>4, <1>5, <3>2, <4>1
    <3> QED BY <3>1, <3>2
  <2>2. CASE i = m
    <3>1. m - 1 \in 1 .. i - 1 /\ i > 1 /\ ~(i < m)
      BY <1>4, <1>5, <2>2
    <3> QED BY <1>3, <1>5, <2>1, <2>2, <3>1
  <2>3. CASE i # m
    <3>1. m - 1 \in i .. m - 1 /\ m - 1 + 1 = m /\ m \in 1 .. m
      BY <1>4, <2>3
    <3>2. d[m - 1] = c[m]
      BY <1>3, <3>1
    <3>3. m \notin {i - 1, i}
      BY <1>4, <2>3
    <3> QED BY <1>1, <1>4, <1>5, <2>1, <2>3, <3>1, <3>2, <3>3
  <2> QED BY <2>2, <2>3
<1>6. ASSUME NEW k \in 1 .. m - 1 - 1 PROVE nx2[d[k]] = d[k + 1]
  <2>0. k \in Nat
    BY <1>4
  <2>1. CASE k < i - 1
    <3>1. /\ k \in 1 .. i - 1 /\ k + 1 \in 1 .. i - 1 /\ k \in 1 .. m - 1 /\ k \in 1 .. m
          /\ k \notin {i - 1, i}
      BY <1>4, <2>0, <2>1
    <3> QED BY <1>1, <1>3, <3>1
  <2>2. CASE k = i - 1
    <3>1. i - 1 \in 1 .. i - 1 /\ k + 1 = i /\ i \in i .. m - 1 /\ i > 1 /\ i < m
      BY <1>4, <2>0, <2>2
    <3> QED BY <1>3, <2>2, <3>1
  <2>3. CASE k >= i
    <3>1. /\ k \in i .. m - 1 /\ k + 1 \in i .. m - 1
          /\ k + 1 \in 1 .. m - 1 /\ k + 1 \in 1 .. m
          /\ k + 1 \notin {i - 1, i}
      BY <1>4, <2>0, <2>3
    <3> QED BY <1>1, <1>3, <3>1
  <2> QED BY <1>4, <2>0, <2>1, <2>2, <2>3
<1>7. m = 1 => first_ = Null /\ last_ = Null
  OBVIOUS
<1>8. (m - 1 = 0) <=> (m = 1)
  BY <1>4
<1> HIDE DEF first_, last_
<1>9. Links(d, m - 1, first_, last_, A \ {c[i]}, nx2)
  BY <1>2, <1>4, <1>5, <1>6, <1>7, <1>8 DEF Links
<1> QED BY <1>9 DEF d, first_, last_

(* The elements of a list whose nodes are those of c *)
ElementsAlong(el, c, m) == [k \in 1 .. m |-> el[c[k]]]

LEMMA ElementsAfterInsert ==
  ASSUME NEW m \in Nat, NEW c, NEW i \in 1 .. m + 1, NEW n, NEW el
  PROVE  ElementsAlong(el, Inserted(c, m, i, n), m + 1)
           = Inserted(ElementsAlong(el, c, m), m, i, el[n])
<1> DEFINE d == Inserted(c, m, i, n)
           E == ElementsAlong(el, c, m)
<1>1. \A k \in 1 .. m : E[k] = el[c[k]]
  BY DEF ElementsAlong
<1>3. /\ \A k \in 1 .. i - 1 : k \in 1 .. m /\ d[k] = c[k]
      /\ d[i] = n
      /\ \A k \in i + 1 .. m + 1 : k - 1 \in 1 .. m /\ d[k] = c[k - 1]
  BY DEF Inserted
<1>2. ASSUME NEW k \in 1 .. m + 1
      PROVE  el[d[k]] = IF k < i THEN E[k] ELSE IF k = i THEN el[n] ELSE E[k - 1]
  <2> HIDE DEF d, E
  <2>0. k \in Nat /\ i \in Nat
    OBVIOUS
  <2>1. CASE k < i
    <3>1. k \in 1 .. m /\ d[k] = c[k]
      BY <1>3, <2>1
    <3> QED BY <1>1, <2>1, <3>1
  <2>2. CASE k = i
    BY <1>3, <2>2
  <2>3. CASE k > i
    <3>1. k - 1 \in 1 .. m /\ d[k] = c[k - 1]
      BY <1>3, <2>3
    <3> QED BY <1>1, <2>3, <3>1
  <2> QED BY <2>0, <2>1, <2>2, <2>3
<1> QED BY <1>2 DEF ElementsAlong, Inserted

LEMMA ElementsAfterRemove ==
  ASSUME NEW m \in Nat, NEW c, NEW i \in 1 .. m, NEW el
  PROVE  ElementsAlong(el, Removed(c, m, i), m - 1) = Removed(ElementsAlong(el, c, m), m, i)
<1> DEFINE d == Removed(c, m, i)
           E == ElementsAlong(el, c, m)
<1>1. \A k \in 1 .. m : E[k] = el[c[k]]
  BY DEF ElementsAlong
<1>2. ASSUME NEW k \in 1 .. m - 1
      PROVE  el[d[k]] = IF k < i THEN E[k] ELSE E[k + 1]
  <2> HIDE DEF E
  <2>1. CASE k < i
    <3>1. k \in 1 .. m /\ d[k] = c[k]
      BY <2>1, RemovedAt
    <3> QED BY <1>1, <2>1, <3>1
  <2>2. CASE k >= i
    <3>1. k + 1 \in 1 .. m /\ d[k] = c[k + 1]
      BY <2>2, RemovedAt
    <3>2. ~(k < i)
      BY <2>2
    <3> HIDE DEF d
    <3> QED BY <1>1, <3>1, <3>2
  <2> QED BY <2>1, <2>2
<1> QED BY <1>2 DEF ElementsAlong, Removed

LEMMA InitSll == Singly!Init => SllInv
<1> SUFFICES ASSUME Singly!Init PROVE SllGood
  BY DEF SllInv
<1>1. /\ head = Null /\ tail = Null /\ sz = 0 /\ alive = {}
      /\ next = [n \in Nodes |-> Null] /\ outcome = "ok"
      /\ nodeElem = [n \in Nodes |-> CHOOSE v \in Values : TRUE]
  BY DEF Singly!Init
<1> DEFINE c == [k \in 1 .. 0 |-> Null]
<1>2. c \in [1 .. 0 -> Nodes] /\ Distinct(c, 0) /\ Members(c, 0) = {}
  BY DEF Distinct, Members
<1>3. next \in [Nodes -> Nodes \cup {Null}]
  BY <1>1
<1> HIDE DEF c
<1>4. Links(c, sz, head, tail, alive, next)
  BY <1>1, <1>2, <1>3 DEF Links
<1>5. nodeElem = [n \in Nodes |-> nodeElem[n]]
  <2> DEFINE v0 == CHOOSE v \in Values : TRUE
  <2>1. nodeElem = [n \in Nodes |-> v0]
    BY <1>1
  <2> HIDE DEF v0
  <2> QED BY <2>1
<1> QED BY <1>1, <1>4, <1>5 DEF SllGood

(* What an insertion and a removal do to the list *)
SllPutIn(c, i, n, v) ==
  /\ Links(c, sz, head, tail, alive, next)
  /\ i \in 1 .. sz + 1 /\ n \in Nodes \ alive /\ v \in Values
  /\ next' \in [Nodes -> Nodes \cup {Null}]
  /\ next'[n] = IF i <= sz THEN c[i] ELSE Null
  /\ i > 1 => next'[c[i - 1]] = n
  /\ \A k \in 1 .. sz : k # i - 1 => next'[c[k]] = next[c[k]]
  /\ head' = IF i = 1 THEN n ELSE head
  /\ tail' = IF i = sz + 1 THEN n ELSE tail
  /\ alive' = alive \cup {n} /\ sz' = sz + 1 /\ outcome' = "ok"
  /\ nodeElem' = [nodeElem EXCEPT ![n] = v]

SllTakenOut(c, i) ==
  /\ Links(c, sz, head, tail, alive, next)
  /\ i \in 1 .. sz
  /\ next' \in [Nodes -> Nodes \cup {Null}]
  /\ i > 1 => next'[c[i - 1]] = IF i < sz THEN c[i + 1] ELSE Null
  /\ \A k \in 1 .. sz : k \notin {i - 1, i} => next'[c[k]] = next[c[k]]
  /\ head' = IF sz = 1 THEN Null ELSE IF i = 1 THEN c[2] ELSE head
  /\ tail' = IF sz = 1 THEN Null ELSE IF i = sz THEN c[sz - 1] ELSE tail
  /\ alive' = alive \ {c[i]} /\ sz' = sz - 1 /\ outcome' = "ok"
  /\ UNCHANGED nodeElem

LEMMA SllInserts ==
  ASSUME SllGood, NEW c, NEW i, NEW n, NEW v, SllPutIn(c, i, n, v)
  PROVE  /\ SllGood'
         /\ Singly!Elements \in [1 .. sz -> Values]
         /\ Singly!Elements' = Inserted(Singly!Elements, sz, i, v)
<1> DEFINE d == Inserted(c, sz, i, n)
           nx2 == next'
<1> USE DEF SllPutIn
<1>1. sz \in Nat /\ alive \subseteq Nodes /\ \A k \in 1 .. sz : c[k] \in alive
  BY DEF Links, Members
<1>2. Links(d, sz', head', tail', alive', next')
  <2>1. Links(d, sz + 1, IF i = 1 THEN n ELSE head, IF i = sz + 1 THEN n ELSE tail,
              alive \cup {n}, nx2)
    <3> HIDE DEF d
    <3>1. nx2 \in [Nodes -> Nodes \cup {Null}] /\ nx2[n] = IF i <= sz THEN c[i] ELSE Null
      OBVIOUS
    <3>2. /\ i > 1 => nx2[c[i - 1]] = n
          /\ \A k \in 1 .. sz : k # i - 1 => nx2[c[k]] = next[c[k]]
      OBVIOUS
    <3> HIDE DEF nx2
    <3> QED BY <1>1, <3>1, <3>2, LinksAfterInsert DEF d
  <2> QED BY <2>1
<1>3. /\ nodeElem'[n] = v /\ \A m \in alive : nodeElem'[m] = nodeElem[m]
      /\ nodeElem' = [m \in Nodes |-> nodeElem'[m]]
      /\ \A m \in alive : nodeElem[m] \in Values
  BY <1>1 DEF SllGood
<1>4. SllGood'
  <2>1. \A m \in alive' : nodeElem'[m] \in Values
    BY <1>3
  <2> QED BY <1>2, <1>3, <2>1 DEF SllGood
<1>5. Singly!Elements = ElementsAlong(nodeElem, c, sz)
  BY SllNow DEF ElementsAlong
<1>6. Singly!Elements' = ElementsAlong(nodeElem', d, sz + 1)
  <2>1. sz' = sz + 1
    OBVIOUS
  <2>2. PICK b : b = d
    OBVIOUS
  <2> HIDE DEF SllPutIn, d
  <2>3. Links(b, sz', head', tail', alive', next')
    BY <1>2, <2>2
  <2>4. Singly!Elements' = [k \in 1 .. sz' |-> nodeElem'[b[k]]]
    BY <2>3, SllNext
  <2> QED BY <2>1, <2>2, <2>4 DEF ElementsAlong
<1> HIDE DEF d
<1>7. Singly!Elements \in [1 .. sz -> Values]
  BY <1>1, <1>3, <1>5 DEF ElementsAlong
<1> DEFINE el2 == nodeElem'
<1>8. ElementsAlong(el2, c, sz) = ElementsAlong(nodeElem, c, sz)
  BY <1>1, <1>3 DEF ElementsAlong
<1>9. ElementsAlong(el2, d, sz + 1) = Inserted(ElementsAlong(el2, c, sz), sz, i, el2[n])
  <2> HIDE DEF el2
  <2> QED BY <1>1, ElementsAfterInsert DEF d
<1> QED BY <1>3, <1>4, <1>5, <1>6, <1>7, <1>8, <1>9

LEMMA SllRemoves ==
  ASSUME SllGood, NEW c, NEW i, SllTakenOut(c, i)
  PROVE  /\ SllGood'
         /\ Singly!Elements \in [1 .. sz -> Values]
         /\ Singly!Elements' = Removed(Singly!Elements, sz, i)
<1> DEFINE d == Removed(c, sz, i)
           nx2 == next'
<1> USE DEF SllTakenOut
<1>1. sz \in Nat /\ alive \subseteq Nodes /\ \A k \in 1 .. sz : c[k] \in alive
  BY DEF Links, Members
<1>2. Links(d, sz', head', tail', alive', next')
  <2>1. Links(d, sz - 1, IF sz = 1 THEN Null ELSE IF i = 1 THEN c[2] ELSE head,
              IF sz = 1 THEN Null ELSE IF i = sz THEN c[sz - 1] ELSE tail,
              alive \ {c[i]}, nx2)
    <3> HIDE DEF d
    <3>1. nx2 \in [Nodes -> Nodes \cup {Null}]
      OBVIOUS
    <3>2. /\ i > 1 => nx2[c[i - 1]] = IF i < sz THEN c[i + 1] ELSE Null
          /\ \A k \in 1 .. sz : k \notin {i - 1, i} => nx2[c[k]] = next[c[k]]
      OBVIOUS
    <3> HIDE DEF nx2
    <3> QED BY <1>1, <3>1, <3>2, LinksAfterRemove DEF d
  <2> QED BY <2>1
<1>3. /\ nodeElem' = [m \in Nodes |-> nodeElem'[m]]
      /\ \A m \in alive : nodeElem[m] \in Values
  BY DEF SllGood
<1>4. SllGood'
  BY <1>2, <1>3 DEF SllGood
<1>5. Singly!Elements = ElementsAlong(nodeElem, c, sz)
  BY SllNow DEF ElementsAlong
<1>6. Singly!Elements' = ElementsAlong(nodeElem', d, sz - 1)
  BY <1>2, SllNext DEF ElementsAlong
<1> HIDE DEF d
<1>7. Singly!Elements \in [1 .. sz -> Values]
  BY <1>1, <1>3, <1>5 DEF ElementsAlong
<1>8. ElementsAlong(nodeElem', d, sz - 1) = Removed(ElementsAlong(nodeElem, c, sz), sz, i)
  BY <1>1, ElementsAfterRemove DEF d
<1> QED BY <1>4, <1>5, <1>6, <1>7, <1>8

(* An element put in at a place where a list may get one, or taken out where
   one may go, is a step of the abstract list. *)
LEMMA InsertedNextAfter ==
  ASSUME NEW m \in Nat, Singly!Elements \in [1 .. m -> Values],
         NEW i \in 1 .. m + 1, NEW v \in Values,
         Singly!Elements' = Inserted(Singly!Elements, m, i, v),
         i \in {1, m + 1} \/ i - 1 \in Singly!L!Firsts(Singly!Elements)
  PROVE  Singly!L!NextAfter
<1> DEFINE e == Singly!Elements
<1>1. e \in [1 .. m -> Values]
  OBVIOUS
<1>2. CASE i = 1
  <2>1. e' = <<v>> \o e
    BY <1>1, <1>2, PrependIsInserted
  <2> QED BY <2>1 DEF Singly!L!NextAfter, Singly!L!Outcomes, Singly!L!AddedFirst
<1>3. CASE i = m + 1
  <2>1. e' = Append(e, v)
    BY <1>1, <1>3, AppendIsInserted
  <2> QED BY <2>1 DEF Singly!L!NextAfter, Singly!L!Outcomes, Singly!L!AddedLast
<1>4. CASE i - 1 \in Singly!L!Firsts(e)
  <2>1. e' = SubSeq(e, 1, i - 1) \o <<v>> \o SubSeq(e, i, Len(e))
    <3> HIDE DEF e
    <3>1. SubSeq(e, 1, i - 1) \o <<v>> \o SubSeq(e, i, Len(e)) = Inserted(e, m, i, v)
      BY <1>1, InsertAtIsInserted
    <3> QED BY <3>1 DEF e
  <2>2. i - 1 + 1 = i
    OBVIOUS
  <2>3. e' = Singly!L!InsertAt(e, i - 1 + 1, v)
    BY <2>1, <2>2 DEF Singly!L!InsertAt
  <2> HIDE DEF e
  <2>4. e' \in Singly!L!AddedAfter(e)
    BY <1>4, <2>3 DEF Singly!L!AddedAfter
  <2> QED BY <2>4, Zenon DEF Singly!L!NextAfter, e
<1> QED BY <1>2, <1>3, <1>4

LEMMA RemovedNextAfter ==
  ASSUME NEW m \in Nat, Singly!Elements \in [1 .. m -> Values], NEW i \in 1 .. m,
         Singly!Elements' = Removed(Singly!Elements, m, i),
         i \in {1, m} \/ i \in Singly!L!Firsts(Singly!Elements)
  PROVE  Singly!L!NextAfter
<1> DEFINE e == Singly!Elements
<1>1. e \in [1 .. m -> Values] /\ m \in Nat \ {0} /\ DOMAIN e = 1 .. m
  OBVIOUS
<1>2. CASE i = 1
  <2>1. e' = Tail(e)
    BY <1>1, <1>2, TailIsRemoved
  <2> QED BY <1>1, <2>1 DEF Singly!L!NextAfter, Singly!L!Outcomes, Singly!L!FirstRemoved
<1>3. CASE i = m
  <2>1. e' = SubSeq(e, 1, Len(e) - 1)
    BY <1>1, <1>3, FrontIsRemoved
  <2>2. e' = Singly!L!Front(e)
    BY <2>1 DEF Singly!L!Front
  <2> QED BY <1>1, <2>2 DEF Singly!L!NextAfter, Singly!L!Outcomes, Singly!L!LastRemoved
<1>4. CASE i \in Singly!L!Firsts(e)
  <2>1. e' = SubSeq(e, 1, i - 1) \o SubSeq(e, i + 1, Len(e))
    <3> HIDE DEF e
    <3>1. SubSeq(e, 1, i - 1) \o SubSeq(e, i + 1, Len(e)) = Removed(e, m, i)
      BY <1>1, RemoveAtIsRemoved
    <3> QED BY <3>1 DEF e
  <2>2. e' = Singly!L!RemoveAt(e, i)
    BY <2>1 DEF Singly!L!RemoveAt
  <2> HIDE DEF e
  <2>3. e' \in Singly!L!TargetRemoved(e)
    BY <1>4, <2>2, Zenon DEF Singly!L!TargetRemoved
  <2> QED BY <2>3, Zenon DEF Singly!L!NextAfter, Singly!L!Outcomes, e
<1> QED BY <1>2, <1>3, <1>4

(* Where a search ends *)
LEMMA SllFound ==
  ASSUME NEW c, Links(c, sz, head, tail, alive, next), NEW k, NEW v, Singly!FoundAt(k, v)
  PROVE  /\ k \in 1 .. sz /\ Singly!at[k] = c[k]
         /\ nodeElem[c[k]] = v /\ \A j \in 1 .. k - 1 : nodeElem[c[j]] # v
         /\ k > 1 => k - 1 \in 1 .. sz /\ Singly!at[k - 1] = c[k - 1]
<1> DEFINE N == Singly!Cardinality(Nodes) + 1
<1>1. /\ DOMAIN Singly!at = 1 .. N /\ sz \in Nat /\ N \in Nat /\ sz < N
      /\ \A j \in 1 .. N : Singly!at[j] = IF j <= sz THEN c[j] ELSE Null
  <2>1. sz \in Nat /\ Singly!Cardinality(Nodes) \in Nat /\ sz <= Singly!Cardinality(Nodes)
    BY ChainFits
  <2> QED BY <2>1, SllNow
<1> HIDE DEF N
<1>2. /\ k \in 1 .. N /\ Singly!at[k] \in alive /\ nodeElem[Singly!at[k]] = v
      /\ \A j \in 1 .. k - 1 : nodeElem[Singly!at[j]] # v
  BY <1>1 DEF Singly!FoundAt
<1>3. Null \notin alive
  BY NullIsNoNode DEF Links, Members
<1>4. k \in 1 .. sz
  BY <1>1, <1>2, <1>3
<1>5. ASSUME NEW j \in 1 .. k PROVE Singly!at[j] = c[j]
  <2>1. j \in 1 .. N /\ j <= sz
    BY <1>1, <1>4
  <2> QED BY <1>1, <2>1
<1>6. k \in 1 .. k /\ \A j \in 1 .. k - 1 : j \in 1 .. k
  BY <1>4
<1>7. k > 1 => k - 1 \in 1 .. sz /\ k - 1 \in 1 .. k
  BY <1>1, <1>4
<1> QED BY <1>2, <1>4, <1>5, <1>6, <1>7

LEMMA SllFoundFirst ==
  ASSUME NEW c, Links(c, sz, head, tail, alive, next), NEW k, NEW v, Singly!FoundAt(k, v)
  PROVE  k \in Singly!L!Firsts(Singly!Elements)
<1>1. Singly!Elements = [j \in 1 .. sz |-> nodeElem[c[j]]]
  BY SllNow
<1>2. /\ k \in 1 .. sz /\ nodeElem[c[k]] = v /\ \A j \in 1 .. k - 1 : nodeElem[c[j]] # v
  BY SllFound
<1>3. sz \in Nat /\ \A j \in 1 .. k - 1 : j \in 1 .. sz
  BY <1>2 DEF Links
<1> QED BY <1>1, <1>2, <1>3 DEF Singly!L!Firsts

LEMMA SllFoundOnce ==
  ASSUME NEW c, Links(c, sz, head, tail, alive, next), NEW k, NEW i, NEW v,
         Singly!FoundAt(k, v), Singly!FoundAt(i, v)
  PROVE  k = i
<1>1. /\ k \in 1 .. sz /\ nodeElem[c[k]] = v /\ \A j \in 1 .. k - 1 : nodeElem[c[j]] # v
  BY SllFound
<1>2. /\ i \in 1 .. sz /\ nodeElem[c[i]] = v /\ \A j \in 1 .. i - 1 : nodeElem[c[j]] # v
  BY SllFound
<1>3. sz \in Nat
  BY DEF Links
<1>4. ~(k < i) /\ ~(i < k)
  BY <1>1, <1>2, <1>3
<1> QED BY <1>1, <1>2, <1>3, <1>4

(* What the invariant says in careful hands, of the list with nodes c *)
LEMMA SllParts ==
  ASSUME NEW c, Links(c, sz, head, tail, alive, next)
  PROVE  /\ sz \in Nat /\ c \in [1 .. sz -> Nodes]
         /\ \A j, k \in 1 .. sz : c[j] = c[k] => j = k
         /\ alive \subseteq Nodes /\ \A k \in 1 .. sz : c[k] \in alive
         /\ \A n \in alive : \E k \in 1 .. sz : n = c[k]
         /\ next \in [Nodes -> Nodes \cup {Null}]
         /\ sz = 0 => head = Null /\ tail = Null
         /\ sz # 0 => head = c[1] /\ tail = c[sz] /\ next[c[sz]] = Null
         /\ \A k \in 1 .. sz - 1 : next[c[k]] = c[k + 1]
         /\ Null \notin Nodes
BY NullIsNoNode DEF Links, Members, Distinct

SllStep == SllGood' /\ (Singly!L!NextAfter \/ UNCHANGED Singly!Elements)

LEMMA SllAddFirst ==
  ASSUME SllGood, NEW v \in Values, Singly!addFirst(v)
  PROVE  SllStep
<1>1. PICK c : Links(c, sz, head, tail, alive, next)
  BY DEF SllGood
<1>2. PICK n \in Nodes \ alive :
        /\ alive' = alive \cup {n}
        /\ nodeElem' = [nodeElem EXCEPT ![n] = v]
        /\ next' = [next EXCEPT ![n] = IF sz = 0 THEN Null ELSE head]
        /\ head' = n
        /\ tail' = IF sz = 0 THEN n ELSE tail
  BY DEF Singly!addFirst, Singly!isEmpty
<1>3. sz' = sz + 1 /\ outcome' = "ok"
  BY DEF Singly!addFirst, Singly!Ok
<1>4. /\ sz \in Nat /\ \A k \in 1 .. sz : c[k] \in alive
      /\ next \in [Nodes -> Nodes \cup {Null}]
      /\ sz # 0 => head = c[1] /\ c[1] \in Nodes
  BY <1>1, SllParts
<1>5. /\ next' \in [Nodes -> Nodes \cup {Null}]
      /\ next'[n] = IF 1 <= sz THEN c[1] ELSE Null
      /\ \A k \in 1 .. sz : next'[c[k]] = next[c[k]]
  BY <1>2, <1>4
<1>6. /\ head' = IF 1 = 1 THEN n ELSE head
      /\ tail' = IF 1 = sz + 1 THEN n ELSE tail
  BY <1>2, <1>4
<1>7. 1 \in 1 .. sz + 1 /\ ~(1 > 1)
  BY <1>4
<1>8. /\ SllGood'
      /\ Singly!Elements \in [1 .. sz -> Values]
      /\ Singly!Elements' = Inserted(Singly!Elements, sz, 1, v)
  <2>1. SllPutIn(c, 1, n, v)
    BY <1>1, <1>2, <1>3, <1>5, <1>6, <1>7 DEF SllPutIn
  <2> QED BY <2>1, SllInserts
<1>9. Singly!L!NextAfter
  BY <1>4, <1>7, <1>8, InsertedNextAfter
<1> QED BY <1>8, <1>9 DEF SllStep

LEMMA SllAddLast ==
  ASSUME SllGood, NEW v \in Values, Singly!addLast(v)
  PROVE  SllStep
<1>1. PICK c : Links(c, sz, head, tail, alive, next)
  BY DEF SllGood
<1>4. /\ sz \in Nat /\ \A k \in 1 .. sz : c[k] \in alive
      /\ next \in [Nodes -> Nodes \cup {Null}]
      /\ \A j, k \in 1 .. sz : c[j] = c[k] => j = k
      /\ sz # 0 => tail = c[sz] /\ sz \in 1 .. sz /\ tail \in Nodes
      /\ alive \subseteq Nodes
  BY <1>1, SllParts
<1>2. PICK n \in Nodes \ alive :
        /\ alive' = alive \cup {n}
        /\ nodeElem' = [nodeElem EXCEPT ![n] = v]
        /\ next' = IF sz = 0 THEN [next EXCEPT ![n] = Null]
                   ELSE [next EXCEPT ![n] = Null, ![tail] = n]
        /\ head' = IF sz = 0 THEN n ELSE head
        /\ tail' = n
  BY <1>4 DEF Singly!addLast, Singly!isEmpty
<1>3. sz' = sz + 1 /\ outcome' = "ok"
  BY <1>4 DEF Singly!addLast, Singly!Ok, Singly!isEmpty
<1>5. next' \in [Nodes -> Nodes \cup {Null}]
  BY <1>2, <1>4
<1>6. next'[n] = IF sz + 1 <= sz THEN c[sz + 1] ELSE Null
  BY <1>2, <1>4
<1>7. sz + 1 > 1 => next'[c[sz + 1 - 1]] = n
  <2>1. sz + 1 > 1 => sz # 0 /\ sz + 1 - 1 = sz
    BY <1>4
  <2> QED BY <1>2, <1>4, <2>1
<1>8. ASSUME NEW k \in 1 .. sz, k # sz + 1 - 1 PROVE next'[c[k]] = next[c[k]]
  <2>1. c[k] # n /\ sz # 0 /\ c[k] \in Nodes
    BY <1>4
  <2>2. k # sz
    BY <1>4, <1>8
  <2>3. c[k] # tail
    BY <1>4, <2>1, <2>2
  <2> QED BY <1>2, <1>4, <2>1, <2>3
<1>9. /\ head' = IF sz + 1 = 1 THEN n ELSE head
      /\ tail' = IF sz + 1 = sz + 1 THEN n ELSE tail
      /\ sz + 1 \in 1 .. sz + 1
  BY <1>2, <1>4
<1>10. /\ SllGood'
       /\ Singly!Elements \in [1 .. sz -> Values]
       /\ Singly!Elements' = Inserted(Singly!Elements, sz, sz + 1, v)
  <2>1. /\ n \in Nodes \ alive /\ alive' = alive \cup {n}
        /\ nodeElem' = [nodeElem EXCEPT ![n] = v]
    BY <1>2
  <2> DEFINE i == sz + 1
  <2>2. /\ i > 1 => next'[c[i - 1]] = n
        /\ \A k \in 1 .. sz : k # i - 1 => next'[c[k]] = next[c[k]]
    BY <1>4, <1>7, <1>8
  <2>3. /\ i \in 1 .. sz + 1 /\ next'[n] = IF i <= sz THEN c[i] ELSE Null
        /\ head' = IF i = 1 THEN n ELSE head
        /\ tail' = IF i = sz + 1 THEN n ELSE tail
    BY <1>6, <1>9
  <2> HIDE DEF i
  <2>4. SllPutIn(c, i, n, v)
    BY <1>1, <1>3, <1>5, <2>1, <2>2, <2>3 DEF SllPutIn
  <2>5. SllPutIn(c, sz + 1, n, v)
    BY <2>4 DEF i
  <2> QED BY <2>5, SllInserts
<1>11. Singly!L!NextAfter
  BY <1>4, <1>9, <1>10, InsertedNextAfter
<1> QED BY <1>10, <1>11 DEF SllStep

LEMMA SllAddElemAfter ==
  ASSUME SllGood, NEW loc \in Values, NEW v \in Values, Singly!addElemAfter(loc, v),
         listCareful'
  PROVE  SllStep
<1>1. PICK c : Links(c, sz, head, tail, alive, next)
  BY DEF SllGood
<1>2. PICK i \in DOMAIN Singly!at : Singly!FoundAt(i, loc) /\ Singly!at[i] # tail
  BY DEF Singly!addElemAfter, Singly!IsThereNotLast
<1>3. PICK k \in DOMAIN Singly!at, n \in Nodes \ alive :
          /\ Singly!FoundAt(k, loc)
          /\ alive' = alive \cup {n}
          /\ nodeElem' = [nodeElem EXCEPT ![n] = v]
          /\ next' = [next EXCEPT ![n] = next[Singly!at[k]], ![Singly!at[k]] = n]
          /\ sz' = sz + 1
          /\ outcome' = "ok"
          /\ UNCHANGED <<head, tail>>
  BY <1>2 DEF Singly!addElemAfter, Singly!Found, Singly!Ok
<1>4. /\ sz \in Nat /\ \A j \in 1 .. sz : c[j] \in alive
      /\ next \in [Nodes -> Nodes \cup {Null}]
      /\ \A j, l \in 1 .. sz : c[j] = c[l] => j = l
      /\ sz # 0 => tail = c[sz]
      /\ alive \subseteq Nodes
      /\ \A j \in 1 .. sz - 1 : next[c[j]] = c[j + 1]
  BY <1>1, SllParts
<1>5. k \in 1 .. sz /\ Singly!at[k] = c[k] /\ c[k] # tail
  <2>1. k = i
    BY <1>1, <1>2, <1>3, SllFoundOnce
  <2> QED BY <1>1, <1>2, <1>3, <2>1, SllFound
<1>6. /\ k \in 1 .. sz - 1 /\ k + 1 \in 1 .. sz + 1 /\ k + 1 <= sz /\ k + 1 # 1
      /\ k + 1 # sz + 1 /\ k + 1 - 1 = k /\ k + 1 \in 1 .. sz
  BY <1>4, <1>5
<1>7. next' = [next EXCEPT ![n] = c[k + 1], ![c[k]] = n]
  BY <1>3, <1>4, <1>5, <1>6
<1>8. c[k] \in Nodes /\ c[k] # n /\ c[k + 1] \in Nodes
  BY <1>4, <1>5, <1>6
<1>9. /\ next' \in [Nodes -> Nodes \cup {Null}]
      /\ next'[n] = IF k + 1 <= sz THEN c[k + 1] ELSE Null
      /\ k + 1 > 1 => next'[c[k + 1 - 1]] = n
  BY <1>4, <1>6, <1>7, <1>8
<1>10. ASSUME NEW j \in 1 .. sz, j # k + 1 - 1 PROVE next'[c[j]] = next[c[j]]
  <2>1. c[j] # n /\ c[j] # c[k] /\ c[j] \in Nodes
    BY <1>4, <1>5, <1>6, <1>10
  <2> QED BY <1>4, <1>7, <2>1
<1>11. /\ head' = IF k + 1 = 1 THEN n ELSE head
       /\ tail' = IF k + 1 = sz + 1 THEN n ELSE tail
  BY <1>3, <1>6
<1>12. /\ SllGood'
       /\ Singly!Elements \in [1 .. sz -> Values]
       /\ Singly!Elements' = Inserted(Singly!Elements, sz, k + 1, v)
  <2>1. /\ n \in Nodes \ alive /\ alive' = alive \cup {n}
        /\ nodeElem' = [nodeElem EXCEPT ![n] = v]
        /\ sz' = sz + 1 /\ outcome' = "ok"
    BY <1>3
  <2> DEFINE p == k + 1
  <2>2. /\ p > 1 => next'[c[p - 1]] = n
        /\ \A j \in 1 .. sz : j # p - 1 => next'[c[j]] = next[c[j]]
    BY <1>4, <1>5, <1>9, <1>10
  <2>3. /\ p \in 1 .. sz + 1 /\ next'[n] = IF p <= sz THEN c[p] ELSE Null
        /\ head' = IF p = 1 THEN n ELSE head
        /\ tail' = IF p = sz + 1 THEN n ELSE tail
    BY <1>6, <1>9, <1>11
  <2> HIDE DEF p
  <2>4. SllPutIn(c, p, n, v)
    BY <1>1, <1>9, <2>1, <2>2, <2>3 DEF SllPutIn
  <2>5. SllPutIn(c, k + 1, n, v)
    BY <2>4 DEF p
  <2> QED BY <2>5, SllInserts
<1>13. k + 1 - 1 \in Singly!L!Firsts(Singly!Elements)
  BY <1>1, <1>3, <1>6, SllFoundFirst
<1>14. Singly!L!NextAfter
  BY <1>4, <1>6, <1>12, <1>13, InsertedNextAfter
<1> QED BY <1>12, <1>14 DEF SllStep

(* The list stays as it is *)
LEMMA SllSame ==
  ASSUME SllGood, UNCHANGED <<head, tail, sz, alive, nodeElem, next>>, outcome' # "ub"
  PROVE  SllStep
<1>1. PICK c : Links(c, sz, head, tail, alive, next)
  BY DEF SllGood
<1>2. Links(c, sz', head', tail', alive', next')
  BY <1>1
<1>3. SllGood'
  BY <1>2 DEF SllGood
<1>4. Singly!Elements = [k \in 1 .. sz |-> nodeElem[c[k]]]
  BY <1>1, SllNow
<1>5. Singly!Elements' = [k \in 1 .. sz' |-> nodeElem'[c[k]]]
  BY <1>2, SllNext
<1> QED BY <1>3, <1>4, <1>5 DEF SllStep

LEMMA SllDropHead ==
  ASSUME SllGood, sz # 0, Singly!DropHead
  PROVE  SllStep
<1>1. PICK c : Links(c, sz, head, tail, alive, next)
  BY DEF SllGood
<1>2. /\ sz \in Nat /\ 1 \in 1 .. sz /\ head = c[1] /\ head \in alive /\ tail = c[sz]
      /\ next \in [Nodes -> Nodes \cup {Null}]
      /\ sz > 1 => next[c[1]] = c[2]
  <2>1. sz \in Nat /\ 1 \in 1 .. sz /\ head = c[1] /\ head \in alive /\ tail = c[sz]
        /\ next \in [Nodes -> Nodes \cup {Null}]
    BY <1>1, SllParts
  <2>2. sz > 1 => 1 \in 1 .. sz - 1 /\ 1 + 1 = 2
    BY <2>1
  <2>3. \A k \in 1 .. sz - 1 : next[c[k]] = c[k + 1]
    BY <1>1, SllParts
  <2> QED BY <2>1, <2>2, <2>3
<1>3. /\ alive' = alive \ {head}
      /\ IF sz = 1 THEN head' = Null /\ tail' = Null
         ELSE head' = next[head] /\ UNCHANGED tail
      /\ sz' = sz - 1 /\ outcome' = "ok" /\ UNCHANGED <<nodeElem, next>>
  BY <1>2 DEF Singly!DropHead, Singly!Ok
<1>4. /\ head' = IF sz = 1 THEN Null ELSE IF 1 = 1 THEN c[2] ELSE head
      /\ tail' = IF sz = 1 THEN Null ELSE IF 1 = sz THEN c[sz - 1] ELSE tail
  BY <1>2, <1>3
<1>5. SllTakenOut(c, 1)
  BY <1>1, <1>2, <1>3, <1>4 DEF SllTakenOut
<1>6. /\ SllGood'
      /\ Singly!Elements \in [1 .. sz -> Values]
      /\ Singly!Elements' = Removed(Singly!Elements, sz, 1)
  BY <1>5, SllRemoves
<1>7. Singly!L!NextAfter
  BY <1>2, <1>6, RemovedNextAfter
<1> QED BY <1>6, <1>7 DEF SllStep

LEMMA SllRemoveFirst ==
  ASSUME SllGood, Singly!removeFirst
  PROVE  SllStep
<1>1. CASE sz # 0 /\ Singly!DropHead
  BY <1>1, SllDropHead
<1>2. CASE outcome' = "logic_error" /\ UNCHANGED <<head, tail, sz, alive, nodeElem, next>>
  BY <1>2, SllSame
<1> QED BY <1>1, <1>2 DEF Singly!removeFirst, Singly!isEmpty, Singly!heap

LEMMA SllRemoveTarget ==
  ASSUME SllGood, NEW v \in Values, Singly!removeFirstTargetElem(v), listCareful'
  PROVE  SllStep
<1>1. PICK c : Links(c, sz, head, tail, alive, next)
  BY DEF SllGood
<1>2. PICK i \in DOMAIN Singly!at :
        Singly!FoundAt(i, v) /\ (Singly!at[i] # tail \/ i = 1)
  BY DEF Singly!removeFirstTargetElem, Singly!IsThereNotLastOfSeveral
<1>3. PICK k \in DOMAIN Singly!at :
        /\ Singly!FoundAt(k, v)
        /\ \/ k = 1 /\ sz > 0 /\ Singly!DropHead
           \/ /\ k > 1
              /\ next' = [next EXCEPT ![Singly!at[k - 1]] = next[Singly!at[k]]]
              /\ alive' = alive \ {Singly!at[k]}
              /\ sz' = sz - 1 /\ outcome' = "ok"
              /\ UNCHANGED <<head, tail, nodeElem>>
  BY <1>2 DEF Singly!removeFirstTargetElem, Singly!Found, Singly!Ok
<1>4. CASE k = 1 /\ sz > 0 /\ Singly!DropHead
  BY <1>4, SllDropHead
<1>5. CASE /\ k > 1
           /\ next' = [next EXCEPT ![Singly!at[k - 1]] = next[Singly!at[k]]]
           /\ alive' = alive \ {Singly!at[k]}
           /\ sz' = sz - 1 /\ outcome' = "ok"
           /\ UNCHANGED <<head, tail, nodeElem>>
  <2>1. /\ k \in 1 .. sz /\ Singly!at[k] = c[k] /\ c[k] # tail
        /\ k - 1 \in 1 .. sz /\ Singly!at[k - 1] = c[k - 1]
    <3>1. k = i
      BY <1>1, <1>2, <1>3, SllFoundOnce
    <3> QED BY <1>1, <1>2, <1>3, <1>5, <3>1, SllFound
  <2>2. /\ sz \in Nat /\ next \in [Nodes -> Nodes \cup {Null}]
        /\ \A j, l \in 1 .. sz : c[j] = c[l] => j = l
        /\ sz # 0 => tail = c[sz]
        /\ \A j \in 1 .. sz : c[j] \in Nodes
        /\ \A j \in 1 .. sz - 1 : next[c[j]] = c[j + 1]
    BY <1>1, SllParts
  <2>3. k \in 1 .. sz - 1 /\ k + 1 \in 1 .. sz /\ k < sz /\ sz # 1 /\ k # 1 /\ k # sz
    BY <1>5, <2>1, <2>2
  <2>4. next' = [next EXCEPT ![c[k - 1]] = c[k + 1]]
    BY <1>5, <2>1, <2>2, <2>3
  <2>5. /\ next' \in [Nodes -> Nodes \cup {Null}]
        /\ next'[c[k - 1]] = c[k + 1]
    BY <2>1, <2>2, <2>3, <2>4
  <2>6. ASSUME NEW j \in 1 .. sz, j \notin {k - 1, k} PROVE next'[c[j]] = next[c[j]]
    <3>1. c[j] # c[k - 1] /\ c[j] \in Nodes
      BY <2>1, <2>2, <2>6
    <3> QED BY <2>2, <2>4, <3>1
  <2>7. /\ head' = IF sz = 1 THEN Null ELSE IF k = 1 THEN c[2] ELSE head
        /\ tail' = IF sz = 1 THEN Null ELSE IF k = sz THEN c[sz - 1] ELSE tail
        /\ alive' = alive \ {c[k]} /\ sz' = sz - 1 /\ outcome' = "ok" /\ UNCHANGED nodeElem
    BY <1>5, <2>1, <2>3
  <2>8. SllTakenOut(c, k)
    BY <1>1, <2>1, <2>3, <2>5, <2>6, <2>7 DEF SllTakenOut
  <2>9. /\ SllGood'
        /\ Singly!Elements \in [1 .. sz -> Values]
        /\ Singly!Elements' = Removed(Singly!Elements, sz, k)
    BY <2>8, SllRemoves
  <2>10. k \in Singly!L!Firsts(Singly!Elements)
    BY <1>1, <1>3, SllFoundFirst
  <2>11. Singly!L!NextAfter
    BY <2>1, <2>2, <2>9, <2>10, RemovedNextAfter
  <2> QED BY <2>9, <2>11 DEF SllStep
<1> QED BY <1>3, <1>4, <1>5

(* The node before the last is the only one that the search for it finds. *)
LEMMA SllLastButOne ==
  ASSUME NEW c, Links(c, sz, head, tail, alive, next)
  PROVE  /\ \A k \in Singly!LastButOne : k = sz - 1
         /\ sz > 1 => sz - 1 \in Singly!LastButOne /\ Singly!at[sz - 1] = c[sz - 1]
<1> DEFINE N == Singly!Cardinality(Nodes) + 1
<1>1. /\ DOMAIN Singly!at = 1 .. N /\ sz \in Nat /\ N \in Nat /\ sz < N
      /\ \A j \in 1 .. N : Singly!at[j] = IF j <= sz THEN c[j] ELSE Null
  <2>1. sz \in Nat /\ Singly!Cardinality(Nodes) \in Nat /\ sz <= Singly!Cardinality(Nodes)
    BY ChainFits
  <2> QED BY <2>1, SllNow
<1> HIDE DEF N
<1>2. /\ Null \notin alive /\ \A j \in 1 .. sz : c[j] \in alive /\ c[j] # Null
      /\ sz # 0 => next[c[sz]] = Null
      /\ \A j \in 1 .. sz - 1 : next[c[j]] = c[j + 1]
  BY SllParts
<1>3. ASSUME NEW k \in Singly!LastButOne PROVE k = sz - 1
  <2>1. /\ k \in 1 .. N /\ Singly!at[k] \in alive /\ next[Singly!at[k]] \in alive
        /\ next[next[Singly!at[k]]] = Null
    BY <1>1, <1>3 DEF Singly!LastButOne
  <2>2. k \in 1 .. sz /\ Singly!at[k] = c[k]
    BY <1>1, <1>2, <2>1
  <2>3. k # sz
    BY <1>1, <1>2, <2>1, <2>2
  <2>4. k \in 1 .. sz - 1 /\ k + 1 \in 1 .. sz
    BY <1>1, <2>2, <2>3
  <2>5. next[c[k + 1]] = Null
    BY <1>2, <2>1, <2>2, <2>4
  <2>6. k + 1 = sz
    <3>1. k + 1 # sz => k + 1 \in 1 .. sz - 1 /\ k + 1 + 1 \in 1 .. sz
      BY <1>1, <2>4
    <3> QED BY <1>2, <2>5, <3>1
  <2> QED BY <1>1, <2>2, <2>6
<1>4. ASSUME sz > 1
      PROVE  sz - 1 \in Singly!LastButOne /\ Singly!at[sz - 1] = c[sz - 1]
  <2>1. sz - 1 \in 1 .. N /\ sz - 1 \in 1 .. sz - 1 /\ sz - 1 \in 1 .. sz /\ sz - 1 + 1 = sz
        /\ sz \in 1 .. sz /\ sz - 1 <= sz
    BY <1>1, <1>4
  <2>2. Singly!at[sz - 1] = c[sz - 1]
    BY <1>1, <2>1
  <2>3. c[sz - 1] \in alive /\ next[c[sz - 1]] = c[sz] /\ c[sz] \in alive
        /\ next[c[sz]] = Null
    <3>1. next[c[sz - 1]] = c[sz - 1 + 1]
      BY <1>2, <2>1
    <3> QED BY <1>2, <2>1, <3>1
  <2> QED BY <1>1, <2>1, <2>2, <2>3 DEF Singly!LastButOne
<1> QED BY <1>3, <1>4

LEMMA SllRemoveLast ==
  ASSUME SllGood, Singly!removeLast
  PROVE  SllStep
<1>1. PICK c : Links(c, sz, head, tail, alive, next)
  BY DEF SllGood
<1>2. /\ sz \in Nat /\ next \in [Nodes -> Nodes \cup {Null}]
      /\ \A j, l \in 1 .. sz : c[j] = c[l] => j = l
      /\ sz # 0 => tail = c[sz] /\ sz \in 1 .. sz /\ head = c[1] /\ tail \in alive
      /\ \A j \in 1 .. sz : c[j] \in Nodes
      /\ Null \notin Nodes
  <2>1. sz \in Nat /\ (sz # 0 => sz \in 1 .. sz)
    BY <1>1, SllParts
  <2> QED BY <1>1, <2>1, SllParts
<1>3. CASE outcome' = "logic_error" /\ UNCHANGED <<head, tail, sz, alive, nodeElem, next>>
  BY <1>3, SllSame
<1>4. CASE sz = 1 /\ Singly!DropTail(Null)
  <2>1. /\ alive' = alive \ {tail} /\ tail' = Null /\ head' = Null
        /\ sz' = sz - 1 /\ outcome' = "ok" /\ UNCHANGED <<next, nodeElem>>
    BY <1>4 DEF Singly!DropTail, Singly!Ok
  <2>2. SllTakenOut(c, 1)
    BY <1>1, <1>2, <1>4, <2>1 DEF SllTakenOut
  <2>3. /\ SllGood'
        /\ Singly!Elements \in [1 .. sz -> Values]
        /\ Singly!Elements' = Removed(Singly!Elements, sz, 1)
    BY <2>2, SllRemoves
  <2>4. 1 \in 1 .. sz
    BY <1>4
  <2>5. Singly!L!NextAfter
    BY <1>2, <2>3, <2>4, RemovedNextAfter
  <2> QED BY <2>3, <2>5 DEF SllStep
<1>5. CASE sz > 1 /\ \E k \in Singly!LastButOne :
             IF Singly!at[k] = tail THEN Singly!Undefined ELSE Singly!DropTail(Singly!at[k])
  <2> DEFINE b == c[sz - 1]
  <2>0. sz - 1 \in 1 .. sz /\ sz - 1 # sz /\ sz # 1 /\ ~(sz < sz) /\ sz > 1
    BY <1>2, <1>5
  <2>1. b # tail /\ b \in Nodes /\ b # Null
    BY <1>2, <2>0
  <2>2. Singly!DropTail(b)
    <3>1. \A k \in Singly!LastButOne : Singly!at[k] = b
      BY <1>1, <1>5, SllLastButOne
    <3> QED BY <1>5, <2>1, <3>1
  <2> HIDE DEF b
  <2>3. /\ alive' = alive \ {tail} /\ tail' = b /\ UNCHANGED head
        /\ next' = [next EXCEPT ![b] = Null]
        /\ sz' = sz - 1 /\ outcome' = "ok" /\ UNCHANGED nodeElem
    BY <2>1, <2>2 DEF Singly!DropTail, Singly!Ok
  <2>4. next' \in [Nodes -> Nodes \cup {Null}] /\ next'[c[sz - 1]] = Null
    BY <1>2, <2>1, <2>3 DEF b
  <2>5. ASSUME NEW j \in 1 .. sz, j \notin {sz - 1, sz} PROVE next'[c[j]] = next[c[j]]
    <3>1. c[j] # b /\ c[j] \in Nodes
      BY <1>2, <2>0, <2>5 DEF b
    <3> QED BY <1>2, <2>3, <3>1
  <2>6. /\ head' = IF sz = 1 THEN Null ELSE IF sz = 1 THEN c[2] ELSE head
        /\ tail' = IF sz = 1 THEN Null ELSE IF sz = sz THEN c[sz - 1] ELSE tail
        /\ alive' = alive \ {c[sz]} /\ sz' = sz - 1 /\ outcome' = "ok" /\ UNCHANGED nodeElem
    BY <1>2, <2>0, <2>3 DEF b
  <2>7. SllTakenOut(c, sz)
    BY <1>1, <1>2, <2>0, <2>4, <2>5, <2>6 DEF SllTakenOut
  <2>8. /\ SllGood'
        /\ Singly!Elements \in [1 .. sz -> Values]
        /\ Singly!Elements' = Removed(Singly!Elements, sz, sz)
    BY <2>7, SllRemoves
  <2>9. Singly!L!NextAfter
    <3>1. sz \in 1 .. sz
      BY <1>2, <2>0
    <3> QED BY <1>2, <2>8, <3>1, RemovedNextAfter
  <2> QED BY <2>8, <2>9 DEF SllStep
<1>6. (sz > 1 => Singly!LastButOne # {}) /\ (sz # 0 => tail \in alive)
  BY <1>1, <1>2, SllLastButOne
<1> QED BY <1>3, <1>4, <1>5, <1>6 DEF Singly!removeLast, Singly!isEmpty, Singly!heap

(* All nodes are deleted, or there were none: what is left is an empty list, or
   the copy that is made of another. *)
LEMMA SllReached ==
  ASSUME SllGood
  PROVE  Singly!EndsInNull /\ alive \ {Singly!at[k] : k \in DOMAIN Singly!at} = {}
<1>1. PICK c : Links(c, sz, head, tail, alive, next)
  BY DEF SllGood
<1> DEFINE N == Singly!Cardinality(Nodes) + 1
<1>2. /\ DOMAIN Singly!at = 1 .. N /\ sz \in Nat /\ N \in Nat /\ sz < N
      /\ \A j \in 1 .. N : Singly!at[j] = IF j <= sz THEN c[j] ELSE Null
  <2>1. sz \in Nat /\ Singly!Cardinality(Nodes) \in Nat /\ sz <= Singly!Cardinality(Nodes)
    BY <1>1, ChainFits
  <2> QED BY <1>1, <2>1, SllNow
<1> HIDE DEF N
<1>3. \A n \in alive : \E k \in 1 .. sz : n = c[k]
  BY <1>1, SllParts
<1>4. Singly!EndsInNull
  BY <1>2 DEF Singly!EndsInNull
<1>5. ASSUME NEW n \in alive PROVE n \in {Singly!at[k] : k \in DOMAIN Singly!at}
  <2>1. PICK k \in 1 .. sz : n = c[k]
    BY <1>3
  <2>2. k \in 1 .. N /\ Singly!at[k] = c[k]
    BY <1>2
  <2> QED BY <1>2, <2>1, <2>2
<1> QED BY <1>4, <1>5

LEMMA SllEmptied ==
  ASSUME SllGood, alive' = {}, head' = Null, tail' = Null, sz' = 0, outcome' = "ok",
         UNCHANGED <<nodeElem, next>>
  PROVE  SllStep
<1> DEFINE d == [k \in 1 .. 0 |-> Null]
<1>1. d \in [1 .. 0 -> Nodes] /\ Distinct(d, 0) /\ Members(d, 0) = {}
  BY DEF Distinct, Members
<1>2. next \in [Nodes -> Nodes \cup {Null}]
  BY DEF SllGood, Links
<1> HIDE DEF d
<1>3. Links(d, sz', head', tail', alive', next')
  BY <1>1, <1>2 DEF Links
<1>4. SllGood'
  BY <1>3 DEF SllGood
<1>5. Singly!Elements' = [k \in 1 .. 0 |-> nodeElem'[d[k]]]
  BY <1>3, SllNext
<1>6. Singly!Elements' = << >>
  BY <1>5
<1> QED BY <1>4, <1>6
        DEF SllStep, Singly!L!NextAfter, Singly!L!Outcomes, Singly!L!Cleared

LEMMA SllCopies ==
  ASSUME SllGood, NEW s \in Sources, s # << >>, Singly!Copy(s, {}), outcome' # "ub"
  PROVE  SllStep
<1>1. PICK m \in Nat \ {0} : s \in [1 .. m -> Values]
  <2>1. PICK k \in 0 .. MaxCopied : s \in [1 .. k -> Values]
    BY DEF Sources
  <2>2. k # 0
    BY <2>1
  <2> QED BY <2>1, <2>2
<1>2. DOMAIN s = 1 .. m /\ Len(s) = m /\ m \in 1 .. m /\ 1 \in 1 .. m
  BY <1>1
<1>3. PICK c \in [1 .. m -> Nodes] :
        /\ \A j, k \in 1 .. m : c[j] = c[k] => j = k
        /\ LET copy == {c[k] : k \in 1 .. m}
               place == [n \in copy |-> CHOOSE k \in 1 .. m : c[k] = n]
           IN  /\ alive' = {} \cup copy
               /\ nodeElem' = [n \in Nodes |->
                                 IF n \in copy THEN s[place[n]] ELSE nodeElem[n]]
               /\ next' = [n \in Nodes |->
                             IF n \notin copy THEN next[n]
                             ELSE IF place[n] = m THEN Null
                             ELSE c[place[n] + 1]]
        /\ head' = c[1]
        /\ tail' = c[m]
  BY <1>2 DEF Singly!Copy
<1> DEFINE copy == {c[k] : k \in 1 .. m}
           place == [n \in copy |-> CHOOSE k \in 1 .. m : c[k] = n]
<1>4. \A k \in 1 .. m : c[k] \in Nodes /\ c[k] \in copy
  BY <1>1
<1>5. ASSUME NEW k \in 1 .. m PROVE place[c[k]] = k
  <2>1. \E j \in 1 .. m : c[j] = c[k]
    OBVIOUS
  <2>2. \A j \in 1 .. m : c[j] = c[k] => j = k
    BY <1>3
  <2>3. place[c[k]] = CHOOSE j \in 1 .. m : c[j] = c[k]
    BY <1>4
  <2> QED BY <2>1, <2>2, <2>3
<1>6. /\ alive' = copy
      /\ nodeElem' = [n \in Nodes |-> IF n \in copy THEN s[place[n]] ELSE nodeElem[n]]
      /\ next' = [n \in Nodes |-> IF n \notin copy THEN next[n]
                                  ELSE IF place[n] = m THEN Null ELSE c[place[n] + 1]]
  BY <1>3
<1>7. \A n \in copy : \E k \in 1 .. m : n = c[k]
  OBVIOUS
<1>8. copy = Members(c, m) /\ Distinct(c, m)
  BY <1>3 DEF Members, Distinct
<1>9. sz' = m
  BY <1>2 DEF Singly!Copy
<1> HIDE DEF copy, place
<1>10. ASSUME NEW k \in 1 .. m
       PROVE  /\ nodeElem'[c[k]] = s[k] /\ s[k] \in Values
              /\ next'[c[k]] = IF k = m THEN Null ELSE c[k + 1]
  BY <1>1, <1>4, <1>5, <1>6
<1>11. next' \in [Nodes -> Nodes \cup {Null}]
  <2>1. next \in [Nodes -> Nodes \cup {Null}]
    BY DEF SllGood, Links
  <2>2. ASSUME NEW n \in Nodes PROVE next'[n] \in Nodes \cup {Null}
    <3>1. CASE n \notin copy
      BY <1>6, <2>1, <3>1
    <3>2. CASE n \in copy
      <4>1. PICK k \in 1 .. m : n = c[k]
        BY <1>7, <3>2
      <4>2. k # m => k + 1 \in 1 .. m
        BY <1>1
      <4> QED BY <1>4, <1>10, <4>1, <4>2
    <3> QED BY <3>1, <3>2
  <2> QED BY <1>6, <2>2
<1>12. nodeElem' = [n \in Nodes |-> nodeElem'[n]]
  BY <1>6
<1>13. Links(c, sz', head', tail', alive', next')
  <2>1. \A k \in 1 .. m - 1 : next'[c[k]] = c[k + 1]
    BY <1>1, <1>10
  <2>2. next'[c[m]] = Null /\ head' = c[1] /\ tail' = c[m]
    BY <1>2, <1>3, <1>10
  <2> QED BY <1>6, <1>8, <1>9, <1>11, <2>1, <2>2 DEF Links
<1>14. SllGood'
  <2>1. \A n \in alive' : nodeElem'[n] \in Values
    <3> SUFFICES ASSUME NEW n \in copy PROVE nodeElem'[n] \in Values
      BY <1>6
    <3>1. PICK k \in 1 .. m : n = c[k]
      BY <1>7
    <3> QED BY <1>10, <3>1
  <2> QED BY <1>12, <1>13, <2>1 DEF SllGood
<1>15. Singly!Elements' = s
  <2>1. Singly!Elements' = [k \in 1 .. m |-> nodeElem'[c[k]]]
    BY <1>9, <1>13, SllNext
  <2>2. Singly!Elements' = [k \in 1 .. m |-> s[k]]
    BY <1>10, <2>1
  <2> QED BY <1>1, <2>2
<1> QED BY <1>14, <1>15 DEF SllStep, Singly!L!NextAfter, Singly!L!Outcomes

LEMMA SllNextStep ==
  ASSUME SllInv, [Singly!Next]_(Singly!vars), listCareful'
  PROVE  SllStep
<1>1. listCareful
  BY DEF Singly!Next, Singly!vars, Singly!addFirst, Singly!addLast, Singly!addElemAfter,
         Singly!removeFirstTargetElem, Singly!removeFirst, Singly!removeLast,
         Singly!clear, Singly!assign, Singly!Renew, Singly!Crashed
<1>2. SllGood
  BY <1>1 DEF SllInv
<1>3. CASE UNCHANGED Singly!vars
  BY <1>2, <1>3, SllSame DEF Singly!vars, SllGood
<1>4. ASSUME NEW v \in Values, Singly!addFirst(v) PROVE SllStep
  BY <1>2, <1>4, SllAddFirst
<1>5. ASSUME NEW v \in Values, Singly!addLast(v) PROVE SllStep
  BY <1>2, <1>5, SllAddLast
<1>6. ASSUME NEW v \in Values, Singly!removeFirstTargetElem(v) PROVE SllStep
  BY <1>2, <1>6, SllRemoveTarget
<1>7. ASSUME NEW loc \in Values, NEW v \in Values, Singly!addElemAfter(loc, v) PROVE SllStep
  BY <1>2, <1>7, SllAddElemAfter
<1>8. CASE Singly!removeFirst
  BY <1>2, <1>8, SllRemoveFirst
<1>9. CASE Singly!removeLast
  BY <1>2, <1>9, SllRemoveLast
<1>10. CASE Singly!clear
  BY <1>2, <1>10, SllReached, SllEmptied DEF Singly!clear, Singly!Ok
<1>11. ASSUME NEW s \in Sources, Singly!assign(s) PROVE SllStep
  <2>1. sz = 0
    BY <1>11 DEF Singly!assign, Singly!isEmpty
  <2>2. alive = {}
    <3>1. PICK c : Links(c, sz, head, tail, alive, next)
      BY <1>2 DEF SllGood
    <3> QED BY <2>1, <3>1, SllParts
  <2>3. outcome' = "assigned"
    BY <1>11 DEF Singly!assign
  <2>4. CASE s = << >> /\ UNCHANGED <<head, tail, sz, alive, nodeElem, next>>
    BY <1>2, <2>3, <2>4, SllSame
  <2>5. CASE s # << >> /\ Singly!Copy(s, alive)
    BY <1>2, <2>2, <2>3, <2>5, SllCopies
  <2> QED BY <1>11, <2>4, <2>5 DEF Singly!assign, Singly!heap
<1>12. ASSUME NEW s \in Sources, Singly!Renew(s) PROVE SllStep
  <2>1. Singly!EndsInNull /\ alive \ {Singly!at[k] : k \in DOMAIN Singly!at} = {}
    BY <1>2, SllReached
  <2>2. CASE s = << >>
    <3>1. /\ alive' = {} /\ head' = Null /\ tail' = Null /\ sz' = 0 /\ outcome' = "ok"
          /\ UNCHANGED <<nodeElem, next>>
      BY <1>12, <2>1, <2>2 DEF Singly!Renew, Singly!Ok
    <3> QED BY <1>2, <3>1, SllEmptied
  <2>3. CASE s # << >>
    <3>1. Singly!Copy(s, {}) /\ outcome' = "ok"
      BY <1>12, <2>1, <2>3 DEF Singly!Renew, Singly!Ok
    <3> QED BY <1>2, <2>3, <3>1, SllCopies
  <2> QED BY <2>2, <2>3
<1>13. CASE Singly!Crashed
  BY <1>2, <1>13 DEF Singly!Crashed, Singly!Defined, SllGood
<1> QED BY <1>3, <1>4, <1>5, <1>6, <1>7, <1>8, <1>9, <1>10, <1>11, <1>12, <1>13
        DEF Singly!Next

LEMMA SllGoodIsWellFormed == SllInv => Singly!WellFormed
<1> SUFFICES ASSUME SllInv, listCareful
             PROVE  /\ outcome # "ub"
                    /\ Singly!Cardinality(Singly!Chain) = sz
                    /\ IF sz = 0 THEN head = Null /\ tail = Null
                       ELSE Singly!at[sz] = tail /\ next[tail] = Null
                    /\ {Singly!at[k] : k \in Singly!Chain} = alive
  BY DEF Singly!WellFormed, Singly!Defined, Singly!isEmpty
<1>1. PICK c : Links(c, sz, head, tail, alive, next)
  BY DEF SllInv, SllGood
<1> DEFINE N == Singly!Cardinality(Nodes) + 1
<1>2. /\ sz \in Nat /\ N \in Nat /\ sz < N
      /\ \A j \in 1 .. N : Singly!at[j] = IF j <= sz THEN c[j] ELSE Null
      /\ Singly!Chain = 1 .. sz
  <2>1. sz \in Nat /\ Singly!Cardinality(Nodes) \in Nat /\ sz <= Singly!Cardinality(Nodes)
    BY <1>1, ChainFits
  <2> QED BY <1>1, <2>1, SllNow
<1> HIDE DEF N
<1>3. Cardinality(1 .. sz) = sz
  <2> DEFINE I == 1 .. sz
  <2>1. Cardinality(I) = IF 1 > sz THEN 0 ELSE sz - 1 + 1
    BY <1>2, FS_Interval
  <2> HIDE DEF I
  <2>2. Cardinality(I) = sz
    BY <1>2, <2>1
  <2> QED BY <2>2 DEF I
<1>4. Singly!Cardinality(Singly!Chain) = sz
  BY <1>2, <1>3, SinglyCardinality
<1>5. \A k \in 1 .. sz : Singly!at[k] = c[k]
  BY <1>2
<1>6. /\ sz = 0 => head = Null /\ tail = Null
      /\ sz # 0 => tail = c[sz] /\ next[c[sz]] = Null /\ sz \in 1 .. sz
      /\ \A k \in 1 .. sz : c[k] \in alive
      /\ \A n \in alive : \E k \in 1 .. sz : n = c[k]
  <2>1. sz # 0 => sz \in 1 .. sz
    BY <1>2
  <2> QED BY <1>1, <2>1, SllParts
<1>7. {Singly!at[k] : k \in Singly!Chain} = alive
  BY <1>2, <1>5, <1>6
<1> QED BY <1>4, <1>5, <1>6, <1>7 DEF SllInv, SllGood

(* In careful hands the nodes of an SLL are those its members say, each reached
   once and none left behind, and every call is one of a list. *)
THEOREM SinglyIsAList ==
  Singly!Spec => []Singly!WellFormed /\ Singly!ImplementsList
<1>1. Singly!Init => Singly!L!LInit
  <2> SUFFICES ASSUME Singly!Init PROVE Singly!Elements = << >>
    BY DEF Singly!L!LInit
  <2>1. SllInv /\ listCareful /\ sz = 0
    BY InitSll DEF Singly!Init
  <2>2. PICK c : Links(c, sz, head, tail, alive, next)
    BY <2>1 DEF SllInv, SllGood
  <2> QED BY <2>1, <2>2, SllNow
<1>2. SllInv /\ [Singly!Next]_(Singly!vars) => SllInv'
  BY SllNextStep DEF SllInv, SllStep
<1>3. SllInv /\ [Singly!Next]_(Singly!vars)
        => [listCareful' => Singly!L!NextAfter]_(Singly!Elements)
  BY SllNextStep DEF SllStep
<1> QED BY <1>1, <1>2, <1>3, InitSll, SllGoodIsWellFormed, PTL
        DEF Singly!Spec, Singly!ImplementsList

-----------------------------------------------------------------------------
(* DLL<T>.  First the nodes that new takes. *)
LEMMA DoublyCardinality == ASSUME NEW S PROVE Doubly!Cardinality(S) = Cardinality(S)
  BY DEF Doubly!Cardinality, Cardinality

Below(S, n) == {m \in S : m < n}

(* Of the numbers in a set of at least k there is one with k - 1 below it. *)
LEMMA RankExists ==
  ASSUME NEW S, S \subseteq 1 .. Room, NEW k \in 1 .. Cardinality(S)
  PROVE  \E n \in S : Cardinality(Below(S, n)) = k - 1
<1>1. IsFiniteSet(S) /\ Cardinality(S) \in Nat
  <2> DEFINE I == 1 .. Room
  <2>1. IsFiniteSet(I)
    BY RoomIsNat, FS_Interval
  <2> HIDE DEF I
  <2>2. IsFiniteSet(S)
    BY <2>1, FS_Subset DEF I
  <2> QED BY <2>2, FS_CardinalityType
<1>2. \A n : IsFiniteSet(Below(S, n)) /\ Cardinality(Below(S, n)) \in Nat
  <2> SUFFICES ASSUME NEW n PROVE IsFiniteSet(Below(S, n)) /\ Cardinality(Below(S, n)) \in Nat
    OBVIOUS
  <2> DEFINE T == Below(S, n)
  <2>1. T \subseteq S
    BY DEF Below
  <2> HIDE DEF T
  <2>2. IsFiniteSet(T)
    BY <1>1, <2>1, FS_Subset
  <2> QED BY <2>2, FS_CardinalityType DEF T
<1>0. \A x \in S : x \in Nat /\ x >= 1 /\ x < Room + 1
  BY RoomIsNat
<1> DEFINE B == {n \in Nat : Cardinality(Below(S, n)) >= k}
<1>3. Room + 1 \in B
  <2>1. Below(S, Room + 1) = S
    <3> HIDE DEF B
    <3>1. \A x \in S : x \in Below(S, Room + 1)
      BY <1>0 DEF Below
    <3> QED BY <3>1 DEF Below
  <2> QED BY <1>1, <2>1, RoomIsNat
<1>4. PICK q \in B : \A y \in B : q <= y
  <2>1. B \subseteq Nat /\ B # {}
    BY <1>3
  <2> HIDE DEF B
  <2> QED BY <2>1, LeastNumber
<1>5. q # 0
  <2>1. Below(S, 0) = {}
    <3> HIDE DEF B
    <3>1. ASSUME NEW x \in Below(S, 0) PROVE FALSE
      BY <1>0 DEF Below
    <3> QED BY <3>1
  <2>2. Cardinality(Below(S, 0)) = 0
    BY <2>1, FS_EmptySet
  <2> QED BY <1>4, <2>2
<1> DEFINE p == q - 1
<1>6. p \in Nat /\ Cardinality(Below(S, p)) < k
  <2>1. p \in Nat /\ p < q
    BY <1>4, <1>5
  <2>2. p \notin B
    BY <1>4, <2>1
  <2> QED BY <1>2, <2>1, <2>2
<1>7. Cardinality(Below(S, q)) >= k
  BY <1>4
<1>8. Below(S, q) = IF p \in S THEN Below(S, p) \cup {p} ELSE Below(S, p)
  <2>1. q \in Nat /\ p \in Nat /\ q = p + 1
    BY <1>4, <1>6
  <2> HIDE DEF B, p
  <2>2. \A x \in S : x < q <=> x < p \/ x = p
    BY <1>0, <2>1
  <2>3. \A x : x \in Below(S, q) <=> x \in S /\ (x < p \/ x = p)
    BY <2>2 DEF Below
  <2>4. \A x : x \in Below(S, p) <=> x \in S /\ x < p
    BY DEF Below
  <2> QED BY <2>3, <2>4
<1>9. p \in S
  BY <1>2, <1>6, <1>7, <1>8
<1>10. Cardinality(Below(S, q)) = Cardinality(Below(S, p)) + 1
  <2>1. p \notin Below(S, p)
    BY <1>6 DEF Below
  <2> DEFINE T == Below(S, p)
  <2>2. IsFiniteSet(T) /\ p \notin T
    BY <1>2, <2>1
  <2>3. Cardinality(T \cup {p}) = Cardinality(T) + 1
    <3> HIDE DEF T, p
    <3> QED BY <2>2, FS_AddElement
  <2> QED BY <1>8, <1>9, <2>3
<1>11. Cardinality(Below(S, p)) = k - 1
  BY <1>2, <1>6, <1>7, <1>10
<1> QED BY <1>9, <1>11

LEMMA FreeNodes ==
  ASSUME NEW U, NEW S, S = (1 .. Room) \ U
  PROVE  /\ Cardinality(S) \in Nat
         /\ Doubly!FreeBeside(U) \in [1 .. Cardinality(S) -> S]
         /\ Distinct(Doubly!FreeBeside(U), Cardinality(S))
<1>1. Cardinality(S) \in Nat
  <2> DEFINE I == 1 .. Room
  <2>1. IsFiniteSet(I)
    BY RoomIsNat, FS_Interval
  <2>2. S \subseteq I
    OBVIOUS
  <2> HIDE DEF I
  <2>3. IsFiniteSet(S)
    BY <2>1, <2>2, FS_Subset
  <2> QED BY <2>3, FS_CardinalityType
<1> DEFINE f == Doubly!FreeBeside(U)
<1>2. f = [k \in 1 .. Cardinality(S) |->
             CHOOSE n \in S : Doubly!Cardinality({m \in S : m < n}) = k - 1]
  BY DoublyCardinality DEF Doubly!FreeBeside
<1> HIDE DEF f
<1>3. ASSUME NEW k \in 1 .. Cardinality(S)
      PROVE  f[k] \in S /\ Doubly!Cardinality({m \in S : m < f[k]}) = k - 1
  <2>1. \E n \in S : Doubly!Cardinality({m \in S : m < n}) = k - 1
    <3>1. PICK n \in S : Cardinality(Below(S, n)) = k - 1
      BY RankExists
    <3>2. Doubly!Cardinality(Below(S, n)) = k - 1
      BY <3>1, DoublyCardinality
    <3> QED BY <3>2 DEF Below
  <2>2. f[k] = CHOOSE n \in S : Doubly!Cardinality({m \in S : m < n}) = k - 1
    BY <1>2
  <2> QED BY <2>1, <2>2
<1>4. f \in [1 .. Cardinality(S) -> S]
  BY <1>2, <1>3
<1>5. Distinct(f, Cardinality(S))
  <2> SUFFICES ASSUME NEW j \in 1 .. Cardinality(S), NEW k \in 1 .. Cardinality(S),
                      f[j] = f[k]
               PROVE  j = k
    BY DEF Distinct
  <2>1. j - 1 = k - 1
    BY <1>3
  <2> QED BY <1>1, <2>1
<1> QED BY <1>1, <1>4, <1>5 DEF f

(* A heap whose nodes lead to nodes of the heap, a chain of m of them between h
   and t, both ways, and the nodes that lie outside of a chain and lead
   nowhere into it. *)
DllNodes(U) == [elem : Values \cup {Nothing}, prev : U \cup {Null}, next : U \cup {Null}]

DllHeap(hp) ==
  /\ DOMAIN hp \subseteq 1 .. Room
  /\ hp = [n \in DOMAIN hp |-> hp[n]]
  /\ \A n \in DOMAIN hp : hp[n] \in DllNodes(DOMAIN hp)

DllLinks(c, m, h, t, hp) ==
  /\ m \in Nat /\ m >= 2 /\ c \in [1 .. m -> DOMAIN hp] /\ Distinct(c, m)
  /\ h = c[1] /\ t = c[m] /\ hp[c[1]].prev = Null /\ hp[c[m]].next = Null
  /\ \A k \in 1 .. m - 1 : hp[c[k]].next = c[k + 1] /\ hp[c[k + 1]].prev = c[k]
  /\ \A k \in 2 .. m - 1 : hp[c[k]].elem \in Values

DllApart(hp, C) ==
  \A n \in DOMAIN hp \ C : /\ hp[n].prev \in (DOMAIN hp \ C) \cup {Null}
                           /\ hp[n].next \in (DOMAIN hp \ C) \cup {Null}

DllElements(c, m, hp) == [k \in 1 .. m - 2 |-> hp[c[k + 1]].elem]

(* What new sentinels and nodes make of the heap *)
LEMMA ChainedNodes ==
  ASSUME NEW m \in Nat, m >= 2, NEW c \in [1 .. m -> 1 .. Room], Distinct(c, m),
         NEW s \in [1 .. m - 2 -> Values]
  PROVE  /\ DOMAIN Doubly!Chained(c, s) = Members(c, m)
         /\ \A k \in 1 .. m :
              Doubly!Chained(c, s)[c[k]]
                = [elem |-> IF k \in {1, m} THEN Nothing ELSE s[k - 1],
                   prev |-> IF k = 1 THEN Null ELSE c[k - 1],
                   next |-> IF k = m THEN Null ELSE c[k + 1]]
<1>1. DOMAIN c = 1 .. m /\ Len(c) = m
  OBVIOUS
<1>2. Doubly!ToSet(c) = Members(c, m)
  BY <1>1 DEF Doubly!ToSet, Members
<1> DEFINE Node(k) == [elem |-> IF k \in {1, m} THEN Nothing ELSE s[k - 1],
                       prev |-> IF k = 1 THEN Null ELSE c[k - 1],
                       next |-> IF k = m THEN Null ELSE c[k + 1]]
           place(n) == CHOOSE k \in 1 .. m : c[k] = n
<1>3. Doubly!Chained(c, s) = [n \in Members(c, m) |-> Node(place(n))]
  BY <1>1, <1>2 DEF Doubly!Chained
<1>4. ASSUME NEW k \in 1 .. m PROVE place(c[k]) = k /\ c[k] \in Members(c, m)
  <2>1. \A j \in 1 .. m : c[j] = c[k] => j = k
    BY DEF Distinct
  <2> QED BY <2>1 DEF Members
<1> HIDE DEF place, Node
<1>5. DOMAIN Doubly!Chained(c, s) = Members(c, m)
  BY <1>3
<1>6. ASSUME NEW k \in 1 .. m PROVE Doubly!Chained(c, s)[c[k]] = Node(k)
  BY <1>3, <1>4
<1> QED BY <1>5, <1>6 DEF Node

NewNodes(old, c, m, s) ==
  /\ m \in Nat /\ m >= 2 /\ c \in [1 .. m -> 1 .. Room] /\ Distinct(c, m)
  /\ DllApart(old, Members(c, m))
  /\ s \in [1 .. m - 2 -> Values]

MadeOf(old, c, m, s, hp) ==
  /\ DllHeap(old) /\ NewNodes(old, c, m, s)
  /\ hp = Doubly!Over(Doubly!Chained(c, s), old)

Holds(hp, c, m, h, t, apart, s) ==
  /\ DllHeap(hp) /\ DllLinks(c, m, h, t, hp) /\ DllApart(hp, Members(c, m))
  /\ DOMAIN hp \ Members(c, m) = apart
  /\ DllElements(c, m, hp) = s

LEMMA ChainMade ==
  ASSUME NEW old, NEW m, NEW c, NEW s, NEW hp, MadeOf(old, c, m, s, hp)
  PROVE  Holds(hp, c, m, c[1], c[m], DOMAIN old \ Members(c, m), s)
<1>0. /\ m \in Nat /\ m >= 2 /\ c \in [1 .. m -> 1 .. Room] /\ Distinct(c, m)
      /\ DllApart(old, Members(c, m)) /\ s \in [1 .. m - 2 -> Values]
      /\ DllHeap(old) /\ hp = Doubly!Over(Doubly!Chained(c, s), old)
  BY DEF NewNodes, MadeOf
<1> USE <1>0
<1> DEFINE more == Doubly!Chained(c, s)
           C == Members(c, m)
<1>1. /\ DOMAIN more = C
      /\ \A k \in 1 .. m : more[c[k]] = [elem |-> IF k \in {1, m} THEN Nothing ELSE s[k - 1],
                                         prev |-> IF k = 1 THEN Null ELSE c[k - 1],
                                         next |-> IF k = m THEN Null ELSE c[k + 1]]
  BY ChainedNodes
<1> HIDE DEF more
<1>2. /\ DOMAIN hp = C \cup DOMAIN old
      /\ hp = [n \in DOMAIN hp |-> hp[n]]
      /\ \A n \in C : hp[n] = more[n]
      /\ \A n \in DOMAIN old : n \notin C => hp[n] = old[n]
  <2>1. hp = Doubly!Over(more, old)
    BY DEF more
  <2> QED BY <1>1, <2>1 DEF Doubly!Over
<1>3. \A k \in 1 .. m : c[k] \in C
  BY DEF Members
<1>4. \A n \in C : \E k \in 1 .. m : n = c[k]
  BY DEF Members
<1>5. C \subseteq 1 .. Room
  BY <1>4
<1> HIDE DEF C
<1>6. ASSUME NEW k \in 1 .. m
      PROVE  hp[c[k]] = [elem |-> IF k \in {1, m} THEN Nothing ELSE s[k - 1],
                         prev |-> IF k = 1 THEN Null ELSE c[k - 1],
                         next |-> IF k = m THEN Null ELSE c[k + 1]]
  BY <1>1, <1>2, <1>3
<1>12. ASSUME NEW k \in 1 .. m
       PROVE  /\ k \notin {1, m} => hp[c[k]].elem = s[k - 1]
              /\ hp[c[k]].prev = IF k = 1 THEN Null ELSE c[k - 1]
              /\ hp[c[k]].next = IF k = m THEN Null ELSE c[k + 1]
  <2> DEFINE e == IF k \in {1, m} THEN Nothing ELSE s[k - 1]
             p == IF k = 1 THEN Null ELSE c[k - 1]
             q == IF k = m THEN Null ELSE c[k + 1]
  <2>1. hp[c[k]] = [elem |-> e, prev |-> p, next |-> q]
    BY <1>6
  <2> HIDE DEF e, p, q
  <2>2. hp[c[k]].elem = e /\ hp[c[k]].prev = p /\ hp[c[k]].next = q
    BY <2>1
  <2> QED BY <2>2 DEF e, p, q
<1>7. ASSUME NEW n \in DOMAIN old, n \notin C
      PROVE  /\ hp[n] = old[n] /\ old[n] \in DllNodes(DOMAIN old)
             /\ old[n].prev \in (DOMAIN old \ C) \cup {Null}
             /\ old[n].next \in (DOMAIN old \ C) \cup {Null}
  BY <1>2, <1>7 DEF DllHeap, DllApart, C
<1>8. DllHeap(hp)
  <2>1. ASSUME NEW n \in C PROVE hp[n] \in DllNodes(DOMAIN hp)
    <3>1. PICK k \in 1 .. m : n = c[k]
      BY <1>4
    <3>2. /\ k # 1 => k - 1 \in 1 .. m
          /\ k # m => k + 1 \in 1 .. m
          /\ k \notin {1, m} => k - 1 \in 1 .. m - 2
      OBVIOUS
    <3>3. k \notin {1, m} => s[k - 1] \in Values
      BY <3>2
    <3>4. (k # 1 => c[k - 1] \in C) /\ (k # m => c[k + 1] \in C)
      BY <1>3, <3>2
    <3> DEFINE e == IF k \in {1, m} THEN Nothing ELSE s[k - 1]
               p == IF k = 1 THEN Null ELSE c[k - 1]
               q == IF k = m THEN Null ELSE c[k + 1]
    <3>5. hp[c[k]] \in DllNodes(C)
      <4>1. hp[c[k]] = [elem |-> e, prev |-> p, next |-> q]
        BY <1>6
      <4>2. e \in Values \cup {Nothing} /\ p \in C \cup {Null} /\ q \in C \cup {Null}
        BY <3>3, <3>4
      <4> HIDE DEF e, p, q
      <4> QED BY <4>1, <4>2 DEF DllNodes
    <3> QED BY <1>2, <3>1, <3>5 DEF DllNodes
  <2>2. ASSUME NEW n \in DOMAIN old, n \notin C PROVE hp[n] \in DllNodes(DOMAIN hp)
    BY <1>2, <1>7, <2>2 DEF DllNodes
  <2>3. DOMAIN hp \subseteq 1 .. Room
    BY <1>2, <1>5 DEF DllHeap
  <2> QED BY <1>2, <2>1, <2>2, <2>3 DEF DllHeap
<1>9. DllLinks(c, m, c[1], c[m], hp)
  <2>1. c \in [1 .. m -> DOMAIN hp]
    BY <1>2, <1>3
  <2>2. 1 \in 1 .. m /\ m \in 1 .. m
    OBVIOUS
  <2>3. ASSUME NEW k \in 1 .. m - 1
        PROVE  hp[c[k]].next = c[k + 1] /\ hp[c[k + 1]].prev = c[k]
    <3>1. k \in 1 .. m /\ k + 1 \in 1 .. m /\ k # m /\ k + 1 # 1 /\ k + 1 - 1 = k
      OBVIOUS
    <3>2. hp[c[k]].next = c[k + 1]
      BY <1>12, <3>1
    <3>3. hp[c[k + 1]].prev = c[k]
      BY <1>12, <3>1
    <3> QED BY <3>2, <3>3
  <2>4. ASSUME NEW k \in 2 .. m - 1 PROVE hp[c[k]].elem \in Values
    <3>1. k \in 1 .. m /\ k \notin {1, m} /\ k - 1 \in 1 .. m - 2
      OBVIOUS
    <3> QED BY <1>12, <3>1
  <2>5. hp[c[1]].prev = Null /\ hp[c[m]].next = Null
    BY <1>12, <2>2
  <2> QED BY <2>1, <2>3, <2>4, <2>5 DEF DllLinks
<1>10. DllApart(hp, C)
  <2>1. DOMAIN hp \ C = DOMAIN old \ C
    BY <1>2
  <2> QED BY <1>7, <2>1 DEF DllApart
<1>11. DllElements(c, m, hp) = s
  <2>1. ASSUME NEW k \in 1 .. m - 2 PROVE hp[c[k + 1]].elem = s[k]
    <3>1. k + 1 \in 1 .. m /\ k + 1 \notin {1, m} /\ k + 1 - 1 = k
      OBVIOUS
    <3> QED BY <1>12, <3>1
  <2> QED BY <2>1 DEF DllElements
<1> QED BY <1>2, <1>8, <1>9, <1>10, <1>11 DEF C, Holds

(* Parts of a chain, as they are used below *)
LEMMA DllParts ==
  ASSUME NEW hp, DllHeap(hp), NEW c, NEW m, NEW h, NEW t, DllLinks(c, m, h, t, hp)
  PROVE  /\ m \in Nat /\ m >= 2 /\ c \in [1 .. m -> DOMAIN hp]
         /\ \A j, k \in 1 .. m : c[j] = c[k] => j = k
         /\ h = c[1] /\ t = c[m] /\ hp[c[1]].prev = Null /\ hp[c[m]].next = Null
         /\ \A k \in 1 .. m - 1 : hp[c[k]].next = c[k + 1] /\ hp[c[k + 1]].prev = c[k]
         /\ \A k \in 2 .. m - 1 : hp[c[k]].elem \in Values
         /\ \A k \in 1 .. m : c[k] \in DOMAIN hp /\ c[k] \in Members(c, m)
         /\ \A n \in Members(c, m) : n \in DOMAIN hp /\ \E k \in 1 .. m : n = c[k]
         /\ DOMAIN hp \subseteq 1 .. Room /\ Null \notin DOMAIN hp
         /\ hp = [n \in DOMAIN hp |-> hp[n]]
         /\ \A n \in DOMAIN hp : hp[n] \in DllNodes(DOMAIN hp)
BY NullIsNoNode DEF DllHeap, DllLinks, Members, Distinct

(* A new node between two neighbours *)
OneMore(hp, n, v, p, q) ==
  Doubly!Over([k \in {n} |-> [elem |-> v, prev |-> p, next |-> q]],
              [hp EXCEPT ![p].next = n, ![q].prev = n])

LEMMA DllInsert ==
  ASSUME NEW hp, DllHeap(hp), NEW c, NEW m \in Nat, NEW h, NEW t,
         DllLinks(c, m, h, t, hp), DllApart(hp, Members(c, m)),
         NEW i \in 1 .. m - 1, NEW n \in (1 .. Room) \ DOMAIN hp, NEW v \in Values,
         NEW p, p = c[i], NEW q, q = c[i + 1], NEW hp2,
         hp2 = OneMore(hp, n, v, p, q)
  PROVE  /\ DllHeap(hp2)
         /\ DllLinks(Inserted(c, m, i + 1, n), m + 1, h, t, hp2)
         /\ DllApart(hp2, Members(Inserted(c, m, i + 1, n), m + 1))
         /\ DOMAIN hp2 \ Members(Inserted(c, m, i + 1, n), m + 1)
              = DOMAIN hp \ Members(c, m)
         /\ DllElements(Inserted(c, m, i + 1, n), m + 1, hp2)
              = Inserted(DllElements(c, m, hp), m - 2, i, v)
<1> DEFINE d == Inserted(c, m, i + 1, n)
           C == Members(c, m)
           U == DOMAIN hp
<1>1. /\ m >= 2 /\ c \in [1 .. m -> U]
      /\ \A j, k \in 1 .. m : c[j] = c[k] => j = k
      /\ h = c[1] /\ t = c[m] /\ hp[c[1]].prev = Null /\ hp[c[m]].next = Null
      /\ \A k \in 1 .. m - 1 : hp[c[k]].next = c[k + 1] /\ hp[c[k + 1]].prev = c[k]
      /\ \A k \in 2 .. m - 1 : hp[c[k]].elem \in Values
      /\ \A k \in 1 .. m : c[k] \in U /\ c[k] \in C
      /\ \A x \in C : x \in U /\ \E k \in 1 .. m : x = c[k]
      /\ U \subseteq 1 .. Room /\ Null \notin U
      /\ hp = [x \in U |-> hp[x]]
      /\ \A x \in U : hp[x] \in DllNodes(U)
  BY NullIsNoNode DEF DllHeap, DllLinks, Members, Distinct
<1>2. /\ i \in 1 .. m /\ i + 1 \in 1 .. m /\ i + 1 \in 1 .. m + 1 /\ i \in Nat
      /\ p \in U /\ q \in U /\ p # q /\ n \notin U /\ p # n /\ q # n /\ p \in C /\ q \in C
  <2>1. i \in 1 .. m /\ i + 1 \in 1 .. m /\ i + 1 \in 1 .. m + 1 /\ i # i + 1 /\ i \in Nat
    OBVIOUS
  <2> QED BY <1>1, <2>1
<1>3. /\ d \in [1 .. m + 1 -> U \cup {n}] /\ Distinct(d, m + 1)
  <2>1. c \in [1 .. m -> U \cup {n}] /\ n \notin C
    BY <1>1, <1>2
  <2>2. Distinct(c, m)
    BY DEF DllLinks
  <2> DEFINE S == U \cup {n}
  <2>3. n \in S /\ c \in [1 .. m -> S]
    BY <2>1
  <2> HIDE DEF S, U
  <2> QED BY <1>2, <2>1, <2>2, <2>3, InsertedIsDistinct DEF S
<1>4. Members(d, m + 1) = C \cup {n}
  BY <1>2, InsertedMembers
<1>5. \A k \in 1 .. m + 1 : d[k] = IF k < i + 1 THEN c[k] ELSE IF k = i + 1 THEN n ELSE c[k - 1]
  BY DEF Inserted
<1> DEFINE mid == [hp EXCEPT ![p].next = n, ![q].prev = n]
           new == [elem |-> v, prev |-> p, next |-> q]
<1>6. /\ DOMAIN mid = U
      /\ \A x \in U : mid[x] = IF x = p THEN [hp[x] EXCEPT !.next = n]
                               ELSE IF x = q THEN [hp[x] EXCEPT !.prev = n]
                               ELSE hp[x]
  BY <1>1, <1>2
<1> HIDE DEF mid
<1>7. /\ DOMAIN hp2 = U \cup {n} /\ hp2 = [x \in DOMAIN hp2 |-> hp2[x]]
      /\ hp2[n] = new /\ \A x \in U : hp2[x] = mid[x]
  <2>1. hp2 = Doubly!Over([k \in {n} |-> new], mid)
    BY DEF mid, OneMore
  <2> HIDE DEF new
  <2> QED BY <1>2, <1>6, <2>1 DEF Doubly!Over
<1>8. /\ hp2[n].elem = v /\ hp2[n].prev = p /\ hp2[n].next = q
      /\ hp2[n] \in DllNodes(U \cup {n})
  BY <1>2, <1>7 DEF DllNodes
<1> HIDE DEF U, C, d, new
<1>9. ASSUME NEW x \in U
      PROVE  /\ hp2[x].elem = hp[x].elem
             /\ hp2[x].prev = IF x = q THEN n ELSE hp[x].prev
             /\ hp2[x].next = IF x = p THEN n ELSE hp[x].next
             /\ hp2[x] \in DllNodes(U \cup {n})
  <2>1. hp[x] \in DllNodes(U \cup {n})
    BY <1>1 DEF DllNodes
  <2> DEFINE r == hp[x]
             N == U \cup {n}
  <2>2. n \in N \cup {Null} /\ r \in DllNodes(N)
    BY <2>1
  <2>3. hp2[x] = IF x = p THEN [r EXCEPT !.next = n]
                 ELSE IF x = q THEN [r EXCEPT !.prev = n] ELSE r
    BY <1>6, <1>7
  <2>4. /\ hp2[x].elem = r.elem
        /\ hp2[x].prev = IF x = q THEN n ELSE r.prev
        /\ hp2[x].next = IF x = p THEN n ELSE r.next
        /\ hp2[x] \in DllNodes(N)
    <3> DEFINE a == [r EXCEPT !.next = n]
               b == [r EXCEPT !.prev = n]
    <3> HIDE DEF r, N
    <3>0. a \in DllNodes(N) /\ a.next = n /\ a.prev = r.prev /\ a.elem = r.elem
      BY <2>2 DEF DllNodes
    <3>1. b \in DllNodes(N) /\ b.prev = n /\ b.next = r.next /\ b.elem = r.elem
      BY <2>2 DEF DllNodes
    <3>2. hp2[x] = IF x = p THEN a ELSE IF x = q THEN b ELSE r
      BY <2>3
    <3> HIDE DEF a, b
    <3> QED BY <1>2, <2>2, <3>0, <3>1, <3>2
  <2> QED BY <2>4
<1>10. DllHeap(hp2)
  <2>1. U \cup {n} \subseteq 1 .. Room
    BY <1>1
  <2> QED BY <1>7, <1>8, <1>9, <2>1 DEF DllHeap
<1>11. ASSUME NEW k \in 1 .. m PROVE hp2[d[k]].next = d[k + 1] /\ hp2[d[k + 1]].prev = d[k]
  <2>0. k \in Nat /\ k \in 1 .. m + 1 /\ k + 1 \in 1 .. m + 1 /\ i \in Nat
    BY <1>2
  <2>1. CASE k < i
    <3>1. /\ k < i + 1 /\ k + 1 < i + 1 /\ k \in 1 .. m - 1 /\ k \in 1 .. m /\ k + 1 \in 1 .. m
          /\ k # i /\ k + 1 # i + 1
      BY <1>2, <2>0, <2>1
    <3>2. d[k] = c[k] /\ d[k + 1] = c[k + 1]
      BY <1>5, <2>0, <3>1
    <3>3. c[k] # p /\ c[k + 1] # q /\ c[k] \in U /\ c[k + 1] \in U
      BY <1>1, <1>2, <3>1
    <3>4. hp[c[k]].next = c[k + 1] /\ hp[c[k + 1]].prev = c[k]
      BY <1>1, <3>1
    <3> QED BY <1>9, <3>2, <3>3, <3>4
  <2>2. CASE k = i
    <3>1. d[k] = p /\ d[k + 1] = n
      BY <1>5, <2>0, <2>2
    <3> QED BY <1>2, <1>8, <1>9, <3>1
  <2>3. CASE k = i + 1
    <3>1. ~(k < i + 1) /\ ~(k + 1 < i + 1) /\ k + 1 # i + 1 /\ k + 1 - 1 = i + 1
      BY <2>0, <2>3
    <3>2. d[k] = n /\ d[k + 1] = q
      BY <1>5, <2>0, <2>3, <3>1
    <3> QED BY <1>2, <1>8, <1>9, <3>2
  <2>4. CASE k > i + 1
    <3>1. /\ ~(k < i + 1) /\ k # i + 1 /\ ~(k + 1 < i + 1) /\ k + 1 # i + 1 /\ k + 1 - 1 = k
          /\ k - 1 \in 1 .. m - 1 /\ k - 1 \in 1 .. m /\ k \in 1 .. m /\ k - 1 + 1 = k
          /\ k - 1 # i
      BY <1>2, <2>0, <2>4
    <3>2. d[k] = c[k - 1] /\ d[k + 1] = c[k]
      BY <1>5, <2>0, <3>1
    <3>3. c[k - 1] # p /\ c[k] # q /\ c[k - 1] \in U /\ c[k] \in U
      BY <1>1, <1>2, <3>1
    <3>4. hp[c[k - 1]].next = c[k] /\ hp[c[k]].prev = c[k - 1]
      BY <1>1, <3>1
    <3> QED BY <1>9, <3>2, <3>3, <3>4
  <2> QED BY <2>0, <2>1, <2>2, <2>3, <2>4
<1>12. /\ d[1] = h /\ d[m + 1] = t /\ hp2[d[1]].prev = Null /\ hp2[d[m + 1]].next = Null
  <2>1. /\ 1 \in 1 .. m + 1 /\ m + 1 \in 1 .. m + 1 /\ 1 < i + 1 /\ ~(m + 1 < i + 1)
        /\ m + 1 # i + 1 /\ m + 1 - 1 = m /\ 1 \in 1 .. m /\ m \in 1 .. m
        /\ i + 1 # 1 /\ m # i
    BY <1>1, <1>2
  <2>2. d[1] = c[1] /\ d[m + 1] = c[m]
    BY <1>5, <2>1
  <2>3. c[1] # q /\ c[m] # p /\ c[1] \in U /\ c[m] \in U
    BY <1>1, <1>2, <2>1
  <2> QED BY <1>1, <1>9, <2>2, <2>3
<1>13. ASSUME NEW k \in 1 .. m + 1 - 2
       PROVE  hp2[d[k + 1]].elem
                = IF k < i THEN hp[c[k + 1]].elem ELSE IF k = i THEN v ELSE hp[c[k - 1 + 1]].elem
  <2>0. k \in Nat /\ k \in 1 .. m - 1 /\ k + 1 \in 1 .. m + 1 /\ i \in Nat
    BY <1>2
  <2>1. CASE k < i
    <3>1. k + 1 < i + 1 /\ k + 1 \in 1 .. m
      BY <2>0, <2>1
    <3> QED BY <1>1, <1>5, <1>9, <2>0, <2>1, <3>1
  <2>2. CASE k = i
    BY <1>5, <1>8, <2>0, <2>2
  <2>3. CASE k > i
    <3>1. /\ ~(k + 1 < i + 1) /\ k + 1 # i + 1 /\ k + 1 - 1 = k /\ k - 1 + 1 = k
          /\ k \in 1 .. m /\ ~(k < i) /\ k # i
      BY <2>0, <2>3
    <3>2. d[k + 1] = c[k] /\ c[k] \in U
      <4>1. d[k + 1] = c[k + 1 - 1]
        BY <1>5, <2>0, <3>1
      <4> QED BY <1>1, <3>1, <4>1
    <3> QED BY <1>9, <3>1, <3>2
  <2> QED BY <2>0, <2>1, <2>2, <2>3
<1>14. DllElements(d, m + 1, hp2) = Inserted(DllElements(c, m, hp), m - 2, i, v)
  <2> DEFINE E == DllElements(c, m, hp)
  <2>1. \A k \in 1 .. m - 2 : E[k] = hp[c[k + 1]].elem
    BY DEF DllElements
  <2> HIDE DEF E
  <2> DEFINE I == 1 .. m + 1 - 2
             F(k) == hp2[d[k + 1]].elem
             G(k) == IF k < i THEN E[k] ELSE IF k = i THEN v ELSE E[k - 1]
  <2>2. ASSUME NEW k \in I PROVE F(k) = G(k)
    <3>1. (k < i => k \in 1 .. m - 2) /\ (k > i => k - 1 \in 1 .. m - 2)
      BY <1>2
    <3>2. k < i \/ k = i \/ k > i
      BY <1>2
    <3> QED BY <1>13, <2>1, <3>1, <3>2
  <2>3. DllElements(d, m + 1, hp2) = [k \in I |-> F(k)]
    BY DEF DllElements
  <2>4. Inserted(E, m - 2, i, v) = [k \in I |-> G(k)]
    <3>1. m - 2 + 1 = m + 1 - 2
      OBVIOUS
    <3> QED BY <3>1 DEF Inserted
  <2> HIDE DEF I, F, G
  <2>5. DllElements(d, m + 1, hp2) = Inserted(E, m - 2, i, v)
    BY <2>2, <2>3, <2>4
  <2> QED BY <2>5 DEF E
<1>15. ASSUME NEW k \in 2 .. m PROVE hp2[d[k]].elem \in Values
  <2>1. /\ k - 1 \in 1 .. m + 1 - 2 /\ k - 1 + 1 = k
        /\ k - 1 < i => k - 1 + 1 \in 2 .. m - 1
        /\ k - 1 > i => k - 1 - 1 + 1 \in 2 .. m - 1
        /\ k - 1 < i \/ k - 1 = i \/ k - 1 > i
    BY <1>2
  <2>2. hp2[d[k - 1 + 1]].elem
          = IF k - 1 < i THEN hp[c[k - 1 + 1]].elem
            ELSE IF k - 1 = i THEN v ELSE hp[c[k - 1 - 1 + 1]].elem
    BY <1>13, <2>1
  <2>3. /\ k - 1 < i => hp[c[k - 1 + 1]].elem \in Values
        /\ k - 1 > i => hp[c[k - 1 - 1 + 1]].elem \in Values
    BY <1>1, <2>1
  <2> QED BY <2>1, <2>2, <2>3
<1>16. DllLinks(d, m + 1, h, t, hp2)
  <2> DEFINE M == m + 1
  <2>1. /\ M \in Nat /\ M >= 2
        /\ \A k \in 1 .. M - 1 : hp2[d[k]].next = d[k + 1] /\ hp2[d[k + 1]].prev = d[k]
    <3>1. M \in Nat /\ M >= 2 /\ M - 1 = m
      BY <1>1
    <3> QED BY <1>11, <3>1
  <2>2. /\ d \in [1 .. M -> DOMAIN hp2] /\ Distinct(d, M)
        /\ h = d[1] /\ t = d[M] /\ hp2[d[1]].prev = Null /\ hp2[d[M]].next = Null
        /\ \A k \in 2 .. M - 1 : hp2[d[k]].elem \in Values
    <3>1. d \in [1 .. M -> DOMAIN hp2]
      BY <1>3, <1>7
    <3>2. \A k \in 2 .. M - 1 : hp2[d[k]].elem \in Values
      <4>1. M - 1 = m
        OBVIOUS
      <4> QED BY <1>15, <4>1
    <3>3. /\ h = d[1] /\ t = d[M] /\ hp2[d[1]].prev = Null /\ hp2[d[M]].next = Null
          /\ Distinct(d, M)
      BY <1>3, <1>12
    <3> QED BY <3>1, <3>2, <3>3
  <2> HIDE DEF M
  <2>3. DllLinks(d, M, h, t, hp2)
    BY <2>1, <2>2 DEF DllLinks
  <2> QED BY <2>3 DEF M
<1>17. (U \cup {n}) \ (C \cup {n}) = U \ C
  BY <1>2
<1>18. DllApart(hp2, C \cup {n})
  <2> SUFFICES ASSUME NEW x \in U \ C
               PROVE  hp2[x].prev \in (U \ C) \cup {Null} /\ hp2[x].next \in (U \ C) \cup {Null}
    BY <1>7, <1>17 DEF DllApart
  <2>1. hp[x].prev \in (U \ C) \cup {Null} /\ hp[x].next \in (U \ C) \cup {Null}
    BY DEF DllApart, U, C
  <2>2. x # p /\ x # q
    BY <1>2
  <2> QED BY <1>9, <2>1, <2>2
<1> QED BY <1>4, <1>7, <1>10, <1>14, <1>16, <1>17, <1>18 DEF d, U, C

(* A node taken out from between its neighbours *)
OneLess(hp, r, p, q) ==
  [x \in DOMAIN hp \ {r} |-> IF x = p THEN [hp[x] EXCEPT !.next = q]
                             ELSE IF x = q THEN [hp[x] EXCEPT !.prev = p]
                             ELSE hp[x]]

LEMMA DllRemove ==
  ASSUME NEW hp, DllHeap(hp), NEW c, NEW m \in Nat, NEW h, NEW t,
         DllLinks(c, m, h, t, hp), DllApart(hp, Members(c, m)),
         NEW i \in 2 .. m - 1,
         NEW p, p = c[i - 1], NEW q, q = c[i + 1], NEW r, r = c[i], NEW hp2,
         hp2 = OneLess(hp, r, p, q)
  PROVE  /\ DllHeap(hp2)
         /\ DllLinks(Removed(c, m, i), m - 1, h, t, hp2)
         /\ DllApart(hp2, Members(Removed(c, m, i), m - 1))
         /\ DOMAIN hp2 \ Members(Removed(c, m, i), m - 1) = DOMAIN hp \ Members(c, m)
         /\ DllElements(Removed(c, m, i), m - 1, hp2)
              = Removed(DllElements(c, m, hp), m - 2, i - 1)
<1> DEFINE d == Removed(c, m, i)
           C == Members(c, m)
           U == DOMAIN hp
<1>1. /\ m >= 2 /\ c \in [1 .. m -> U]
      /\ \A j, k \in 1 .. m : c[j] = c[k] => j = k
      /\ h = c[1] /\ t = c[m] /\ hp[c[1]].prev = Null /\ hp[c[m]].next = Null
      /\ \A k \in 1 .. m - 1 : hp[c[k]].next = c[k + 1] /\ hp[c[k + 1]].prev = c[k]
      /\ \A k \in 2 .. m - 1 : hp[c[k]].elem \in Values
      /\ \A k \in 1 .. m : c[k] \in U /\ c[k] \in C
      /\ \A x \in C : x \in U /\ \E k \in 1 .. m : x = c[k]
      /\ U \subseteq 1 .. Room /\ Null \notin U
      /\ hp = [x \in U |-> hp[x]]
      /\ \A x \in U : hp[x] \in DllNodes(U)
  BY NullIsNoNode DEF DllHeap, DllLinks, Members, Distinct
<1>2. /\ i \in 1 .. m /\ i + 1 \in 1 .. m /\ i - 1 \in 1 .. m /\ i \in Nat /\ i >= 2
      /\ i < m /\ m \in Nat
      /\ p \in U /\ q \in U /\ r \in U /\ p # q /\ p # r /\ q # r
      /\ p \in C /\ q \in C /\ r \in C
  <2>1. i \in 1 .. m /\ i + 1 \in 1 .. m /\ i - 1 \in 1 .. m /\ i # i + 1 /\ i \in Nat
        /\ i # i - 1 /\ i - 1 # i + 1 /\ i >= 2 /\ i < m /\ m \in Nat
    OBVIOUS
  <2> QED BY <1>1, <2>1
<1>3. Members(d, m - 1) = C \ {r}
  <2>1. Distinct(c, m)
    BY DEF DllLinks
  <2> QED BY <1>2, <2>1, RemovedMembers
<1>4. d \in [1 .. m - 1 -> U \ {r}] /\ Distinct(d, m - 1)
  <2>1. Distinct(c, m) /\ c \in [1 .. m -> U]
    BY <1>1 DEF DllLinks
  <2>2. d \in [1 .. m - 1 -> U] /\ Distinct(d, m - 1)
    <3> HIDE DEF U
    <3> QED BY <1>2, <2>1, RemovedIsDistinct
  <2>3. \A k \in 1 .. m - 1 : d[k] \in Members(d, m - 1)
    BY DEF Members
  <2> HIDE DEF d, U, C
  <2>4. \A k \in 1 .. m - 1 : d[k] \in U \ {r}
    BY <1>3, <2>2, <2>3
  <2> QED BY <2>2, <2>4
<1>5. \A k \in 1 .. m - 1 : d[k] = IF k < i THEN c[k] ELSE c[k + 1]
  BY DEF Removed
<1>7. /\ DOMAIN hp2 = U \ {r} /\ hp2 = [x \in DOMAIN hp2 |-> hp2[x]]
      /\ \A x \in U \ {r} : hp2[x] = IF x = p THEN [hp[x] EXCEPT !.next = q]
                                     ELSE IF x = q THEN [hp[x] EXCEPT !.prev = p]
                                     ELSE hp[x]
  BY DEF OneLess
<1> HIDE DEF U, C, d
<1>8. ASSUME NEW x \in U, x # r
      PROVE  (x # p => hp[x].next # r) /\ (x # q => hp[x].prev # r)
  <2>1. CASE x \notin C
    <3>1. hp[x].prev \in (U \ C) \cup {Null} /\ hp[x].next \in (U \ C) \cup {Null}
      BY <2>1 DEF DllApart, U, C
    <3> QED BY <1>1, <1>2, <3>1
  <2>2. CASE x \in C
    <3>1. PICK k \in 1 .. m : x = c[k]
      BY <1>1, <2>2
    <3>2. x # p => hp[x].next # r
      <4>1. CASE k = m
        BY <1>1, <1>2, <3>1, <4>1
      <4>2. CASE k # m
        <5>1. k \in 1 .. m - 1 /\ k + 1 \in 1 .. m /\ (k # i - 1 => k + 1 # i)
          BY <1>2, <4>2
        <5>2. hp[x].next = c[k + 1]
          BY <1>1, <3>1, <5>1
        <5>3. x # p => k # i - 1
          BY <3>1
        <5> QED BY <1>1, <1>2, <5>1, <5>2, <5>3
      <4> QED BY <4>1, <4>2
    <3>3. x # q => hp[x].prev # r
      <4>1. CASE k = 1
        BY <1>1, <1>2, <3>1, <4>1
      <4>2. CASE k # 1
        <5>1. k - 1 \in 1 .. m - 1 /\ k - 1 \in 1 .. m /\ (k # i + 1 => k - 1 # i) /\ k - 1 + 1 = k
          BY <1>2, <4>2
        <5>2. hp[c[k - 1 + 1]].prev = c[k - 1]
          BY <1>1, <5>1
        <5>3. x # q => k # i + 1
          BY <3>1
        <5> QED BY <1>1, <1>2, <3>1, <5>1, <5>2, <5>3
      <4> QED BY <4>1, <4>2
    <3> QED BY <3>2, <3>3
  <2> QED BY <2>1, <2>2
<1>9. ASSUME NEW x \in U \ {r}
      PROVE  /\ hp2[x].elem = hp[x].elem
             /\ hp2[x].prev = IF x = q THEN p ELSE hp[x].prev
             /\ hp2[x].next = IF x = p THEN q ELSE hp[x].next
             /\ hp2[x] \in DllNodes(U \ {r})
  <2> DEFINE y == hp[x]
             a == [y EXCEPT !.next = q]
             b == [y EXCEPT !.prev = p]
             N == U \ {r}
  <2>1. y \in DllNodes(U) /\ p \in U \cup {Null} /\ q \in U \cup {Null}
    BY <1>1, <1>2
  <2>2. hp2[x] = IF x = p THEN a ELSE IF x = q THEN b ELSE y
    BY <1>7
  <2>3. (x # p => y.next # r) /\ (x # q => y.prev # r)
    BY <1>8
  <2> HIDE DEF y
  <2>4. /\ a \in DllNodes(U) /\ a.next = q /\ a.prev = y.prev /\ a.elem = y.elem
        /\ b \in DllNodes(U) /\ b.prev = p /\ b.next = y.next /\ b.elem = y.elem
    <3>1. a \in DllNodes(U) /\ a.next = q /\ a.prev = y.prev /\ a.elem = y.elem
      BY <2>1 DEF DllNodes
    <3>2. b \in DllNodes(U) /\ b.prev = p /\ b.next = y.next /\ b.elem = y.elem
      BY <2>1 DEF DllNodes
    <3> QED BY <3>1, <3>2
  <2> HIDE DEF a, b
  <2>5. \A z \in DllNodes(U) : z.next # r /\ z.prev # r => z \in DllNodes(N)
    BY DEF DllNodes
  <2>6. x # p /\ x # q => y \in DllNodes(N)
    BY <2>1, <2>3, <2>5
  <2>7. x = p => a \in DllNodes(N)
    <3>1. x = p => a.next # r /\ a.prev # r
      BY <1>2, <2>3, <2>4
    <3> QED BY <2>4, <2>5, <3>1
  <2>8. x = q => b \in DllNodes(N)
    <3>1. x = q => b.next # r /\ b.prev # r
      BY <1>2, <2>3, <2>4
    <3> QED BY <2>4, <2>5, <3>1
  <2> HIDE DEF N
  <2>9. /\ hp2[x].elem = y.elem
        /\ hp2[x].prev = IF x = q THEN p ELSE y.prev
        /\ hp2[x].next = IF x = p THEN q ELSE y.next
        /\ hp2[x] \in DllNodes(N)
    BY <1>2, <2>2, <2>4, <2>6, <2>7, <2>8
  <2> QED BY <2>9 DEF y, N
<1>10. DllHeap(hp2)
  <2>1. U \ {r} \subseteq 1 .. Room
    BY <1>1
  <2> QED BY <1>7, <1>9, <2>1 DEF DllHeap
<1>11. ASSUME NEW k \in 1 .. m - 2
       PROVE  hp2[d[k]].next = d[k + 1] /\ hp2[d[k + 1]].prev = d[k]
  <2>0. k \in Nat /\ k \in 1 .. m - 1 /\ k + 1 \in 1 .. m - 1
    BY <1>2
  <2>1. CASE k < i - 1
    <3>1. /\ k < i /\ k + 1 < i /\ k \in 1 .. m /\ k + 1 \in 1 .. m
          /\ k # i - 1 /\ k + 1 # i + 1 /\ k # i /\ k + 1 # i
      BY <1>2, <2>0, <2>1
    <3>2. d[k] = c[k] /\ d[k + 1] = c[k + 1]
      BY <1>5, <2>0, <3>1
    <3>3. c[k] # p /\ c[k + 1] # q /\ c[k] \in U \ {r} /\ c[k + 1] \in U \ {r}
      BY <1>1, <1>2, <3>1
    <3>4. hp[c[k]].next = c[k + 1] /\ hp[c[k + 1]].prev = c[k]
      BY <1>1, <2>0
    <3> QED BY <1>9, <3>2, <3>3, <3>4
  <2>2. CASE k = i - 1
    <3>1. k < i /\ ~(k + 1 < i) /\ k + 1 + 1 = i + 1
      BY <1>2, <2>0, <2>2
    <3>2. d[k] = p /\ d[k + 1] = q
      BY <1>5, <2>0, <2>2, <3>1
    <3>3. p \in U \ {r} /\ q \in U \ {r}
      BY <1>2
    <3> QED BY <1>9, <3>2, <3>3
  <2>3. CASE k >= i
    <3>1. /\ ~(k < i) /\ ~(k + 1 < i) /\ k + 1 \in 1 .. m /\ k + 1 + 1 \in 1 .. m
          /\ k + 1 # i - 1 /\ k + 1 + 1 # i + 1 /\ k + 1 # i /\ k + 1 + 1 # i
      BY <1>2, <2>0, <2>3
    <3>2. d[k] = c[k + 1] /\ d[k + 1] = c[k + 1 + 1]
      BY <1>5, <2>0, <3>1
    <3>3. /\ c[k + 1] # p /\ c[k + 1 + 1] # q
          /\ c[k + 1] \in U \ {r} /\ c[k + 1 + 1] \in U \ {r}
      BY <1>1, <1>2, <3>1
    <3>4. hp[c[k + 1]].next = c[k + 1 + 1] /\ hp[c[k + 1 + 1]].prev = c[k + 1]
      BY <1>1, <2>0
    <3> QED BY <1>9, <3>2, <3>3, <3>4
  <2> QED BY <1>2, <2>0, <2>1, <2>2, <2>3
<1>12. /\ d[1] = h /\ d[m - 1] = t /\ hp2[d[1]].prev = Null /\ hp2[d[m - 1]].next = Null
  <2>1. /\ 1 \in 1 .. m - 1 /\ m - 1 \in 1 .. m - 1 /\ 1 < i /\ ~(m - 1 < i)
        /\ m - 1 + 1 = m /\ 1 \in 1 .. m /\ m \in 1 .. m
        /\ i + 1 # 1 /\ m # i - 1 /\ i # 1 /\ i # m
    BY <1>1, <1>2
  <2>2. d[1] = c[1] /\ d[m - 1] = c[m]
    BY <1>5, <2>1
  <2>3. c[1] # q /\ c[m] # p /\ c[1] \in U \ {r} /\ c[m] \in U \ {r}
    BY <1>1, <1>2, <2>1
  <2>4. hp2[c[1]].prev = hp[c[1]].prev /\ hp2[c[m]].next = hp[c[m]].next
    BY <1>9, <2>3
  <2> QED BY <1>1, <2>2, <2>4
<1>13. ASSUME NEW k \in 1 .. m - 3
       PROVE  hp2[d[k + 1]].elem = IF k < i - 1 THEN hp[c[k + 1]].elem ELSE hp[c[k + 1 + 1]].elem
  <2>0. k \in Nat /\ k + 1 \in 1 .. m - 1
    BY <1>2
  <2>1. d[k + 1] \in U \ {r}
    BY <1>4, <2>0
  <2>2. CASE k < i - 1
    <3>1. k + 1 < i
      BY <1>2, <2>0, <2>2
    <3> QED BY <1>5, <1>9, <2>0, <2>1, <2>2, <3>1
  <2>3. CASE ~(k < i - 1)
    <3>1. ~(k + 1 < i)
      BY <1>2, <2>0, <2>3
    <3> QED BY <1>5, <1>9, <2>0, <2>1, <2>3, <3>1
  <2> QED BY <2>2, <2>3
<1>14. DllElements(d, m - 1, hp2) = Removed(DllElements(c, m, hp), m - 2, i - 1)
  <2> DEFINE E == DllElements(c, m, hp)
  <2>1. \A k \in 1 .. m - 2 : E[k] = hp[c[k + 1]].elem
    BY DEF DllElements
  <2> HIDE DEF E
  <2> DEFINE I == 1 .. m - 3
             F(k) == hp2[d[k + 1]].elem
             G(k) == IF k < i - 1 THEN E[k] ELSE E[k + 1]
  <2>2. ASSUME NEW k \in I PROVE F(k) = G(k)
    <3>1. k \in 1 .. m - 2 /\ k + 1 \in 1 .. m - 2
      BY <1>2
    <3> QED BY <1>13, <2>1, <3>1
  <2>3. DllElements(d, m - 1, hp2) = [k \in I |-> F(k)]
    <3>1. m - 1 - 2 = m - 3
      BY <1>2
    <3> QED BY <3>1 DEF DllElements
  <2>4. Removed(E, m - 2, i - 1) = [k \in I |-> G(k)]
    <3>1. m - 2 - 1 = m - 3
      BY <1>2
    <3> QED BY <3>1 DEF Removed
  <2> HIDE DEF I, F, G
  <2>5. DllElements(d, m - 1, hp2) = Removed(E, m - 2, i - 1)
    BY <2>2, <2>3, <2>4
  <2> QED BY <2>5 DEF E
<1>15. ASSUME NEW k \in 2 .. m - 2 PROVE hp2[d[k]].elem \in Values
  <2>1. k - 1 \in 1 .. m - 3 /\ k - 1 + 1 = k /\ k \in 2 .. m - 1 /\ k + 1 \in 2 .. m - 1
    BY <1>2
  <2>2. hp2[d[k - 1 + 1]].elem
          = IF k - 1 < i - 1 THEN hp[c[k - 1 + 1]].elem ELSE hp[c[k - 1 + 1 + 1]].elem
    BY <1>13, <2>1
  <2>3. hp[c[k]].elem \in Values /\ hp[c[k + 1]].elem \in Values
    BY <1>1, <2>1
  <2> QED BY <2>1, <2>2, <2>3
<1>16. DllLinks(d, m - 1, h, t, hp2)
  <2> DEFINE M == m - 1
  <2>0. M \in Nat /\ M >= 2 /\ M - 1 = m - 2
    BY <1>2
  <2>1. \A k \in 1 .. M - 1 : hp2[d[k]].next = d[k + 1] /\ hp2[d[k + 1]].prev = d[k]
    BY <1>11, <2>0
  <2>2. \A k \in 2 .. M - 1 : hp2[d[k]].elem \in Values
    BY <1>15, <2>0
  <2>3. d \in [1 .. M -> DOMAIN hp2]
    BY <1>4, <1>7
  <2>4. /\ h = d[1] /\ t = d[M] /\ hp2[d[1]].prev = Null /\ hp2[d[M]].next = Null
        /\ Distinct(d, M)
    BY <1>4, <1>12
  <2> HIDE DEF M
  <2>5. DllLinks(d, M, h, t, hp2)
    BY <2>0, <2>1, <2>2, <2>3, <2>4 DEF DllLinks
  <2> QED BY <2>5 DEF M
<1>17. (U \ {r}) \ (C \ {r}) = U \ C
  BY <1>2
<1>18. DllApart(hp2, C \ {r})
  <2> SUFFICES ASSUME NEW x \in U \ C
               PROVE  hp2[x].prev \in (U \ C) \cup {Null} /\ hp2[x].next \in (U \ C) \cup {Null}
    BY <1>7, <1>17 DEF DllApart
  <2>1. hp[x].prev \in (U \ C) \cup {Null} /\ hp[x].next \in (U \ C) \cup {Null}
    BY DEF DllApart, U, C
  <2>2. x # p /\ x # q /\ x \in U \ {r}
    BY <1>2
  <2>3. hp2[x].prev = hp[x].prev /\ hp2[x].next = hp[x].next
    BY <1>9, <2>2
  <2> QED BY <2>1, <2>3
<1> QED BY <1>3, <1>7, <1>10, <1>14, <1>16, <1>17, <1>18 DEF d, U, C

(* The recursive function at, and what Chain, Between and Elements make of it:
   the nodes of c. *)
Steps(f, N, h, a) == f = [k \in 1 .. N |-> IF k = 1 THEN h ELSE a[f[k - 1]]]

LEMMA SteppersAgree ==
  ASSUME NEW N \in Nat, NEW h, NEW a, NEW f, NEW g, Steps(f, N, h, a), Steps(g, N, h, a)
  PROVE  f = g
<1>1. ASSUME NEW p \in 1 .. N, f[p] # g[p] PROVE FALSE
  <2> DEFINE Differ == {k \in 1 .. N : f[k] # g[k]}
  <2>1. Differ # {} /\ Differ \subseteq Nat
    BY <1>1
  <2>2. PICK k \in Differ : \A j \in Differ : k <= j
    BY <2>1, LeastNumber
  <2>3. CASE k = 1
    BY <2>2, <2>3 DEF Steps
  <2>4. CASE k # 1
    <3>1. k \in 1 .. N /\ k - 1 \in 1 .. N
      BY <2>2, <2>4
    <3>2. f[k - 1] = g[k - 1]
      BY <2>2, <3>1
    <3>3. f[k] = a[f[k - 1]] /\ g[k] = a[g[k - 1]]
      BY <2>4, <3>1 DEF Steps
    <3> QED BY <2>2, <3>2, <3>3
  <2> QED BY <2>3, <2>4
<1>2. f = [k \in 1 .. N |-> f[k]] /\ g = [k \in 1 .. N |-> g[k]]
  BY DEF Steps
<1> QED BY <1>1, <1>2

LEMMA StepperChosen ==
  ASSUME NEW N, NEW h, NEW a, NEW g, Steps(g, N, h, a), NEW f,
         f = CHOOSE at : at = [k \in 1 .. N |-> IF k = 1 THEN h ELSE a[at[k - 1]]]
  PROVE  Steps(f, N, h, a)
<1>1. \E at : at = [k \in 1 .. N |-> IF k = 1 THEN h ELSE a[at[k - 1]]]
  BY DEF Steps
<1> QED BY <1>1 DEF Steps

Onward(hp) == [n \in (1 .. Room) \cup {Null} |-> IF n \in DOMAIN hp THEN hp[n].next ELSE n]

IsAt(f, h, hp) ==
  f = CHOOSE at : at = [k \in 1 .. Room |-> IF k = 1 THEN h ELSE Onward(hp)[at[k - 1]]]

LEMMA AlongSteps ==
  ASSUME NEW hp, DllHeap(hp), NEW c, NEW m, NEW h, NEW t, DllLinks(c, m, h, t, hp)
  PROVE  m <= Room /\ Steps(Along(c, m, Room), Room, h, Onward(hp))
<1> DEFINE g == Along(c, m, Room)
           a == Onward(hp)
<1>1. /\ m \in Nat /\ m >= 2 /\ c \in [1 .. m -> DOMAIN hp] /\ Distinct(c, m)
      /\ h = c[1] /\ hp[c[m]].next = Null
      /\ \A k \in 1 .. m - 1 : hp[c[k]].next = c[k + 1]
      /\ DOMAIN hp \subseteq 1 .. Room /\ Null \notin DOMAIN hp
  BY NullIsNoNode DEF DllLinks, DllHeap
<1>2. m <= Room
  <2> DEFINE I == 1 .. Room
  <2>1. IsFiniteSet(I) /\ Cardinality(I) = Room
    <3>1. Cardinality(I) = IF 1 > Room THEN 0 ELSE Room - 1 + 1
      BY RoomIsNat, FS_Interval
    <3>2. IsFiniteSet(I)
      BY RoomIsNat, FS_Interval
    <3> HIDE DEF I
    <3> QED BY RoomIsNat, <3>1, <3>2
  <2>2. c \in [1 .. m -> I]
    BY <1>1
  <2> HIDE DEF I
  <2>3. m <= Cardinality(I)
    BY <1>1, <2>1, <2>2, DistinctFit
  <2> QED BY <2>1, <2>3
<1>3. a[Null] = Null /\ \A k \in 1 .. m : a[c[k]] = hp[c[k]].next
  BY <1>1 DEF Onward
<1>4. \A k \in 1 .. Room : g[k] = IF k <= m THEN c[k] ELSE Null
  BY DEF Along
<1>5. g = [k \in 1 .. Room |-> g[k]]
  BY DEF Along
<1> HIDE DEF g, a
<1>6. ASSUME NEW k \in 1 .. Room PROVE g[k] = IF k = 1 THEN h ELSE a[g[k - 1]]
  <2>0. k \in Nat /\ Room \in Nat
    BY RoomIsNat
  <2>1. CASE k = 1
    BY <1>1, <1>4, <2>1
  <2>2. CASE k # 1
    <3>1. k - 1 \in 1 .. Room /\ k - 1 + 1 = k
      BY <2>0, <2>2
    <3>2. CASE k <= m
      <4>1. k - 1 \in 1 .. m - 1 /\ k - 1 \in 1 .. m /\ k - 1 <= m
        BY <1>1, <2>0, <2>2, <3>2
      <4>2. g[k] = c[k] /\ g[k - 1] = c[k - 1] /\ hp[c[k - 1]].next = c[k - 1 + 1]
        BY <1>1, <1>4, <3>1, <3>2, <4>1
      <4> QED BY <1>3, <2>2, <3>1, <4>1, <4>2
    <3>3. CASE k = m + 1
      <4>1. k - 1 = m /\ ~(k <= m) /\ m \in 1 .. m
        BY <1>1, <2>0, <3>3
      <4>2. g[k] = Null /\ g[k - 1] = c[m]
        BY <1>1, <1>4, <3>1, <4>1
      <4> QED BY <1>1, <1>3, <2>2, <4>1, <4>2
    <3>4. CASE k > m + 1
      <4>1. ~(k <= m) /\ ~(k - 1 <= m)
        BY <1>1, <2>0, <3>4
      <4>2. g[k] = Null /\ g[k - 1] = Null
        BY <1>4, <3>1, <4>1
      <4> QED BY <1>3, <2>2, <4>2
    <3>5. k <= m \/ k = m + 1 \/ k > m + 1
      BY <1>1, <2>0
    <3> QED BY <3>2, <3>3, <3>4, <3>5
  <2> QED BY <2>1, <2>2
<1>7. g = [k \in 1 .. Room |-> IF k = 1 THEN h ELSE a[g[k - 1]]]
  BY <1>5, <1>6
<1>8. Steps(g, Room, h, a)
  BY <1>7 DEF Steps
<1> QED BY <1>2, <1>8 DEF g, a

Reached(f, hp) == SubSeq(f, 1, Doubly!Cardinality({k \in 1 .. Room : f[k] \in DOMAIN hp}))

LEMMA ChainIsC ==
  ASSUME NEW hp, DllHeap(hp), NEW c, NEW m, NEW h, NEW t, DllLinks(c, m, h, t, hp),
         NEW f, IsAt(f, h, hp)
  PROVE  h \in DOMAIN hp /\ Reached(f, hp) = c
<1>1. /\ m \in Nat /\ m >= 2 /\ c \in [1 .. m -> DOMAIN hp] /\ h = c[1]
      /\ DOMAIN hp \subseteq 1 .. Room /\ Null \notin DOMAIN hp
  BY NullIsNoNode DEF DllLinks, DllHeap
<1>2. m <= Room /\ Steps(Along(c, m, Room), Room, h, Onward(hp))
  BY AlongSteps
<1>3. f = Along(c, m, Room)
  <2>1. Steps(f, Room, h, Onward(hp))
    BY <1>2, StepperChosen DEF IsAt
  <2> QED BY <1>2, <2>1, RoomIsNat, SteppersAgree
<1>4. \A k \in 1 .. Room : f[k] = IF k <= m THEN c[k] ELSE Null
  BY <1>3 DEF Along
<1>5. {k \in 1 .. Room : f[k] \in DOMAIN hp} = 1 .. m
  <2>1. ASSUME NEW k \in 1 .. m PROVE k \in 1 .. Room /\ f[k] \in DOMAIN hp
    <3>1. k \in 1 .. Room /\ k <= m
      BY <1>1, <1>2, RoomIsNat
    <3> QED BY <1>1, <1>4, <3>1
  <2>2. ASSUME NEW k \in 1 .. Room, f[k] \in DOMAIN hp PROVE k \in 1 .. m
    <3>1. k <= m
      BY <1>1, <1>4, <2>2
    <3> QED BY <1>1, <3>1
  <2> QED BY <2>1, <2>2
<1>6. Doubly!Cardinality(1 .. m) = m
  <2> DEFINE I == 1 .. m
  <2>1. Cardinality(I) = IF 1 > m THEN 0 ELSE m - 1 + 1
    BY <1>1, FS_Interval
  <2> HIDE DEF I
  <2>2. Doubly!Cardinality(I) = m
    BY <1>1, <2>1, DoublyCardinality
  <2> QED BY <2>2 DEF I
<1>7. SubSeq(f, 1, m) = c
  <2> DEFINE S == (1 .. Room) \cup {Null}
  <2>1. f \in [1 .. Room -> S]
    <3>1. ASSUME NEW k \in 1 .. Room PROVE f[k] \in S
      <4>1. CASE k <= m
        <5>1. k \in 1 .. m
          BY <1>1, <4>1
        <5>2. c[k] \in DOMAIN hp
          BY <1>1, <5>1
        <5> QED BY <1>1, <1>4, <4>1, <5>2
      <4>2. CASE ~(k <= m)
        BY <1>4, <4>2
      <4> QED BY <4>1, <4>2
    <3>2. f = [k \in 1 .. Room |-> f[k]]
      BY <1>3 DEF Along
    <3> HIDE DEF S
    <3> QED BY <3>1, <3>2
  <2>2. SubSeq(f, 1, m) = [k \in 1 .. m - 1 + 1 |-> f[1 + k - 1]]
    <3> HIDE DEF S
    <3>1. 1 \in 1 .. Room + 1 /\ m \in 0 .. Room /\ 1 <= m + 1
      BY <1>1, <1>2, RoomIsNat
    <3> QED BY <2>1, <3>1, RoomIsNat, PartAsFunction
  <2>3. m - 1 + 1 = m
    BY <1>1
  <2>4. \A k \in 1 .. m : f[1 + k - 1] = c[k]
    <3>1. \A k \in 1 .. m : 1 + k - 1 = k /\ k \in 1 .. Room /\ k <= m
      BY <1>1, <1>2, RoomIsNat
    <3> QED BY <1>4, <3>1
  <2> QED BY <1>1, <2>2, <2>3, <2>4
<1>8. h \in DOMAIN hp
  <2>1. 1 \in 1 .. m
    BY <1>1
  <2> QED BY <1>1, <2>1
<1> QED BY <1>5, <1>6, <1>7, <1>8 DEF Reached

LEMMA BetweenTheEnds ==
  ASSUME NEW S, NEW m \in Nat, m >= 2, NEW c \in [1 .. m -> S]
  PROVE  SubSeq(c, 2, Len(c) - 1) = [k \in 1 .. m - 2 |-> c[k + 1]]
<1>1. Len(c) = m
  OBVIOUS
<1>2. SubSeq(c, 2, m - 1) = [k \in 1 .. m - 1 - 2 + 1 |-> c[2 + k - 1]]
  <2>1. 2 \in 1 .. m + 1 /\ m - 1 \in 0 .. m /\ 2 <= m - 1 + 1
    OBVIOUS
  <2> QED BY <2>1, PartAsFunction
<1>3. m - 1 - 2 + 1 = m - 2 /\ \A k \in 1 .. m - 2 : 2 + k - 1 = k + 1
  OBVIOUS
<1> QED BY <1>1, <1>2, <1>3

LEMMA DllNow ==
  ASSUME NEW c, NEW m, DllHeap(heap), DllLinks(c, m, header, trailer, heap)
  PROVE  /\ header \in DOMAIN heap /\ Doubly!Chain = c
         /\ Doubly!Between = [k \in 1 .. m - 2 |-> c[k + 1]]
         /\ Doubly!Elements = DllElements(c, m, heap)
<1>1. Doubly!after = Onward(heap)
  BY DEF Doubly!after, Onward, Doubly!InUse
<1>2. header \in DOMAIN heap /\ Reached(Doubly!at, heap) = c
  <2>1. IsAt(Doubly!at, header, heap)
    BY <1>1 DEF Doubly!at, IsAt
  <2> QED BY <2>1, ChainIsC
<1>3. Doubly!Chain = c
  BY <1>2 DEF Doubly!Chain, Doubly!InUse, Reached
<1>4. m \in Nat /\ m >= 2 /\ c \in [1 .. m -> DOMAIN heap]
  BY DEF DllLinks
<1>5. Doubly!Between = [k \in 1 .. m - 2 |-> c[k + 1]]
  BY <1>3, <1>4, BetweenTheEnds DEF Doubly!Between
<1>6. Doubly!Elements = DllElements(c, m, heap)
  BY <1>5 DEF Doubly!Elements, DllElements
<1> QED BY <1>2, <1>3, <1>5, <1>6

LEMMA DllNext ==
  ASSUME NEW c, NEW m, DllHeap(heap'), DllLinks(c, m, header', trailer', heap')
  PROVE  Doubly!Elements' = DllElements(c, m, heap')
<1>1. Doubly!after' = Onward(heap')
  BY DEF Doubly!after, Onward, Doubly!InUse
<1>2. header' \in DOMAIN heap' /\ Reached(Doubly!at', heap') = c
  <2>1. IsAt(Doubly!at', header', heap')
    BY <1>1 DEF Doubly!at, IsAt
  <2> QED BY <2>1, ChainIsC
<1>3. Doubly!Chain' = c
  BY <1>2 DEF Doubly!Chain, Doubly!InUse, Reached
<1>4. m \in Nat /\ m >= 2 /\ c \in [1 .. m -> DOMAIN heap']
  BY DEF DllLinks
<1>5. Doubly!Between' = [k \in 1 .. m - 2 |-> c[k + 1]]
  BY <1>3, <1>4, BetweenTheEnds DEF Doubly!Between
<1> QED BY <1>5 DEF Doubly!Elements, DllElements

(* Without a header in use there are no elements. *)
LEMMA NoneBetween == SubSeq(<< >>, 2, Len(<< >>) - 1) = << >>
  OBVIOUS

LEMMA NoElements ==
  /\ header \notin DOMAIN heap =>
       Doubly!Chain = << >> /\ Doubly!Between = << >> /\ Doubly!Elements = << >>
  /\ header' \notin DOMAIN heap' => Doubly!Elements' = << >>
BY NoneBetween DEF Doubly!Chain, Doubly!Between, Doubly!Elements, Doubly!InUse

(* An element put in at a place where a list may get one, or taken out where
   one may go, is a step of the abstract list. *)
LEMMA InsertedNextBefore ==
  ASSUME NEW m \in Nat, Doubly!Elements \in [1 .. m -> Values],
         NEW i \in 1 .. m + 1, NEW v \in Values,
         Doubly!Elements' = Inserted(Doubly!Elements, m, i, v),
         i \in {1, m + 1} \/ i \in Doubly!L!Firsts(Doubly!Elements)
  PROVE  Doubly!L!NextBefore
<1> DEFINE e == Doubly!Elements
<1>1. e \in [1 .. m -> Values]
  OBVIOUS
<1>2. CASE i = 1
  <2>1. e' = <<v>> \o e
    BY <1>1, <1>2, PrependIsInserted
  <2> QED BY <2>1 DEF Doubly!L!NextBefore, Doubly!L!Outcomes, Doubly!L!AddedFirst
<1>3. CASE i = m + 1
  <2>1. e' = Append(e, v)
    BY <1>1, <1>3, AppendIsInserted
  <2> QED BY <2>1 DEF Doubly!L!NextBefore, Doubly!L!Outcomes, Doubly!L!AddedLast
<1>4. CASE i \in Doubly!L!Firsts(e)
  <2>1. e' = SubSeq(e, 1, i - 1) \o <<v>> \o SubSeq(e, i, Len(e))
    <3> HIDE DEF e
    <3>1. SubSeq(e, 1, i - 1) \o <<v>> \o SubSeq(e, i, Len(e)) = Inserted(e, m, i, v)
      BY <1>1, InsertAtIsInserted
    <3> QED BY <3>1 DEF e
  <2>2. e' = Doubly!L!InsertAt(e, i, v)
    BY <2>1 DEF Doubly!L!InsertAt
  <2> HIDE DEF e
  <2>3. e' \in Doubly!L!AddedBefore(e)
    BY <1>4, <2>2 DEF Doubly!L!AddedBefore
  <2> QED BY <2>3, Zenon DEF Doubly!L!NextBefore, e
<1> QED BY <1>2, <1>3, <1>4

LEMMA RemovedNextBefore ==
  ASSUME NEW m \in Nat, Doubly!Elements \in [1 .. m -> Values], NEW i \in 1 .. m,
         Doubly!Elements' = Removed(Doubly!Elements, m, i),
         i \in {1, m} \/ i \in Doubly!L!Firsts(Doubly!Elements)
  PROVE  Doubly!L!NextBefore
<1> DEFINE e == Doubly!Elements
<1>1. e \in [1 .. m -> Values] /\ m \in Nat \ {0} /\ DOMAIN e = 1 .. m
  OBVIOUS
<1>2. CASE i = 1
  <2>1. e' = Tail(e)
    BY <1>1, <1>2, TailIsRemoved
  <2> QED BY <1>1, <2>1 DEF Doubly!L!NextBefore, Doubly!L!Outcomes, Doubly!L!FirstRemoved
<1>3. CASE i = m
  <2>1. e' = SubSeq(e, 1, Len(e) - 1)
    BY <1>1, <1>3, FrontIsRemoved
  <2>2. e' = Doubly!L!Front(e)
    BY <2>1 DEF Doubly!L!Front
  <2> QED BY <1>1, <2>2 DEF Doubly!L!NextBefore, Doubly!L!Outcomes, Doubly!L!LastRemoved
<1>4. CASE i \in Doubly!L!Firsts(e)
  <2>1. e' = SubSeq(e, 1, i - 1) \o SubSeq(e, i + 1, Len(e))
    <3> HIDE DEF e
    <3>1. SubSeq(e, 1, i - 1) \o SubSeq(e, i + 1, Len(e)) = Removed(e, m, i)
      BY <1>1, RemoveAtIsRemoved
    <3> QED BY <3>1 DEF e
  <2>2. e' = Doubly!L!RemoveAt(e, i)
    BY <2>1 DEF Doubly!L!RemoveAt
  <2> HIDE DEF e
  <2>3. e' \in Doubly!L!TargetRemoved(e)
    BY <1>4, <2>2, Zenon DEF Doubly!L!TargetRemoved
  <2> QED BY <2>3, Zenon DEF Doubly!L!NextBefore, Doubly!L!Outcomes, e
<1> QED BY <1>2, <1>3, <1>4

(* What is left of a heap without a chain, and with only its ends *)
LEMMA DllRest ==
  ASSUME NEW hp, DllHeap(hp), NEW C, DllApart(hp, C),
         NEW hp2, hp2 = [x \in DOMAIN hp \ C |-> hp[x]]
  PROVE  DllHeap(hp2) /\ DOMAIN hp2 = DOMAIN hp \ C
<1> DEFINE E == DOMAIN hp \ C
<1>1. /\ \A x \in DOMAIN hp : hp[x] \in DllNodes(DOMAIN hp)
      /\ DOMAIN hp \subseteq 1 .. Room
  BY DEF DllHeap
<1>2. \A x \in E : hp[x].prev \in E \cup {Null} /\ hp[x].next \in E \cup {Null}
  BY DEF DllApart
<1>3. ASSUME NEW x \in E PROVE hp[x] \in DllNodes(E)
  <2>1. hp[x] \in DllNodes(DOMAIN hp)
    BY <1>1
  <2>2. hp[x].prev \in E \cup {Null} /\ hp[x].next \in E \cup {Null}
    BY <1>2
  <2> HIDE DEF E
  <2> QED BY <2>1, <2>2 DEF DllNodes
<1>4. DOMAIN hp2 = E /\ \A x \in E : hp2[x] = hp[x]
  OBVIOUS
<1>5. hp2 = [x \in DOMAIN hp2 |-> hp2[x]]
  OBVIOUS
<1>6. E \subseteq 1 .. Room
  BY <1>1
<1> HIDE DEF E
<1>7. DllHeap(hp2)
  BY <1>3, <1>4, <1>5, <1>6 DEF DllHeap
<1> QED BY <1>4, <1>7 DEF E

Ends(h, t) == [k \in 1 .. 2 |-> IF k = 1 THEN h ELSE t]

LEMMA EndsAlone ==
  ASSUME NEW h, NEW t, h # t
  PROVE  /\ Ends(h, t) \in [1 .. 2 -> {h, t}] /\ Distinct(Ends(h, t), 2)
         /\ Ends(h, t)[1] = h /\ Ends(h, t)[2] = t
         /\ Members(Ends(h, t), 2) = {h, t}
<1>1. 1 .. 2 = {1, 2}
  OBVIOUS
<1>2. Ends(h, t)[1] = h /\ Ends(h, t)[2] = t /\ Ends(h, t) \in [1 .. 2 -> {h, t}]
  BY <1>1 DEF Ends
<1> QED BY <1>1, <1>2 DEF Distinct, Members

KeptOf(hp, c, m, h, t, hp2) ==
  /\ DllHeap(hp) /\ DllLinks(c, m, h, t, hp) /\ DllApart(hp, Members(c, m))
  /\ hp2 = [x \in DOMAIN hp \ {c[k] : k \in 2 .. m - 1} |->
               IF x = h THEN [hp[x] EXCEPT !.next = t]
               ELSE IF x = t THEN [hp[x] EXCEPT !.prev = h]
               ELSE hp[x]]

OnlyEnds(hp, C, h, t, hp2) ==
  /\ DllHeap(hp2) /\ DllLinks(Ends(h, t), 2, h, t, hp2) /\ DllApart(hp2, {h, t})
  /\ {h, t} \subseteq DOMAIN hp2 /\ h # t /\ DOMAIN hp2 \ {h, t} = DOMAIN hp \ C
  /\ \A x \in DOMAIN hp2 \ {h, t} : hp2[x] = hp[x]
  /\ DllElements(Ends(h, t), 2, hp2) = << >>

LEMMA DllKept ==
  ASSUME NEW hp, NEW c, NEW m, NEW h, NEW t, NEW hp2, KeptOf(hp, c, m, h, t, hp2)
  PROVE  OnlyEnds(hp, Members(c, m), h, t, hp2)
<1>0. /\ DllHeap(hp) /\ DllLinks(c, m, h, t, hp) /\ DllApart(hp, Members(c, m)) /\ m \in Nat
  BY DEF KeptOf, DllLinks
<1> USE <1>0
<1> DEFINE B == {c[k] : k \in 2 .. m - 1}
<1>b. hp2 = [x \in DOMAIN hp \ B |->
               IF x = h THEN [hp[x] EXCEPT !.next = t]
               ELSE IF x = t THEN [hp[x] EXCEPT !.prev = h]
               ELSE hp[x]]
  BY DEF KeptOf
<1> DEFINE C == Members(c, m)
           U == DOMAIN hp
           R == U \ C
           E == R \cup {h, t}
<1>1. /\ m >= 2 /\ \A j, k \in 1 .. m : c[j] = c[k] => j = k
      /\ h = c[1] /\ t = c[m] /\ hp[c[1]].prev = Null /\ hp[c[m]].next = Null
      /\ \A k \in 1 .. m : c[k] \in U /\ c[k] \in C
      /\ \A n \in C : n \in U /\ \E k \in 1 .. m : n = c[k]
      /\ U \subseteq 1 .. Room
      /\ \A n \in U : hp[n] \in DllNodes(U)
  BY DllParts
<1>2. 1 \in 1 .. m /\ m \in 1 .. m /\ 1 # m
  BY <1>1
<1>3. h \in U /\ t \in U /\ h # t /\ h \in C /\ t \in C /\ hp[h].prev = Null /\ hp[t].next = Null
  BY <1>1, <1>2
<1>4. ASSUME NEW k \in 1 .. m PROVE c[k] \in B <=> c[k] \notin {h, t}
  <2>1. k \in 2 .. m - 1 <=> k # 1 /\ k # m
    BY <1>1
  <2>2. k # 1 /\ k # m => c[k] \notin {h, t}
    BY <1>1, <1>2
  <2>3. c[k] \in B => k \in 2 .. m - 1
    <3>1. ASSUME c[k] \in B PROVE k \in 2 .. m - 1
      <4>1. PICK j \in 2 .. m - 1 : c[k] = c[j]
        BY <3>1
      <4>2. j \in 1 .. m
        BY <1>1
      <4> QED BY <1>1, <4>1, <4>2
    <3> QED BY <3>1
  <2> QED BY <1>1, <2>1, <2>2, <2>3
<1>5. U \ B = E
  <2>1. ASSUME NEW x \in U PROVE x \notin B <=> x \in E
    <3>1. CASE x \in C
      BY <1>1, <1>4, <3>1
    <3>2. CASE x \notin C
      <4>1. x \notin B
        <5>1. \A k \in 2 .. m - 1 : k \in 1 .. m
          BY <1>1
        <5> QED BY <1>1, <3>2, <5>1
      <4> QED BY <3>2, <4>1
    <3> QED BY <3>1, <3>2
  <2> QED BY <1>3, <2>1
<1>6. \A x \in R : /\ hp[x].prev \in R \cup {Null} /\ hp[x].next \in R \cup {Null}
                   /\ x # h /\ x # t /\ x \in U
  BY <1>3 DEF DllApart
<1> DEFINE a == [hp[h] EXCEPT !.next = t]
           b == [hp[t] EXCEPT !.prev = h]
<1>7. /\ DOMAIN hp2 = E /\ hp2 = [x \in DOMAIN hp2 |-> hp2[x]]
      /\ hp2[h] = a /\ hp2[t] = b
      /\ \A x \in R : hp2[x] = hp[x]
  <2> HIDE DEF B
  <2> QED BY <1>3, <1>5, <1>6, <1>b
<1>8. R \subseteq U /\ h \notin R /\ t \notin R
  BY <1>3
<1> HIDE DEF C, U, R, a, b
<1>9. /\ a \in DllNodes(E) /\ a.prev = Null /\ a.next = t
      /\ b \in DllNodes(E) /\ b.next = Null /\ b.prev = h
  BY <1>1, <1>3 DEF DllNodes, a, b
<1>10. ASSUME NEW x \in R PROVE hp[x] \in DllNodes(E)
  <2>1. hp[x] \in DllNodes(U) /\ hp[x].prev \in E \cup {Null} /\ hp[x].next \in E \cup {Null}
    BY <1>1, <1>6
  <2> HIDE DEF E
  <2> QED BY <2>1 DEF DllNodes
<1>11. DllHeap(hp2)
  <2>1. E \subseteq 1 .. Room
    BY <1>1, <1>3, <1>8
  <2>2. \A x \in E : hp2[x] \in DllNodes(E)
    BY <1>7, <1>9, <1>10
  <2> HIDE DEF E
  <2> QED BY <1>7, <2>1, <2>2 DEF DllHeap
<1>12. /\ Ends(h, t) \in [1 .. 2 -> {h, t}] /\ Distinct(Ends(h, t), 2)
       /\ Ends(h, t)[1] = h /\ Ends(h, t)[2] = t
  BY <1>3, EndsAlone
<1>13. DllLinks(Ends(h, t), 2, h, t, hp2)
  <2>1. /\ 2 \in Nat /\ 2 >= 2 /\ 1 .. 2 - 1 = {1} /\ 2 .. 2 - 1 = {} /\ 1 + 1 = 2
    OBVIOUS
  <2>2. Ends(h, t) \in [1 .. 2 -> DOMAIN hp2]
    BY <1>7, <1>12
  <2> DEFINE d == Ends(h, t)
  <2>3. hp2[h].prev = Null /\ hp2[t].next = Null /\ hp2[h].next = t /\ hp2[t].prev = h
    BY <1>7, <1>9
  <2>4. d[1] = h /\ d[2] = t /\ Distinct(d, 2) /\ d \in [1 .. 2 -> DOMAIN hp2]
    BY <1>12, <2>2
  <2> HIDE DEF d
  <2>5. \A k \in 1 .. 2 - 1 : hp2[d[k]].next = d[k + 1] /\ hp2[d[k + 1]].prev = d[k]
    BY <2>1, <2>3, <2>4
  <2>6. \A k \in 2 .. 2 - 1 : hp2[d[k]].elem \in Values
    BY <2>1
  <2>7. DllLinks(d, 2, h, t, hp2)
    BY <2>3, <2>4, <2>5, <2>6 DEF DllLinks
  <2> QED BY <2>7 DEF d
<1>14. E \ {h, t} = R
  BY <1>8
<1>15. DllApart(hp2, {h, t})
  BY <1>6, <1>7, <1>14 DEF DllApart
<1>16. DllElements(Ends(h, t), 2, hp2) = << >>
  BY DEF DllElements
<1> QED BY <1>3, <1>7, <1>11, <1>13, <1>14, <1>15, <1>16 DEF R, C, U, OnlyEnds

(* The nodes of a chain as sets *)
LEMMA ChainAsSet ==
  ASSUME NEW m \in Nat, NEW S, NEW c \in [1 .. m -> S]
  PROVE  Doubly!ToSet(c) = Members(c, m)
BY DEF Doubly!ToSet, Members

LEMMA BetweenAsSet ==
  ASSUME NEW m \in Nat, m >= 2, NEW c, NEW b, b = [k \in 1 .. m - 2 |-> c[k + 1]]
  PROVE  Doubly!ToSet(b) = {c[k] : k \in 2 .. m - 1} /\ Len(b) = m - 2
<1>1. DOMAIN b = 1 .. m - 2 /\ \A k \in 1 .. m - 2 : b[k] = c[k + 1]
  OBVIOUS
<1>2. Len(b) = m - 2
  OBVIOUS
<1>3. ASSUME NEW x PROVE x \in Doubly!ToSet(b) <=> x \in {c[k] : k \in 2 .. m - 1}
  <2>1. ASSUME NEW k \in 1 .. m - 2, x = b[k] PROVE \E j \in 2 .. m - 1 : x = c[j]
    <3>1. k + 1 \in 2 .. m - 1
      OBVIOUS
    <3> QED BY <1>1, <2>1, <3>1
  <2>2. ASSUME NEW j \in 2 .. m - 1, x = c[j] PROVE \E k \in 1 .. m - 2 : x = b[k]
    <3>1. j - 1 \in 1 .. m - 2 /\ j - 1 + 1 = j
      OBVIOUS
    <3> QED BY <1>1, <2>2, <3>1
  <2> QED BY <1>1, <2>1, <2>2 DEF Doubly!ToSet
<1> QED BY <1>2, <1>3

(* The nodes of a DLL that is neither destroyed nor moved from are a chain
   between its sentinels, both ways, and its count is at least that of the
   elements.  In careful hands it is the same, and every other node in use is
   one that an assignment has forgotten. *)
DllChain(c, m) ==
  /\ DllLinks(c, m, header, trailer, heap) /\ DllApart(heap, Members(c, m))
  /\ dllSize >= m - 2
  /\ dllCareful => dllSize = m - 2 /\ DOMAIN heap \ Members(c, m) = forgotten

DllInv ==
  /\ DllHeap(heap) /\ dllSize \in Nat
  /\ ~exists => header = Null /\ trailer = Null /\ ~moved /\ dllSize = 0
  /\ moved => /\ exists /\ dllSize = 0 /\ ~dllCareful
              /\ header \notin DOMAIN heap /\ trailer \notin DOMAIN heap
  /\ exists /\ ~moved => \E c, m : DllChain(c, m)
  /\ dllCareful => dllDefined /\ (~exists => DOMAIN heap = forgotten)

DllStep == DllInv' /\ (dllCareful' => Doubly!L!NextBefore \/ UNCHANGED Doubly!Elements)

LEMMA InitDll == Doubly!Init => DllInv
BY DEF Doubly!Init, DllInv, DllHeap

LEMMA DllSame == ASSUME DllInv, UNCHANGED dllVars PROVE DllStep
<1> USE DEF dllVars
<1>1. DllInv'
  BY DEF DllInv, DllChain
<1>2. UNCHANGED Doubly!Elements
  BY DEF Doubly!Elements, Doubly!Between, Doubly!Chain, Doubly!InUse, Doubly!at, Doubly!after
<1> QED BY <1>1, <1>2 DEF DllStep

(* Nothing undefined happens in careful hands. *)
LEMMA DllUndefined ==
  ASSUME DllInv, ~dllCareful, Doubly!Undefined
  PROVE  DllStep
<1> USE DEF Doubly!Undefined, Doubly!members, Doubly!history
<1>1. DllInv'
  BY DEF DllInv, DllChain
<1> QED BY <1>1 DEF DllStep

(* Where a search ends *)
LEMMA DllFound ==
  ASSUME NEW c, NEW m, DllHeap(heap), DllLinks(c, m, header, trailer, heap),
         NEW v, NEW n \in Doubly!FirstWith(v)
  PROVE  \E k \in 1 .. m - 2 : n = c[k + 1] /\ k \in Doubly!L!Firsts(Doubly!Elements)
<1>1. /\ Doubly!Between = [k \in 1 .. m - 2 |-> c[k + 1]]
      /\ Doubly!Elements = [k \in 1 .. m - 2 |-> heap[c[k + 1]].elem]
  BY DllNow DEF DllElements
<1> DEFINE b == Doubly!Between
           e == Doubly!Elements
<1>2. DOMAIN b = 1 .. m - 2 /\ \A k \in 1 .. m - 2 : b[k] = c[k + 1]
  BY <1>1
<1>3. DOMAIN e = 1 .. m - 2 /\ \A k \in 1 .. m - 2 : e[k] = heap[c[k + 1]].elem
  BY <1>1
<1>4. PICK k \in DOMAIN b : /\ n = b[k] /\ heap[b[k]].elem = v
                            /\ \A j \in 1 .. k - 1 : heap[b[j]].elem # v
  BY DEF Doubly!FirstWith
<1> HIDE DEF b, e
<1>5. m \in Nat
  BY DEF DllLinks
<1>6. k \in 1 .. m - 2 /\ \A j \in 1 .. k - 1 : j \in 1 .. m - 2
  BY <1>2, <1>4, <1>5
<1>7. e[k] = v /\ \A j \in 1 .. k - 1 : e[j] # v
  BY <1>2, <1>3, <1>4, <1>6
<1>8. k \in Doubly!L!Firsts(e)
  BY <1>3, <1>6, <1>7 DEF Doubly!L!Firsts
<1> QED BY <1>2, <1>4, <1>6, <1>8 DEF e

(* What the list's elements are, and the size of its chain *)
LEMMA DllShape ==
  ASSUME DllHeap(heap), NEW c, NEW m, DllChain(c, m)
  PROVE  /\ m \in Nat /\ m >= 2 /\ m - 2 \in Nat /\ m - 1 \in 1 .. m /\ m \in 1 .. m
         /\ c[1] = header /\ c[m] = trailer /\ header # trailer
         /\ header \in DOMAIN heap /\ trailer \in DOMAIN heap
         /\ \A k \in 1 .. m : c[k] \in DOMAIN heap
         /\ heap[header].next = c[2] /\ heap[trailer].prev = c[m - 1]
         /\ heap[header].prev = Null /\ heap[trailer].next = Null
         /\ \A k \in 1 .. m - 1 : heap[c[k]].next = c[k + 1] /\ heap[c[k + 1]].prev = c[k]
         /\ DllElements(c, m, heap) \in [1 .. m - 2 -> Values]
<1>1. DllLinks(c, m, header, trailer, heap)
  BY DEF DllChain
<1>2. /\ m \in Nat /\ m >= 2
      /\ \A j, k \in 1 .. m : c[j] = c[k] => j = k
      /\ header = c[1] /\ trailer = c[m] /\ heap[c[1]].prev = Null /\ heap[c[m]].next = Null
      /\ \A k \in 1 .. m - 1 : heap[c[k]].next = c[k + 1] /\ heap[c[k + 1]].prev = c[k]
      /\ \A k \in 2 .. m - 1 : heap[c[k]].elem \in Values
      /\ \A k \in 1 .. m : c[k] \in DOMAIN heap
  BY <1>1, DllParts
<1>3. /\ m - 2 \in Nat /\ m - 1 \in 1 .. m - 1 /\ 1 \in 1 .. m - 1 /\ 1 # m
      /\ 1 \in 1 .. m /\ m \in 1 .. m /\ m - 1 + 1 = m /\ 1 + 1 = 2 /\ m - 1 \in 1 .. m
      /\ \A k \in 1 .. m - 2 : k + 1 \in 2 .. m - 1
  BY <1>2
<1>4. heap[header].next = c[2] /\ heap[trailer].prev = c[m - 1] /\ header # trailer
  BY <1>2, <1>3
<1>5. DllElements(c, m, heap) \in [1 .. m - 2 -> Values]
  BY <1>2, <1>3 DEF DllElements
<1> QED BY <1>2, <1>3, <1>4, <1>5

(* An element is put in between two neighbours. *)
LEMMA DllPutsIn ==
  ASSUME DllInv, exists, ~moved, dllDefined, NEW c, NEW m, DllChain(c, m),
         NEW i \in 1 .. m - 1, NEW v \in Values, NEW p, p = c[i], NEW q, q = c[i + 1],
         Doubly!addBetween(v, p, q),
         i \in {1, m - 1} \/ i \in Doubly!L!Firsts(Doubly!Elements)
  PROVE  DllStep
<1> DEFINE S == (1 .. Room) \ DOMAIN heap
           hp2 == heap'
           e == Doubly!Elements
<1>0. PICK n : n = Doubly!Free[1]
  OBVIOUS
<1>d. PICK d : d = Inserted(c, m, i + 1, n)
  OBVIOUS
<1>1. /\ DllHeap(heap) /\ dllSize \in Nat /\ m \in Nat /\ m >= 2 /\ m - 2 \in Nat
      /\ \A k \in 1 .. m : c[k] \in DOMAIN heap
      /\ DllElements(c, m, heap) \in [1 .. m - 2 -> Values]
  BY DllShape DEF DllInv
<1>2. p \in DOMAIN heap /\ q \in DOMAIN heap
  <2>1. i \in 1 .. m /\ i + 1 \in 1 .. m
    BY <1>1
  <2> QED BY <1>1, <2>1
<1>3. /\ Doubly!Free # << >>
      /\ heap' = OneMore(heap, n, v, p, q)
      /\ dllSize' = dllSize + 1
      /\ UNCHANGED <<exists, header, trailer, dllDefined, moved, forgotten, dllCareful>>
  BY <1>0, <1>2
     DEF Doubly!addBetween, Doubly!InUse, Doubly!members, Doubly!history, OneMore
<1>4. n \in S
  <2>1. Doubly!Free = Doubly!FreeBeside(DOMAIN heap)
    BY DEF Doubly!Free, Doubly!InUse
  <2> DEFINE N == Cardinality(S)
             f == Doubly!Free
  <2>2. N \in Nat /\ f \in [1 .. N -> S]
    BY <2>1, FreeNodes
  <2> HIDE DEF N, f, S
  <2>3. N # 0
    <3>1. ASSUME N = 0 PROVE FALSE
      <4>1. f = << >>
        BY <2>2, <3>1
      <4> QED BY <1>3, <4>1 DEF f
    <3> QED BY <3>1
  <2>4. f[1] \in S
    BY <2>2, <2>3
  <2> QED BY <1>0, <2>4 DEF f
<1>5. DllLinks(c, m, header, trailer, heap) /\ DllApart(heap, Members(c, m))
  BY DEF DllChain
<1>6. /\ DllHeap(hp2) /\ DllLinks(d, m + 1, header, trailer, hp2)
      /\ DllApart(hp2, Members(d, m + 1))
      /\ DOMAIN hp2 \ Members(d, m + 1) = DOMAIN heap \ Members(c, m)
      /\ DllElements(d, m + 1, hp2) = Inserted(DllElements(c, m, heap), m - 2, i, v)
  <2>1. hp2 = OneMore(heap, n, v, p, q)
    BY <1>3
  <2> HIDE DEF hp2
  <2> QED BY <1>1, <1>4, <1>5, <1>d, <2>1, DllInsert
<1>7. DllChain(d, m + 1)'
  <2>1. dllSize + 1 >= (m + 1) - 2 /\ (dllSize = m - 2 => dllSize + 1 = (m + 1) - 2)
    BY <1>1 DEF DllChain
  <2>2. DllLinks(d, m + 1, header', trailer', heap') /\ DllApart(heap', Members(d, m + 1))
    BY <1>3, <1>6
  <2>3. dllSize' >= (m + 1) - 2
    BY <1>3, <2>1
  <2>4. dllCareful' => dllSize' = (m + 1) - 2
    BY <1>3, <2>1 DEF DllChain
  <2>5. dllCareful' => DOMAIN heap' \ Members(d, m + 1) = forgotten'
    BY <1>3, <1>6 DEF DllChain
  <2> QED BY <2>2, <2>3, <2>4, <2>5 DEF DllChain
<1>8. DllInv'
  BY <1>1, <1>3, <1>6, <1>7 DEF DllInv
<1>9. e' = Inserted(e, m - 2, i, v) /\ e \in [1 .. m - 2 -> Values]
  <2>1. e = DllElements(c, m, heap)
    BY <1>1, <1>5, DllNow
  <2>2. e' = DllElements(d, m + 1, heap')
    <3>1. DllHeap(heap') /\ DllLinks(d, m + 1, header', trailer', heap')
      BY <1>3, <1>6
    <3> QED BY <3>1, DllNext
  <2> QED BY <1>1, <1>6, <2>1, <2>2
<1>10. Doubly!L!NextBefore
  <2> DEFINE M == m - 2
  <2>1. M \in Nat /\ i \in 1 .. M + 1 /\ (i \in {1, M + 1} \/ i \in Doubly!L!Firsts(e))
    BY <1>1
  <2> HIDE DEF M
  <2>2. e' = Inserted(e, M, i, v) /\ e \in [1 .. M -> Values]
    BY <1>9 DEF M
  <2> QED BY <2>1, <2>2, InsertedNextBefore
<1> QED BY <1>8, <1>10 DEF DllStep

(* A node between the sentinels is taken out. *)
LEMMA DllTakesOut ==
  ASSUME DllInv, exists, ~moved, dllDefined, NEW c, NEW m, DllChain(c, m),
         NEW i \in 2 .. m - 1, NEW r, r = c[i], Doubly!remove(r),
         i \in {2, m - 1} \/ i - 1 \in Doubly!L!Firsts(Doubly!Elements)
  PROVE  DllStep
<1> DEFINE p == c[i - 1]
           q == c[i + 1]
           d == Removed(c, m, i)
           hp2 == heap'
           e == Doubly!Elements
<1>1. /\ DllHeap(heap) /\ dllSize \in Nat /\ m \in Nat /\ m >= 2 /\ m - 2 \in Nat
      /\ \A k \in 1 .. m : c[k] \in DOMAIN heap
      /\ \A k \in 1 .. m - 1 : heap[c[k]].next = c[k + 1] /\ heap[c[k + 1]].prev = c[k]
      /\ DllElements(c, m, heap) \in [1 .. m - 2 -> Values]
  BY DllShape DEF DllInv
<1>2. p \in DOMAIN heap /\ q \in DOMAIN heap /\ heap[r].prev = p /\ heap[r].next = q
  <2>1. /\ i - 1 \in 1 .. m /\ i + 1 \in 1 .. m /\ i \in 1 .. m - 1 /\ i - 1 \in 1 .. m - 1
        /\ i - 1 + 1 = i
    BY <1>1
  <2>2. heap[c[i]].next = c[i + 1] /\ heap[c[i - 1 + 1]].prev = c[i - 1]
    BY <1>1, <2>1
  <2> QED BY <1>1, <2>1, <2>2
<1> HIDE DEF p, q
<1>3. /\ heap' = OneLess(heap, r, p, q)
      /\ dllSize' = dllSize - 1
      /\ UNCHANGED <<exists, header, trailer, dllDefined, moved, forgotten, dllCareful>>
  BY <1>2 DEF Doubly!remove, Doubly!InUse, Doubly!members, Doubly!history, OneLess
<1>5. DllLinks(c, m, header, trailer, heap) /\ DllApart(heap, Members(c, m))
  BY DEF DllChain
<1>6. /\ DllHeap(hp2) /\ DllLinks(d, m - 1, header, trailer, hp2)
      /\ DllApart(hp2, Members(d, m - 1))
      /\ DOMAIN hp2 \ Members(d, m - 1) = DOMAIN heap \ Members(c, m)
      /\ DllElements(d, m - 1, hp2) = Removed(DllElements(c, m, heap), m - 2, i - 1)
  <2>1. hp2 = OneLess(heap, r, p, q)
    BY <1>3
  <2>2. p = c[i - 1] /\ q = c[i + 1]
    BY DEF p, q
  <2> HIDE DEF hp2, d
  <2> QED BY <1>1, <1>5, <2>1, <2>2, DllRemove DEF d
<1> HIDE DEF d
<1>7. dllSize - 1 \in Nat /\ DllChain(d, m - 1)'
  <2>1. /\ dllSize - 1 \in Nat /\ dllSize - 1 >= m - 1 - 2
        /\ (dllSize = m - 2 => dllSize - 1 = m - 1 - 2)
    BY <1>1 DEF DllChain
  <2> QED BY <1>3, <1>6, <2>1 DEF DllChain
<1>8. DllInv'
  BY <1>1, <1>3, <1>6, <1>7 DEF DllInv
<1>9. e' = Removed(e, m - 2, i - 1) /\ e \in [1 .. m - 2 -> Values]
  <2>1. e = DllElements(c, m, heap)
    BY <1>1, <1>5, DllNow
  <2>2. e' = DllElements(d, m - 1, heap')
    <3>1. DllHeap(heap') /\ DllLinks(d, m - 1, header', trailer', heap')
      BY <1>3, <1>6
    <3> QED BY <3>1, DllNext
  <2> QED BY <1>1, <1>6, <2>1, <2>2
<1>10. Doubly!L!NextBefore
  <2> DEFINE M == m - 2
             j == i - 1
  <2>1. M \in Nat /\ j \in 1 .. M /\ (j \in {1, M} \/ j \in Doubly!L!Firsts(e))
    BY <1>1
  <2> HIDE DEF M, j
  <2>2. e' = Removed(e, M, j) /\ e \in [1 .. M -> Values]
    BY <1>9 DEF M, j
  <2> QED BY <2>1, <2>2, RemovedNextBefore
<1> QED BY <1>8, <1>10 DEF DllStep

(* The nodes that a copy takes from the heap *)
LEMMA SourceAsFunction ==
  ASSUME NEW s \in Sources
  PROVE  Len(s) \in Nat /\ s \in [1 .. Len(s) -> Values]
<1>1. PICK k \in 0 .. MaxCopied : s \in [1 .. k -> Values]
  BY DEF Sources
<1>2. k \in Nat /\ Len(s) = k
  BY <1>1, MaxCopiedIsNat
<1> QED BY <1>1, <1>2

FreeFor(U, l, b) ==
  /\ l \in Nat /\ Len(Doubly!FreeBeside(U)) >= l
  /\ b = SubSeq(Doubly!FreeBeside(U), 1, l)

LEMMA FreePart ==
  ASSUME NEW U, NEW l, NEW b, FreeFor(U, l, b)
  PROVE  b \in [1 .. l -> (1 .. Room) \ U] /\ Distinct(b, l) /\ Len(b) = l
<1> DEFINE S == (1 .. Room) \ U
           N == Cardinality(S)
           f == Doubly!FreeBeside(U)
<1>1. N \in Nat /\ f \in [1 .. N -> S] /\ Distinct(f, N)
  BY FreeNodes
<1>2. b = SubSeq(f, 1, l) /\ Len(f) >= l /\ l \in Nat
  BY DEF FreeFor
<1> HIDE DEF S, N, f
<1>3. Len(f) = N
  BY <1>1
<1>4. l <= N
  BY <1>1, <1>2, <1>3
<1>5. 1 \in 1 .. N + 1 /\ l \in 0 .. N /\ 1 <= l + 1 /\ l - 1 + 1 = l
  BY <1>1, <1>2, <1>4
<1>6. b = [k \in 1 .. l - 1 + 1 |-> f[1 + k - 1]]
  BY <1>1, <1>2, <1>5, PartAsFunction
<1>7. \A k \in 1 .. l : 1 + k - 1 = k /\ k \in 1 .. N
  BY <1>1, <1>2, <1>4
<1>8. b = [k \in 1 .. l |-> f[k]]
  BY <1>5, <1>6, <1>7
<1>9. b \in [1 .. l -> S]
  BY <1>1, <1>7, <1>8
<1>10. Distinct(b, l)
  BY <1>1, <1>7, <1>8 DEF Distinct
<1>11. Len(b) = l
  BY <1>2, <1>9
<1> QED BY <1>9, <1>10, <1>11 DEF S

WithEnds(h, b, t, l) ==
  [k \in 1 .. l + 2 |-> IF k = 1 THEN h ELSE IF k = l + 2 THEN t ELSE b[k - 1]]

Around(h, b, t) == <<h>> \o b \o <<t>>
AreIn(S, l, b, h, t) == l \in Nat /\ b \in [1 .. l -> S] /\ h \in S /\ t \in S

LEMMA BetweenEnds ==
  ASSUME NEW S, NEW l, NEW b, NEW h, NEW t, AreIn(S, l, b, h, t)
  PROVE  Around(h, b, t) = WithEnds(h, b, t, l)
<1>0. l \in Nat /\ b \in [1 .. l -> S] /\ h \in S /\ t \in S
  BY DEF AreIn
<1> USE <1>0
<1> DEFINE g == <<h>> \o b
           w == <<t>>
<1>1. g = [k \in 1 .. l + 1 |-> IF k = 1 THEN h ELSE b[k - 1]]
  BY PrependAsFunction
<1>2. \A k \in 1 .. l + 1 : k # 1 => k - 1 \in 1 .. l
  OBVIOUS
<1>3. g \in [1 .. l + 1 -> S]
  <2>1. \A k \in 1 .. l + 1 : (IF k = 1 THEN h ELSE b[k - 1]) \in S
    BY <1>2
  <2> QED BY <1>1, <2>1
<1>4. w \in Seq(S) /\ Len(w) = 1 /\ w[1] = t
  OBVIOUS
<1> HIDE DEF g, w
<1>5. g \in Seq(S) /\ Len(g) = l + 1
  BY <1>3
<1>6. /\ g \o w \in Seq(S) /\ Len(g \o w) = Len(g) + Len(w)
      /\ \A k \in 1 .. Len(g) + Len(w) :
           (g \o w)[k] = IF k <= Len(g) THEN g[k] ELSE w[k - Len(g)]
  BY <1>4, <1>5, ConcatProperties
<1>7. Len(g) + Len(w) = l + 2
  BY <1>4, <1>5
<1>8. g \o w \in [1 .. l + 2 -> S]
  BY <1>6, <1>7, LenProperties
<1>9. ASSUME NEW k \in 1 .. l + 2
      PROVE  (g \o w)[k] = IF k = 1 THEN h ELSE IF k = l + 2 THEN t ELSE b[k - 1]
  <2>1. CASE k = l + 2
    <3>1. ~(k <= l + 1) /\ k - (l + 1) = 1 /\ k # 1
      BY <2>1
    <3> QED BY <1>4, <1>5, <1>6, <1>7, <2>1, <3>1
  <2>2. CASE k # l + 2
    <3>1. k <= l + 1 /\ k \in 1 .. l + 1
      BY <2>2
    <3> QED BY <1>1, <1>5, <1>6, <1>7, <2>2, <3>1
  <2> QED BY <2>1, <2>2
<1>10. g \o w = [k \in 1 .. l + 2 |-> (g \o w)[k]]
  BY <1>8
<1>11. g \o w = [k \in 1 .. l + 2 |->
                   IF k = 1 THEN h ELSE IF k = l + 2 THEN t ELSE b[k - 1]]
  BY <1>9, <1>10
<1> QED BY <1>11 DEF g, w, WithEnds, Around

(* New sentinels and nodes beside what there is *)
MadeBeside(hp, s, m, c, hp2) ==
  /\ DllHeap(hp) /\ s \in Sources /\ m = Len(s) + 2
  /\ Len(Doubly!FreeBeside(DOMAIN hp)) >= m
  /\ c = SubSeq(Doubly!FreeBeside(DOMAIN hp), 1, m)
  /\ hp2 = Doubly!Over(Doubly!Chained(c, s), hp)

LEMMA DllMakes ==
  ASSUME NEW hp, NEW s, NEW m, NEW c, NEW hp2, MadeBeside(hp, s, m, c, hp2)
  PROVE  m \in Nat /\ m >= 2 /\ Len(c) = m /\ Holds(hp2, c, m, c[1], c[m], DOMAIN hp, s)
<1> DEFINE S == (1 .. Room) \ DOMAIN hp
           C == Members(c, m)
<1>0. /\ DllHeap(hp) /\ s \in Sources /\ m = Len(s) + 2
      /\ Len(Doubly!FreeBeside(DOMAIN hp)) >= m
      /\ c = SubSeq(Doubly!FreeBeside(DOMAIN hp), 1, m)
      /\ hp2 = Doubly!Over(Doubly!Chained(c, s), hp)
  BY DEF MadeBeside
<1> USE <1>0
<1>1. m \in Nat /\ m >= 2 /\ m - 2 = Len(s) /\ s \in [1 .. m - 2 -> Values]
  BY SourceAsFunction
<1>2. c \in [1 .. m -> S] /\ Distinct(c, m) /\ Len(c) = m
  <2>1. FreeFor(DOMAIN hp, m, c)
    BY <1>1 DEF FreeFor
  <2> QED BY <2>1, FreePart
<1>3. c \in [1 .. m -> 1 .. Room]
  BY <1>2
<1>4. \A n \in C : n \notin DOMAIN hp
  BY <1>2 DEF Members
<1> HIDE DEF S, C
<1>5. DllApart(hp, C)
  <2>1. \A n \in DOMAIN hp : hp[n] \in DllNodes(DOMAIN hp)
    BY DEF DllHeap
  <2>2. DOMAIN hp \ C = DOMAIN hp
    BY <1>4
  <2> QED BY <2>1, <2>2 DEF DllApart, DllNodes
<1>6. Holds(hp2, c, m, c[1], c[m], DOMAIN hp \ C, s)
  <2>1. MadeOf(hp, c, m, s, hp2)
    BY <1>1, <1>2, <1>3, <1>5 DEF NewNodes, MadeOf, C
  <2> QED BY <2>1, ChainMade DEF C
<1>7. DOMAIN hp \ C = DOMAIN hp
  BY <1>4
<1> QED BY <1>1, <1>2, <1>6, <1>7

(* New nodes between the sentinels of an emptied list *)
MadeBetween(hp, h, t, s, m, c, hp2) ==
  /\ DllHeap(hp) /\ h \in DOMAIN hp /\ t \in DOMAIN hp /\ h # t /\ DllApart(hp, {h, t})
  /\ s \in Sources /\ m = Len(s) + 2 /\ Len(Doubly!FreeBeside(DOMAIN hp)) >= Len(s)
  /\ c = Around(h, SubSeq(Doubly!FreeBeside(DOMAIN hp), 1, Len(s)), t)
  /\ hp2 = Doubly!Over(Doubly!Chained(c, s), hp)

LEMMA DllRefills ==
  ASSUME NEW hp, NEW h, NEW t, NEW s, NEW m, NEW c, NEW hp2,
         MadeBetween(hp, h, t, s, m, c, hp2)
  PROVE  m \in Nat /\ m >= 2 /\ Holds(hp2, c, m, h, t, DOMAIN hp \ {h, t}, s)
<1>0. /\ DllHeap(hp) /\ h \in DOMAIN hp /\ t \in DOMAIN hp /\ h # t /\ DllApart(hp, {h, t})
      /\ s \in Sources /\ m = Len(s) + 2 /\ Len(Doubly!FreeBeside(DOMAIN hp)) >= Len(s)
      /\ hp2 = Doubly!Over(Doubly!Chained(c, s), hp)
  BY DEF MadeBetween
<1>b. PICK b : b = SubSeq(Doubly!FreeBeside(DOMAIN hp), 1, Len(s))
  OBVIOUS
<1>c. c = Around(h, b, t)
  BY <1>b DEF MadeBetween
<1> USE <1>0, <1>b
<1> DEFINE S == (1 .. Room) \ DOMAIN hp
           I == 1 .. Room
           C == Members(c, m)
           l == Len(s)
<1>1. /\ l \in Nat /\ m \in Nat /\ m >= 2 /\ m - 2 = l /\ m = l + 2
      /\ s \in [1 .. m - 2 -> Values]
  BY SourceAsFunction
<1> HIDE DEF l
<1>2. b \in [1 .. l -> S] /\ Distinct(b, l)
  <2>1. FreeFor(DOMAIN hp, l, b)
    BY <1>1 DEF FreeFor, l
  <2> QED BY <2>1, FreePart
<1>3. DOMAIN hp \subseteq I /\ S \subseteq I /\ h \notin S /\ t \notin S
  BY DEF DllHeap
<1>4. c = [k \in 1 .. m |-> IF k = 1 THEN h ELSE IF k = m THEN t ELSE b[k - 1]]
  <2>1. AreIn(I, l, b, h, t)
    BY <1>1, <1>2, <1>3 DEF AreIn
  <2> HIDE DEF I
  <2>2. Around(h, b, t) = WithEnds(h, b, t, l)
    BY <2>1, BetweenEnds
  <2> QED BY <1>1, <1>c, <2>2 DEF WithEnds
<1>5. \A x \in S : x \notin DOMAIN hp
  OBVIOUS
<1> HIDE DEF S, I, C
<1>6. ASSUME NEW k \in 1 .. m
      PROVE  \/ k = 1 /\ c[k] = h
             \/ k = m /\ c[k] = t
             \/ k - 1 \in 1 .. l /\ c[k] = b[k - 1] /\ b[k - 1] \in S
  <2>1. k # 1 /\ k # m => k - 1 \in 1 .. l
    BY <1>1
  <2> QED BY <1>2, <1>4, <2>1
<1>7. c \in [1 .. m -> I]
  BY <1>3, <1>4, <1>6
<1>8. Distinct(c, m)
  <2> SUFFICES ASSUME NEW j \in 1 .. m, NEW k \in 1 .. m, c[j] = c[k] PROVE j = k
    BY DEF Distinct
  <2>1. \A p, q \in 1 .. l : b[p] = b[q] => p = q
    BY <1>2 DEF Distinct
  <2>2. CASE j = 1 /\ c[j] = h
    BY <1>3, <1>6, <2>2
  <2>3. CASE j = m /\ c[j] = t
    BY <1>3, <1>6, <2>3
  <2>4. CASE j - 1 \in 1 .. l /\ c[j] = b[j - 1] /\ b[j - 1] \in S
    <3>1. k - 1 \in 1 .. l /\ c[k] = b[k - 1]
      BY <1>3, <1>6, <2>4
    <3>2. j - 1 = k - 1
      BY <2>1, <2>4, <3>1
    <3> QED BY <1>1, <3>2
  <2> QED BY <1>6, <2>2, <2>3, <2>4
<1>9. h \in C /\ t \in C /\ c[1] = h /\ c[m] = t
  <2>1. 1 \in 1 .. m /\ m \in 1 .. m /\ m # 1
    BY <1>1
  <2>2. c[1] = h /\ c[m] = t
    BY <1>4, <2>1
  <2> QED BY <2>1, <2>2 DEF C, Members
<1>10. \A x \in C : x \in {h, t} \/ x \in S
  BY <1>6 DEF C, Members
<1>11. DOMAIN hp \ C = DOMAIN hp \ {h, t}
  BY <1>5, <1>9, <1>10
<1>12. DllApart(hp, C)
  BY <1>11 DEF DllApart
<1>13. Holds(hp2, c, m, c[1], c[m], DOMAIN hp \ C, s)
  <2>1. MadeOf(hp, c, m, s, hp2)
    BY <1>1, <1>7, <1>8, <1>12 DEF NewNodes, MadeOf, C, I
  <2> QED BY <2>1, ChainMade DEF C
<1> QED BY <1>1, <1>9, <1>11, <1>13

(* The list becomes one with the elements s, on a chain of nodes c. *)
LEMMA DllBecomes ==
  ASSUME NEW c, NEW m, NEW apart, NEW s,
         Holds(heap', c, m, header', trailer', apart, s),
         exists', ~moved', dllSize' \in Nat, dllSize' >= m - 2,
         dllCareful' => dllDefined' /\ dllSize' = m - 2 /\ apart = forgotten'
  PROVE  DllInv' /\ Doubly!Elements' = s
<1>1. /\ DllHeap(heap') /\ DllLinks(c, m, header', trailer', heap')
      /\ DllApart(heap', Members(c, m)) /\ DOMAIN heap' \ Members(c, m) = apart
      /\ DllElements(c, m, heap') = s
  BY DEF Holds
<1>2. DllChain(c, m)'
  BY <1>1 DEF DllChain
<1>3. DllInv'
  BY <1>1, <1>2 DEF DllInv
<1>4. Doubly!Elements' = s
  BY <1>1, DllNext
<1> QED BY <1>3, <1>4

LEMMA SourceIsAStep ==
  ASSUME NEW s \in Sources, Doubly!Elements' = s PROVE Doubly!L!NextBefore
BY DEF Doubly!L!NextBefore, Doubly!L!Outcomes

LEMMA DllConstruct ==
  ASSUME DllInv, NEW s \in Sources, Doubly!Construct(s)
  PROVE  DllStep
<1>0. PICK m : m = Len(s) + 2
  OBVIOUS
<1>1. PICK c : c = SubSeq(Doubly!FreeBeside(DOMAIN heap), 1, m)
  OBVIOUS
<1>2. /\ ~exists /\ dllDefined /\ Len(Doubly!FreeBeside(DOMAIN heap)) >= m
      /\ heap' = Doubly!Over(Doubly!Chained(c, s), heap)
      /\ header' = c[1] /\ trailer' = c[Len(c)]
      /\ exists' = TRUE /\ dllSize' = Len(s) /\ moved' = FALSE
      /\ UNCHANGED <<dllDefined, forgotten, dllCareful>>
  BY <1>0, <1>1 DEF Doubly!Construct, Doubly!Free, Doubly!InUse
<1>3. DllHeap(heap) /\ (dllCareful => DOMAIN heap = forgotten)
  BY <1>2 DEF DllInv
<1>4. m \in Nat /\ m >= 2 /\ Len(c) = m /\ Holds(heap', c, m, c[1], c[m], DOMAIN heap, s)
  <2> DEFINE hp2 == heap'
  <2>1. hp2 = Doubly!Over(Doubly!Chained(c, s), heap)
    BY <1>2
  <2> HIDE DEF hp2
  <2>2. MadeBeside(heap, s, m, c, hp2)
    BY <1>0, <1>1, <1>2, <1>3, <2>1 DEF MadeBeside
  <2> QED BY <2>2, DllMakes DEF hp2
<1>5. Holds(heap', c, m, header', trailer', DOMAIN heap, s)
  BY <1>2, <1>4
<1>6. dllSize' \in Nat /\ dllSize' = m - 2
  BY <1>0, <1>2, SourceAsFunction
<1>7. DllInv' /\ Doubly!Elements' = s
  <2>1. exists' /\ ~moved' /\ dllSize' >= m - 2
    BY <1>2, <1>4, <1>6
  <2>2. dllCareful' => dllDefined' /\ dllSize' = m - 2 /\ DOMAIN heap = forgotten'
    BY <1>2, <1>3, <1>6
  <2> QED BY <1>5, <1>6, <2>1, <2>2, DllBecomes
<1> QED BY <1>7, SourceIsAStep DEF DllStep

LEMMA DllCopyAssign ==
  ASSUME DllInv, NEW s \in Sources, Doubly!CopyAssign(s)
  PROVE  DllStep
<1>0. PICK m : m = Len(s) + 2
  OBVIOUS
<1>1. PICK c : c = SubSeq(Doubly!FreeBeside(DOMAIN heap), 1, m)
  OBVIOUS
<1>2. /\ exists /\ dllDefined /\ Len(Doubly!FreeBeside(DOMAIN heap)) >= m
      /\ heap' = Doubly!Over(Doubly!Chained(c, s), heap)
      /\ header' = c[1] /\ trailer' = c[Len(c)]
      /\ dllSize' = dllSize + Len(s) /\ moved' = FALSE
      /\ dllCareful' = (dllCareful /\ dllSize = 0)
      /\ forgotten' = IF dllSize = 0 /\ ~moved THEN forgotten \cup {header, trailer}
                                               ELSE forgotten
      /\ UNCHANGED <<exists, dllDefined>>
  BY <1>0, <1>1
     DEF Doubly!CopyAssign, Doubly!Callable, Doubly!Free, Doubly!InUse, Doubly!isEmpty
<1>3. DllHeap(heap) /\ dllSize \in Nat
  BY DEF DllInv
<1>4. m \in Nat /\ m >= 2 /\ Len(c) = m /\ Holds(heap', c, m, c[1], c[m], DOMAIN heap, s)
  <2> DEFINE hp2 == heap'
  <2>1. hp2 = Doubly!Over(Doubly!Chained(c, s), heap)
    BY <1>2
  <2> HIDE DEF hp2
  <2>2. MadeBeside(heap, s, m, c, hp2)
    BY <1>0, <1>1, <1>2, <1>3, <2>1 DEF MadeBeside
  <2> QED BY <2>2, DllMakes DEF hp2
<1>5. Holds(heap', c, m, header', trailer', DOMAIN heap, s)
  BY <1>2, <1>4
<1>6. dllSize' \in Nat /\ dllSize' >= m - 2 /\ (dllSize = 0 => dllSize' = m - 2)
  <2>1. Len(s) \in Nat
    BY SourceAsFunction
  <2> QED BY <1>0, <1>2, <1>3, <2>1
<1>7. ASSUME dllCareful' PROVE dllDefined' /\ dllSize' = m - 2 /\ DOMAIN heap = forgotten'
  <2>1. dllCareful /\ dllSize = 0 /\ ~moved
    BY <1>2, <1>7 DEF DllInv
  <2>2. PICK d, l : DllChain(d, l)
    BY <1>2, <2>1 DEF DllInv
  <2>3. /\ dllSize = l - 2 /\ DOMAIN heap \ Members(d, l) = forgotten
        /\ DllLinks(d, l, header, trailer, heap)
    BY <2>1, <2>2 DEF DllChain
  <2>4. /\ l = 2 /\ d[1] = header /\ d[l] = trailer
        /\ header \in DOMAIN heap /\ trailer \in DOMAIN heap
    BY <1>3, <2>1, <2>2, <2>3, DllShape
  <2>5. Members(d, l) = {header, trailer}
    <3>1. 1 .. l = {1, 2}
      BY <2>4
    <3> QED BY <2>4, <3>1 DEF Members
  <2>6. DOMAIN heap = forgotten \cup {header, trailer}
    BY <2>3, <2>4, <2>5
  <2> QED BY <1>2, <1>6, <2>1, <2>6
<1>8. DllInv' /\ Doubly!Elements' = s
  <2>1. exists' /\ ~moved'
    BY <1>2
  <2> QED BY <1>5, <1>6, <1>7, <2>1, DllBecomes
<1> QED BY <1>8, SourceIsAStep DEF DllStep

(* What clear() does to the heap *)
LEMMA DllClears ==
  ASSUME DllInv, exists, NEW kept, kept = Doubly!Kept, Doubly!Clears
  PROVE  ~moved /\ \E C : /\ OnlyEnds(heap, C, header, trailer, kept) /\ DllApart(heap, C)
                          /\ dllCareful => DOMAIN heap \ C = forgotten
<1>1. header \in DOMAIN heap /\ ~moved /\ DllHeap(heap)
  BY DEF Doubly!Clears, Doubly!InUse, DllInv
<1>2. PICK c, m : DllChain(c, m)
  BY <1>1 DEF DllInv
<1>3. /\ DllLinks(c, m, header, trailer, heap) /\ DllApart(heap, Members(c, m))
      /\ dllCareful => DOMAIN heap \ Members(c, m) = forgotten
      /\ m \in Nat /\ m >= 2
  BY <1>2 DEF DllChain, DllLinks
<1> DEFINE B == {c[k] : k \in 2 .. m - 1}
<1>4. Doubly!ToSet(Doubly!Between) = B
  <2>1. Doubly!Between = [k \in 1 .. m - 2 |-> c[k + 1]]
    BY <1>1, <1>3, DllNow
  <2> QED BY <1>3, <2>1, BetweenAsSet
<1> HIDE DEF B
<1>5. kept = [x \in DOMAIN heap \ B |->
                IF x = header THEN [heap[x] EXCEPT !.next = trailer]
                ELSE IF x = trailer THEN [heap[x] EXCEPT !.prev = header]
                ELSE heap[x]]
  BY <1>4 DEF Doubly!Kept, Doubly!InUse
<1>6. KeptOf(heap, c, m, header, trailer, kept)
  BY <1>1, <1>3, <1>5 DEF KeptOf, B
<1>7. OnlyEnds(heap, Members(c, m), header, trailer, kept)
  BY <1>6, DllKept
<1> QED BY <1>1, <1>3, <1>7

(* clear() finds nothing to go astray in careful hands. *)
LEMMA DllMayClear ==
  ASSUME DllInv, exists, ~Doubly!Clears
  PROVE  ~dllCareful
<1>1. SUFFICES ASSUME dllCareful PROVE FALSE
  OBVIOUS
<1>2. ~moved /\ DllHeap(heap)
  BY <1>1 DEF DllInv
<1>3. PICK c, m : DllChain(c, m)
  BY <1>2 DEF DllInv
<1>4. /\ DllLinks(c, m, header, trailer, heap) /\ dllSize = m - 2 /\ m \in Nat /\ m >= 2
  BY <1>1, <1>3 DEF DllChain, DllLinks
<1>5. header \in DOMAIN heap /\ Doubly!Between = [k \in 1 .. m - 2 |-> c[k + 1]]
  BY <1>2, <1>4, DllNow
<1>6. Len(Doubly!Between) = m - 2
  BY <1>4, <1>5, BetweenAsSet
<1> QED BY <1>4, <1>5, <1>6 DEF Doubly!Clears, Doubly!InUse

LEMMA DllMoveAssign ==
  ASSUME DllInv, NEW s \in Sources, Doubly!MoveAssign(s)
  PROVE  DllStep
<1>0. exists /\ dllDefined
  BY DEF Doubly!MoveAssign, Doubly!Callable
<1>1. CASE ~Doubly!Clears
  <2>1. ~dllCareful /\ Doubly!Undefined
    BY <1>0, <1>1, DllMayClear DEF Doubly!MoveAssign
  <2> QED BY <2>1, DllUndefined
<1>2. CASE Doubly!Clears
  <2>1. PICK kept : kept = Doubly!Kept
    OBVIOUS
  <2>2. PICK m, c : /\ m = Len(s) + 2
                    /\ c = Around(header, SubSeq(Doubly!FreeBeside(DOMAIN kept), 1, Len(s)),
                                  trailer)
    OBVIOUS
  <2>3. /\ Len(Doubly!FreeBeside(DOMAIN kept)) >= Len(s)
        /\ heap' = Doubly!Over(Doubly!Chained(c, s), kept)
        /\ dllSize' = Len(s)
        /\ UNCHANGED <<exists, header, trailer, dllDefined, moved, forgotten, dllCareful>>
    BY <1>2, <2>1, <2>2
       DEF Doubly!MoveAssign, Doubly!members, Doubly!history, Around
  <2>4. ~moved /\ \E C : /\ OnlyEnds(heap, C, header, trailer, kept) /\ DllApart(heap, C)
                         /\ dllCareful => DOMAIN heap \ C = forgotten
    BY <1>0, <1>2, <2>1, DllClears
  <2>5. /\ DllHeap(kept) /\ DllApart(kept, {header, trailer}) /\ header # trailer
        /\ header \in DOMAIN kept /\ trailer \in DOMAIN kept
        /\ dllCareful => DOMAIN kept \ {header, trailer} = forgotten
    BY <2>4 DEF OnlyEnds
  <2>6. MadeBetween(kept, header, trailer, s, m, c, heap')
    BY <2>2, <2>3, <2>5 DEF MadeBetween
  <2> DEFINE apart == DOMAIN kept \ {header, trailer}
  <2>7. m \in Nat /\ m >= 2 /\ Holds(heap', c, m, header, trailer, apart, s)
    BY <2>6, DllRefills
  <2>8. Holds(heap', c, m, header', trailer', apart, s)
    BY <2>3, <2>7
  <2>9. dllSize' \in Nat /\ dllSize' = m - 2 /\ dllSize' >= m - 2
    BY <2>2, <2>3, SourceAsFunction
  <2>10. /\ exists' /\ ~moved'
         /\ dllCareful' => dllDefined' /\ dllSize' = m - 2 /\ apart = forgotten'
    BY <1>0, <2>3, <2>4, <2>5, <2>9
  <2> HIDE DEF apart
  <2>11. DllInv' /\ Doubly!Elements' = s
    BY <2>8, <2>9, <2>10, DllBecomes
  <2> QED BY <2>11, SourceIsAStep DEF DllStep
<1> QED BY <1>1, <1>2

LEMMA ClearedIsAStep ==
  ASSUME Doubly!Elements' = << >> PROVE Doubly!L!NextBefore
BY DEF Doubly!L!NextBefore, Doubly!L!Outcomes, Doubly!L!Cleared

LEMMA DllClear ==
  ASSUME DllInv, Doubly!clear
  PROVE  DllStep
<1>0. exists /\ dllDefined
  BY DEF Doubly!clear, Doubly!Callable
<1>1. CASE ~Doubly!Clears
  <2>1. ~dllCareful /\ Doubly!Undefined
    BY <1>0, <1>1, DllMayClear DEF Doubly!clear
  <2> QED BY <2>1, DllUndefined
<1>2. CASE Doubly!Clears
  <2>1. PICK kept : kept = Doubly!Kept
    OBVIOUS
  <2>2. /\ heap' = kept /\ dllSize' = 0
        /\ UNCHANGED <<exists, header, trailer, dllDefined, moved, forgotten, dllCareful>>
    BY <1>2, <2>1 DEF Doubly!clear, Doubly!members, Doubly!history
  <2>3. ~moved /\ \E C : /\ OnlyEnds(heap, C, header, trailer, kept) /\ DllApart(heap, C)
                         /\ dllCareful => DOMAIN heap \ C = forgotten
    BY <1>0, <1>2, <2>1, DllClears
  <2> DEFINE apart == DOMAIN kept \ {header, trailer}
             ends == Ends(header, trailer)
  <2>4. /\ DllHeap(kept) /\ DllLinks(ends, 2, header, trailer, kept)
        /\ DllApart(kept, {header, trailer}) /\ header # trailer
        /\ dllCareful => apart = forgotten
        /\ DllElements(ends, 2, kept) = << >>
    BY <2>3 DEF OnlyEnds
  <2>5. Members(ends, 2) = {header, trailer}
    BY <2>4, EndsAlone
  <2>6. PICK e : e = ends
    OBVIOUS
  <2>7. Holds(heap', e, 2, header', trailer', apart, << >>)
    <3> HIDE DEF ends
    <3> QED BY <2>2, <2>4, <2>5, <2>6 DEF Holds
  <2>8. /\ exists' /\ ~moved' /\ dllSize' \in Nat /\ dllSize' = 2 - 2 /\ dllSize' >= 2 - 2
        /\ dllCareful' => dllDefined' /\ apart = forgotten'
    BY <1>0, <2>2, <2>3, <2>4
  <2> HIDE DEF apart, ends
  <2>9. DllInv' /\ Doubly!Elements' = << >>
    BY <2>7, <2>8, DllBecomes
  <2> QED BY <2>9, ClearedIsAStep DEF DllStep
<1> QED BY <1>1, <1>2

LEMMA DllMovedFrom ==
  ASSUME DllInv, Doubly!MovedFrom
  PROVE  DllStep
<1>0. exists /\ dllDefined
  BY DEF Doubly!MovedFrom, Doubly!Callable
<1>1. CASE ~Doubly!Clears
  <2>1. ~dllCareful /\ Doubly!Undefined
    BY <1>0, <1>1, DllMayClear DEF Doubly!MovedFrom
  <2> QED BY <2>1, DllUndefined
<1>2. CASE Doubly!Clears
  <2>1. PICK kept : kept = Doubly!Kept
    OBVIOUS
  <2>2. /\ heap' = [n \in DOMAIN kept \ {header, trailer} |-> heap[n]]
        /\ dllSize' = 0 /\ moved' = TRUE /\ dllCareful' = FALSE
        /\ UNCHANGED <<exists, header, trailer, dllDefined, forgotten>>
    BY <1>2, <2>1 DEF Doubly!MovedFrom, Doubly!members
  <2>3. ~moved /\ \E C : /\ OnlyEnds(heap, C, header, trailer, kept) /\ DllApart(heap, C)
                         /\ dllCareful => DOMAIN heap \ C = forgotten
    BY <1>0, <1>2, <2>1, DllClears
  <2>4. /\ DllHeap(kept) /\ DllApart(kept, {header, trailer})
        /\ \A x \in DOMAIN kept \ {header, trailer} : kept[x] = heap[x]
    BY <2>3 DEF OnlyEnds
  <2>5. heap' = [n \in DOMAIN kept \ {header, trailer} |-> kept[n]]
    BY <2>2, <2>4
  <2>6. DllHeap(heap') /\ DOMAIN heap' = DOMAIN kept \ {header, trailer}
    BY <2>4, <2>5, DllRest
  <2>7. DllInv'
    BY <1>0, <2>2, <2>6 DEF DllInv
  <2> QED BY <2>2, <2>7 DEF DllStep
<1> QED BY <1>1, <1>2

LEMMA DllDestroy ==
  ASSUME DllInv, Doubly!Destroy
  PROVE  DllStep
<1>0. exists /\ dllDefined /\ DllHeap(heap)
  BY DEF Doubly!Destroy, Doubly!Callable, DllInv
<1>1. CASE header \notin DOMAIN heap
  <2>1. ~dllCareful
    <3>1. CASE moved
      BY <3>1 DEF DllInv
    <3>2. CASE ~moved
      <4>1. PICK c, m : DllChain(c, m)
        BY <1>0, <3>2 DEF DllInv
      <4> QED BY <1>0, <1>1, <4>1, DllShape
    <3> QED BY <3>1, <3>2
  <2>2. Doubly!Undefined
    BY <1>1 DEF Doubly!Destroy, Doubly!InUse
  <2> QED BY <2>1, <2>2, DllUndefined
<1>2. CASE header \in DOMAIN heap
  <2>1. PICK c, m : DllChain(c, m)
    BY <1>0, <1>2 DEF DllInv
  <2>2. /\ DllLinks(c, m, header, trailer, heap) /\ DllApart(heap, Members(c, m))
        /\ dllCareful => DOMAIN heap \ Members(c, m) = forgotten
        /\ m \in Nat /\ c \in [1 .. m -> DOMAIN heap]
    BY <2>1 DEF DllChain, DllLinks
  <2>3. Doubly!ToSet(Doubly!Chain) = Members(c, m)
    <3>1. Doubly!Chain = c
      BY <1>0, <2>2, DllNow
    <3> QED BY <2>2, <3>1, ChainAsSet
  <2>4. /\ heap' = [x \in DOMAIN heap \ Members(c, m) |-> heap[x]]
        /\ exists' = FALSE /\ header' = Null /\ trailer' = Null /\ dllSize' = 0
        /\ UNCHANGED <<dllDefined, moved, forgotten, dllCareful>>
    BY <1>2, <2>3 DEF Doubly!Destroy, Doubly!InUse, Doubly!history
  <2>5. DllHeap(heap') /\ DOMAIN heap' = DOMAIN heap \ Members(c, m)
    BY <1>0, <2>2, <2>4, DllRest
  <2>6. ~moved
    BY <1>2 DEF DllInv
  <2>7. DllInv'
    BY <1>0, <2>2, <2>4, <2>5, <2>6 DEF DllInv
  <2>8. Doubly!Elements' = << >>
    <3>1. header' \notin DOMAIN heap'
      BY <2>4, <2>5, NullIsNoNode DEF DllHeap
    <3> QED BY <3>1, NoElements
  <2> QED BY <2>7, <2>8, ClearedIsAStep DEF DllStep
<1> QED BY <1>1, <1>2

(* The calls of a list *)
LEMMA DllAddFirst ==
  ASSUME DllInv, NEW v \in Values, Doubly!addFirst(v)
  PROVE  DllStep
<1>0. exists /\ dllDefined /\ DllHeap(heap)
  BY DEF Doubly!addFirst, Doubly!Callable, DllInv
<1>1. CASE moved
  <2>1. ~dllCareful /\ Doubly!Undefined
    BY <1>1 DEF DllInv, Doubly!addFirst, Doubly!InUse
  <2> QED BY <2>1, DllUndefined
<1>2. CASE ~moved
  <2>1. PICK c, m : DllChain(c, m)
    BY <1>0, <1>2 DEF DllInv
  <2>2. /\ m \in Nat /\ m >= 2 /\ c[1] = header /\ header \in DOMAIN heap
        /\ heap[header].next = c[2]
    BY <1>0, <2>1, DllShape
  <2>3. PICK p, q : p = c[1] /\ q = c[2]
    OBVIOUS
  <2>4. Doubly!addBetween(v, p, q)
    BY <2>2, <2>3 DEF Doubly!addFirst, Doubly!InUse
  <2>5. 1 \in 1 .. m - 1 /\ q = c[1 + 1]
    BY <2>2, <2>3
  <2> QED BY <1>0, <1>2, <2>1, <2>3, <2>4, <2>5, DllPutsIn
<1> QED BY <1>1, <1>2

LEMMA DllAddLast ==
  ASSUME DllInv, NEW v \in Values, Doubly!addLast(v)
  PROVE  DllStep
<1>0. exists /\ dllDefined /\ DllHeap(heap)
  BY DEF Doubly!addLast, Doubly!Callable, DllInv
<1>1. CASE moved
  <2>1. ~dllCareful /\ Doubly!Undefined
    BY <1>1 DEF DllInv, Doubly!addLast, Doubly!InUse
  <2> QED BY <2>1, DllUndefined
<1>2. CASE ~moved
  <2>1. PICK c, m : DllChain(c, m)
    BY <1>0, <1>2 DEF DllInv
  <2>2. /\ m \in Nat /\ m >= 2 /\ c[m] = trailer /\ trailer \in DOMAIN heap
        /\ heap[trailer].prev = c[m - 1]
    BY <1>0, <2>1, DllShape
  <2>3. PICK i, p, q : i = m - 1 /\ p = c[m - 1] /\ q = c[m]
    OBVIOUS
  <2>4. Doubly!addBetween(v, p, q)
    BY <2>2, <2>3 DEF Doubly!addLast, Doubly!InUse
  <2>5. i \in 1 .. m - 1 /\ i + 1 = m
    BY <2>2, <2>3
  <2>6. p = c[i] /\ q = c[i + 1] /\ i \in {1, m - 1}
    BY <2>3, <2>5
  <2> QED BY <1>0, <1>2, <2>1, <2>4, <2>5, <2>6, DllPutsIn
<1> QED BY <1>1, <1>2

LEMMA DllAddElemBefore ==
  ASSUME DllInv, NEW before \in Values, NEW v \in Values, Doubly!addElemBefore(before, v)
  PROVE  DllStep
<1>0. exists /\ dllDefined /\ DllHeap(heap)
  BY DEF Doubly!addElemBefore, Doubly!Callable, DllInv
<1>1. CASE Doubly!NoChange
  BY <1>1, DllSame DEF Doubly!NoChange, Doubly!vars, dllVars
<1>2. ASSUME NEW n \in Doubly!FirstWith(before), dllSize # 0,
             Doubly!addBetween(v, heap[n].prev, n)
      PROVE  DllStep
  <2>0. ~moved
    BY <1>2 DEF DllInv
  <2>1. PICK c, m : DllChain(c, m)
    BY <1>0, <2>0 DEF DllInv
  <2>2. PICK k \in 1 .. m - 2 : n = c[k + 1] /\ k \in Doubly!L!Firsts(Doubly!Elements)
    BY <1>0, <1>2, <2>1, DllFound DEF DllChain
  <2>3. /\ m \in Nat /\ m >= 2
        /\ \A j \in 1 .. m - 1 : heap[c[j]].next = c[j + 1] /\ heap[c[j + 1]].prev = c[j]
    BY <1>0, <2>1, DllShape
  <2>4. k \in 1 .. m - 1
    BY <2>3
  <2>5. PICK p : p = c[k]
    OBVIOUS
  <2>6. Doubly!addBetween(v, p, n)
    BY <1>2, <2>2, <2>3, <2>4, <2>5
  <2> QED BY <1>0, <2>0, <2>1, <2>2, <2>4, <2>5, <2>6, DllPutsIn
<1> QED BY <1>1, <1>2 DEF Doubly!addElemBefore, Doubly!isEmpty

LEMMA DllRemoveTarget ==
  ASSUME DllInv, NEW v \in Values, Doubly!removeTarget(v)
  PROVE  DllStep
<1>0. exists /\ dllDefined /\ DllHeap(heap)
  BY DEF Doubly!removeTarget, Doubly!Callable, DllInv
<1>1. CASE Doubly!NoChange
  BY <1>1, DllSame DEF Doubly!NoChange, Doubly!vars, dllVars
<1>2. ASSUME NEW n \in Doubly!FirstWith(v), dllSize # 0, Doubly!remove(n)
      PROVE  DllStep
  <2>0. ~moved
    BY <1>2 DEF DllInv
  <2>1. PICK c, m : DllChain(c, m)
    BY <1>0, <2>0 DEF DllInv
  <2>2. PICK k \in 1 .. m - 2 : n = c[k + 1] /\ k \in Doubly!L!Firsts(Doubly!Elements)
    BY <1>0, <1>2, <2>1, DllFound DEF DllChain
  <2>3. m \in Nat /\ m >= 2
    BY <1>0, <2>1, DllShape
  <2>4. PICK i : i = k + 1
    OBVIOUS
  <2>5. i \in 2 .. m - 1 /\ i - 1 = k /\ n = c[i]
    BY <2>2, <2>3, <2>4
  <2>6. i - 1 \in Doubly!L!Firsts(Doubly!Elements)
    BY <2>2, <2>5
  <2> QED BY <1>0, <1>2, <2>0, <2>1, <2>5, <2>6, DllTakesOut
<1> QED BY <1>1, <1>2 DEF Doubly!removeTarget, Doubly!isEmpty

LEMMA DllRemoveFirst ==
  ASSUME DllInv, Doubly!removeFirst
  PROVE  DllStep
<1>0. exists /\ dllDefined /\ DllHeap(heap)
  BY DEF Doubly!removeFirst, Doubly!Callable, DllInv
<1>1. CASE dllSize = 0
  BY <1>1, DllSame
     DEF Doubly!removeFirst, Doubly!isEmpty, Doubly!NoChange, Doubly!vars, dllVars
<1>2. CASE dllSize # 0
  <2>0. ~moved
    BY <1>2 DEF DllInv
  <2>1. PICK c, m : DllChain(c, m)
    BY <1>0, <2>0 DEF DllInv
  <2>2. /\ m \in Nat /\ m >= 2 /\ heap[header].next = c[2] /\ heap[trailer].next = Null
        /\ c[m] = trailer
    BY <1>0, <2>1, DllShape
  <2>3. PICK r : r = c[2]
    OBVIOUS
  <2>4. Doubly!remove(r)
    BY <1>2, <2>2, <2>3 DEF Doubly!removeFirst, Doubly!isEmpty
  <2>5. CASE m = 2
    <3>1. ~dllCareful
      BY <1>2, <2>1, <2>5 DEF DllChain
    <3>2. Doubly!Undefined
      <4>1. heap[r].next \notin DOMAIN heap
        BY <1>0, <2>2, <2>3, <2>5, NullIsNoNode DEF DllHeap
      <4> QED BY <2>4, <4>1 DEF Doubly!remove, Doubly!InUse
    <3> QED BY <3>1, <3>2, DllUndefined
  <2>6. CASE m # 2
    <3>1. 2 \in 2 .. m - 1 /\ 2 \in {2, m - 1}
      BY <2>2, <2>6
    <3> QED BY <1>0, <2>0, <2>1, <2>3, <2>4, <3>1, DllTakesOut
  <2> QED BY <2>5, <2>6
<1> QED BY <1>1, <1>2

LEMMA DllRemoveLast ==
  ASSUME DllInv, Doubly!removeLast
  PROVE  DllStep
<1>0. exists /\ dllDefined /\ DllHeap(heap)
  BY DEF Doubly!removeLast, Doubly!Callable, DllInv
<1>1. CASE dllSize = 0
  BY <1>1, DllSame
     DEF Doubly!removeLast, Doubly!isEmpty, Doubly!NoChange, Doubly!vars, dllVars
<1>2. CASE dllSize # 0
  <2>0. ~moved
    BY <1>2 DEF DllInv
  <2>1. PICK c, m : DllChain(c, m)
    BY <1>0, <2>0 DEF DllInv
  <2>2. /\ m \in Nat /\ m >= 2 /\ heap[trailer].prev = c[m - 1] /\ heap[header].prev = Null
        /\ c[1] = header
    BY <1>0, <2>1, DllShape
  <2>3. PICK i, r : i = m - 1 /\ r = c[m - 1]
    OBVIOUS
  <2>4. Doubly!remove(r)
    BY <1>2, <2>2, <2>3 DEF Doubly!removeLast, Doubly!isEmpty
  <2>5. CASE m = 2
    <3>1. ~dllCareful
      BY <1>2, <2>1, <2>5 DEF DllChain
    <3>2. Doubly!Undefined
      <4>1. heap[r].prev \notin DOMAIN heap
        <5>1. r = header
          BY <2>2, <2>3, <2>5
        <5> QED BY <1>0, <2>2, <5>1, NullIsNoNode DEF DllHeap
      <4> QED BY <2>4, <4>1 DEF Doubly!remove, Doubly!InUse
    <3> QED BY <3>1, <3>2, DllUndefined
  <2>6. CASE m # 2
    <3>1. i \in 2 .. m - 1 /\ i \in {2, m - 1} /\ r = c[i]
      BY <2>2, <2>3, <2>6
    <3> QED BY <1>0, <2>0, <2>1, <2>4, <3>1, DllTakesOut
  <2> QED BY <2>5, <2>6
<1> QED BY <1>1, <1>2

LEMMA DllNextStep ==
  ASSUME DllInv, [Doubly!Next]_(Doubly!vars)
  PROVE  DllStep
<1>1. CASE UNCHANGED Doubly!vars
  BY <1>1, DllSame DEF Doubly!vars, dllVars
<1>2. ASSUME NEW s \in Sources, Doubly!Construct(s) PROVE DllStep
  BY <1>2, DllConstruct
<1>3. ASSUME NEW s \in Sources, Doubly!CopyAssign(s) PROVE DllStep
  BY <1>3, DllCopyAssign
<1>4. ASSUME NEW s \in Sources, Doubly!MoveAssign(s) PROVE DllStep
  BY <1>4, DllMoveAssign
<1>5. CASE Doubly!Destroy
  BY <1>5, DllDestroy
<1>6. CASE Doubly!MovedFrom
  BY <1>6, DllMovedFrom
<1>7. ASSUME NEW v \in Values, Doubly!addFirst(v) PROVE DllStep
  BY <1>7, DllAddFirst
<1>8. ASSUME NEW v \in Values, Doubly!addLast(v) PROVE DllStep
  BY <1>8, DllAddLast
<1>9. ASSUME NEW v \in Values, Doubly!removeTarget(v) PROVE DllStep
  BY <1>9, DllRemoveTarget
<1>10. ASSUME NEW before \in Values, NEW v \in Values, Doubly!addElemBefore(before, v)
       PROVE  DllStep
  BY <1>10, DllAddElemBefore
<1>11. CASE Doubly!removeFirst
  BY <1>11, DllRemoveFirst
<1>12. CASE Doubly!removeLast
  BY <1>12, DllRemoveLast
<1>13. CASE Doubly!clear
  BY <1>13, DllClear
<1>14. CASE Doubly!Crashed
  BY <1>14, DllSame DEF Doubly!Crashed, Doubly!NoChange, Doubly!vars, dllVars
<1> QED BY <1>1, <1>2, <1>3, <1>4, <1>5, <1>6, <1>7, <1>8, <1>9, <1>10, <1>11, <1>12,
           <1>13, <1>14
        DEF Doubly!Next

LEMMA DllGoodIsWellFormed == DllInv => Doubly!WellFormed
<1> SUFFICES ASSUME DllInv PROVE Doubly!WellFormed
  OBVIOUS
<1>1. Doubly!NothingDangles
  <2>1. ASSUME exists, ~moved PROVE {header, trailer} \subseteq DOMAIN heap
    <3>1. PICK c, m : DllChain(c, m)
      BY <2>1 DEF DllInv
    <3> QED BY <3>1, DllShape DEF DllInv
  <2>2. \A n \in DOMAIN heap : {heap[n].prev, heap[n].next} \subseteq DOMAIN heap \cup {Null}
    BY DEF DllInv, DllHeap, DllNodes
  <2> QED BY <2>1, <2>2 DEF Doubly!NothingDangles, Doubly!InUse
<1>2. ASSUME dllCareful
      PROVE  /\ dllDefined
             /\ DOMAIN heap = Doubly!ToSet(Doubly!Chain) \cup forgotten
             /\ Doubly!ToSet(Doubly!Chain) \cap forgotten = {}
             /\ exists =>
                  /\ Len(Doubly!Chain) = dllSize + 2
                  /\ Doubly!Last(Doubly!Chain) = trailer
                  /\ \A k \in 1 .. dllSize + 1 :
                       heap[Doubly!Chain[k + 1]].prev = Doubly!Chain[k]
                  /\ heap[header].prev = Null /\ heap[trailer].next = Null
  <2>1. dllDefined /\ ~moved /\ DllHeap(heap)
    BY <1>2 DEF DllInv
  <2>2. CASE ~exists
    <3>1. header \notin DOMAIN heap /\ DOMAIN heap = forgotten
      BY <1>2, <2>2, NullIsNoNode DEF DllInv, DllHeap
    <3>2. Doubly!Chain = << >>
      BY <3>1, NoElements
    <3>3. Doubly!ToSet(Doubly!Chain) = {}
      BY <3>2 DEF Doubly!ToSet
    <3> QED BY <2>1, <2>2, <3>1, <3>3
  <2>3. CASE exists
    <3>1. PICK c, m : DllChain(c, m)
      BY <2>1, <2>3 DEF DllInv
    <3>2. /\ DllLinks(c, m, header, trailer, heap) /\ dllSize = m - 2
          /\ DOMAIN heap \ Members(c, m) = forgotten
          /\ m \in Nat /\ m >= 2 /\ c \in [1 .. m -> DOMAIN heap]
      BY <1>2, <3>1 DEF DllChain, DllLinks
    <3>3. Doubly!Chain = c
      BY <2>1, <3>2, DllNow
    <3>4. Doubly!ToSet(c) = Members(c, m) /\ Members(c, m) \subseteq DOMAIN heap
      BY <3>2, ChainAsSet DEF Members
    <3>5. /\ c[m] = trailer /\ heap[header].prev = Null /\ heap[trailer].next = Null
          /\ \A k \in 1 .. m - 1 : heap[c[k + 1]].prev = c[k]
      BY <2>1, <3>1, DllShape
    <3>6. Len(c) = m /\ m = dllSize + 2 /\ m - 1 = dllSize + 1
      BY <3>2
    <3>7. Doubly!Last(c) = trailer
      BY <3>5, <3>6 DEF Doubly!Last
    <3> QED BY <2>1, <3>2, <3>3, <3>4, <3>5, <3>6, <3>7
  <2> QED BY <2>2, <2>3
<1> QED BY <1>1, <1>2 DEF Doubly!WellFormed, Doubly!InUse

(* In careful hands the nodes of a DLL lead from one sentinel to the other and
   back, as many as its count says, none is left behind that no assignment has
   forgotten, nothing is undefined, and every call is one of a list.  In any
   hands no pointer of a node in use leads to one that is not. *)
THEOREM DoublyIsAList ==
  Doubly!Spec => []Doubly!WellFormed /\ Doubly!ImplementsList
<1>1. Doubly!Init => Doubly!L!LInit
  <2> SUFFICES ASSUME Doubly!Init PROVE Doubly!Elements = << >>
    BY DEF Doubly!L!LInit
  <2>1. header \notin DOMAIN heap
    BY DEF Doubly!Init
  <2> QED BY <2>1, NoElements
<1>2. DllInv /\ [Doubly!Next]_(Doubly!vars) => DllInv'
  BY DllNextStep DEF DllStep
<1>3. DllInv /\ [Doubly!Next]_(Doubly!vars)
        => [dllCareful' => Doubly!L!NextBefore]_(Doubly!Elements)
  BY DllNextStep DEF DllStep
<1> QED BY <1>1, <1>2, <1>3, InitDll, DllGoodIsWellFormed, PTL
        DEF Doubly!Spec, Doubly!ImplementsList

-----------------------------------------------------------------------------
(* A behaviour of the structures together is one of each. *)
LEMMA EachHasItsVariables ==
  /\ UNCHANGED dequeVars => UNCHANGED Deque!vars
  /\ UNCHANGED stackVars => UNCHANGED Stack!vars
  /\ UNCHANGED sllVars => UNCHANGED Singly!vars
  /\ UNCHANGED dllVars => UNCHANGED Doubly!vars
  /\ UNCHANGED genVars => UNCHANGED Generator!vars
BY DEF dequeVars, Deque!vars, stackVars, Stack!vars, sllVars, Singly!vars,
   dllVars, Doubly!vars, Doubly!members, Doubly!history, genVars, Generator!vars

LEMMA EachTakesItsSteps ==
  ASSUME [MCNext]_allVars
  PROVE  /\ [Next]_vars
         /\ [Deque!Next]_(Deque!vars)
         /\ [Stack!Next]_(Stack!vars)
         /\ [Singly!Next]_(Singly!vars)
         /\ [Doubly!Next]_(Doubly!vars)
         /\ [Generator!Next]_(Generator!vars)
<1>1. CASE UNCHANGED allVars
  <2>1. /\ UNCHANGED vars /\ UNCHANGED dequeVars /\ UNCHANGED stackVars
        /\ UNCHANGED sllVars /\ UNCHANGED dllVars /\ UNCHANGED genVars
    BY <1>1 DEF allVars
  <2> QED BY <2>1, EachHasItsVariables
<1>2. CASE MCNext
  <2>1. /\ Next \/ UNCHANGED vars
        /\ Deque!Next \/ UNCHANGED dequeVars
        /\ Stack!Next \/ UNCHANGED stackVars
        /\ Singly!Next \/ UNCHANGED sllVars
        /\ Doubly!Next \/ UNCHANGED dllVars
        /\ Generator!Next \/ UNCHANGED genVars
    BY <1>2 DEF MCNext, Only
  <2> QED BY <2>1, EachHasItsVariables
<1> QED BY <1>1, <1>2

LEMMA EachHasItsBehaviour ==
  MCSpec => /\ Spec /\ Deque!Spec /\ Stack!Spec
            /\ Singly!Spec /\ Doubly!Spec /\ Generator!Spec
<1>1. MCInit => /\ Init /\ Deque!Init /\ Stack!Init
                /\ Singly!Init /\ Doubly!Init /\ Generator!Init
  BY DEF MCInit
<1> QED BY <1>1, EachTakesItsSteps, PTL
        DEF MCSpec, Spec, Deque!Spec, Stack!Spec, Singly!Spec, Doubly!Spec, Generator!Spec

(* Queue<T> implements the bounded first-in first-out queue. *)
THEOREM QueueIsFifo == MCSpec => ImplementsFifo
  BY EachHasItsBehaviour, RingIsFifo, PTL

(* FixedDeque<T> in careful hands implements the bounded double-ended queue;
   its constructor throws for a length that is not positive. *)
THEOREM FixedDequeIsADeque == ASSUME capa > 0 PROVE MCSpec => ImplementsDeque
<1>1. capa \in Nat \ {0}
  BY CapaIsNat
<1>2. Deque!Spec => Deque!ImplementsDeque
  BY <1>1, DequeIsADeque
<1> QED BY <1>2, EachHasItsBehaviour, PTL DEF ImplementsDeque

(* Stack implements the bounded deque of which only the back is used. *)
THEOREM StackGivesTheLast == MCSpec => ImplementsStack
  BY EachHasItsBehaviour, StackIsAStack, PTL DEF ImplementsStack

(* What the ends of the two rings and the pointer deQueue returned point at *)
THEOREM EndsAreRight == ASSUME capa > 0 PROVE MCSpec => []EndsPointAtElements
<1>1. capa \in Nat \ {0}
  BY CapaIsNat
<1>2. Deque!Spec => [](Deque!OverrunIsOneSlot /\ Deque!EndsSpanTheElements)
  BY <1>1, DequeEnds
<1>3. RingInv /\ (Deque!OverrunIsOneSlot /\ Deque!EndsSpanTheElements)
        => EndsPointAtElements
  BY DEF RingInv, EndsPointAtElements
<1> QED BY <1>2, <1>3, EachHasItsBehaviour, RingIsSound, PTL

(* Every frame of count_to gives out the numbers from 1 to n, each once, and is
   at its end just when it has given out all. *)
THEOREM FramesCountToN == MCSpec => []CountsToN
<1>1. Generator!CountsToN /\ Generator!FramesHaveOneOwner => CountsToN
  BY DEF CountsToN
<1> QED BY <1>1, EachHasItsBehaviour, GeneratorCounts, PTL

(* SLL<T> and DLL<T> implement the list of which a call puts in or takes out one
   element where its name says, or makes it a copy of another: through every
   constructor, assignment and destructor, as long as no call is undefined. *)
THEOREM ListsAreLists == MCSpec => ImplementsList
  BY EachHasItsBehaviour, SinglyIsAList, DoublyIsAList, PTL DEF ImplementsList

(* All nodes of the lists and all frames of the generators that are in use are
   reached, each once, none is leaked that the code does not forget, and no
   pointer leads astray. *)
THEOREM NodesAndFramesAreWellFormed == MCSpec => []WellFormed
<1>1. Singly!WellFormed /\ Doubly!WellFormed /\ (Generator!CountsToN /\ Generator!FramesHaveOneOwner)
        => WellFormed
  BY DEF WellFormed
<1> QED BY <1>1, EachHasItsBehaviour, SinglyIsAList, DoublyIsAList, GeneratorCounts, PTL
=============================================================================
