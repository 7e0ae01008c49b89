------------------------------ MODULE RingQueue ------------------------------
(***************************************************************************)
(* class Queue<T> of 02-datastructure/queue.cpp: a first-in first-out      *)
(* queue in a ring of capa slots, used by one thread.  deQueue returns a   *)
(* pointer into the ring, which its caller reads later; the model keeps    *)
(* the slot, and, as history, the element that was in it at the return.    *)
(*                                                                         *)
(* One object is modelled from its construction on; its copies, moves and  *)
(* destruction are those of module OwnedArrays.  peekFirst returns a T     *)
(* where it declares a T*, so that no instantiation of it compiles.        *)
(***************************************************************************)
EXTENDS Integers, Sequences

CONSTANTS
  Values,    \* the elements
  capa,      \* the capacity the object was made with
  Nothing    \* an uninitialised slot; no element

ASSUME CapaIsNat == capa \in Nat
ASSUME NothingIsNoValue == Nothing \notin Values

VARIABLES
  data,      \* the array
  ptr,       \* the slot of the first element
  size,      \* the number of elements
  slot,      \* the slot whose address the last deQueue returned, or -1
  elem       \* history: the element that was in that slot, or Nothing

vars == <<data, ptr, size, slot, elem>>

Slots == 0 .. capa - 1

Init ==
  /\ data = [s \in Slots |-> Nothing]
  /\ ptr = 0
  /\ size = 0
  /\ slot = -1
  /\ elem = Nothing

isEmpty == size = 0

Bug_inQueue(e) ==   \* one slot too far
  LET idx == (ptr + size + 1) % capa
  IN  /\ size < capa
      /\ data' = [data EXCEPT ![idx] = e]
      /\ size' = size + 1
      /\ UNCHANGED <<ptr, slot, elem>>

inQueue(e) ==
  LET idx == (ptr + size) % capa
  IN  /\ size < capa
      /\ data' = [data EXCEPT ![idx] = e]
      /\ size' = size + 1
      /\ UNCHANGED <<ptr, slot, elem>>

(* "queue is full!" *)
inQueueFull ==
  /\ size >= capa
  /\ UNCHANGED vars

Bug_deQueue ==   \* the ring turns back one slot too early
  /\ ~isEmpty
  /\ slot' = ptr
  /\ elem' = data[ptr]
  /\ ptr' = IF ptr + 2 >= capa THEN 0 ELSE ptr + 1
  /\ size' = size - 1
  /\ UNCHANGED data

deQueue ==
  /\ ~isEmpty
  /\ slot' = ptr
  /\ elem' = data[ptr]
  /\ ptr' = IF ptr + 1 >= capa THEN 0 ELSE ptr + 1
  /\ size' = size - 1
  /\ UNCHANGED data

(* "queue is empty!", and nullptr *)
deQueueEmpty ==
  /\ isEmpty
  /\ UNCHANGED vars

Next ==
  \/ \E e \in Values : inQueue(e)
  \/ inQueueFull
  \/ deQueue
  \/ deQueueEmpty

Spec == Init /\ [][Next]_vars

-----------------------------------------------------------------------------
(* The elements as printQueue visits them: size slots from ptr on, and from
   slot 0 on after the last. *)
SlotOf(k) == IF ptr + k - 1 >= capa THEN ptr + k - 1 - capa ELSE ptr + k - 1
Contents == [k \in 1 .. size |-> data[SlotOf(k)]]

TypeOK ==
  /\ data \in [Slots -> Values \cup {Nothing}]
  /\ ptr \in Nat /\ (ptr < capa \/ ptr = 0)
  /\ size \in 0 .. capa
  /\ slot \in Slots \cup {-1}
  /\ elem \in Values \cup {Nothing}

(* Every slot that counts as an element was written: none of the array's
   uninitialised values is ever given out or printed. *)
ElementsAreWritten == \A k \in 1 .. size : data[SlotOf(k)] \in Values

(* The pointer deQueue returned goes on pointing at the element it was returned
   for until the queue has been filled up again, although its slot is free. *)
PointerOutlivesRefills ==
  slot # -1 /\ size < capa =>
    /\ data[slot] = elem
    /\ slot = IF ptr = 0 THEN capa - 1 ELSE ptr - 1

D == INSTANCE BoundedDeque WITH contents <- Contents, given <- elem

(* The ring is a bounded first-in first-out queue. *)
FifoStep == D!PopFront \/ \E e \in Values : D!PushBack(e)
ImplementsFifo == D!DInit /\ [][FifoStep]_<<Contents, elem>>
=============================================================================
