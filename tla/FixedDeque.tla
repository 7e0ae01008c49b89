----------------------------- MODULE FixedDeque -----------------------------
(***************************************************************************)
(* class FixedDeque<T> of 02-datastructure/dequeue.cpp: a double-ended     *)
(* queue in an array of capa slots, used by one thread.  first and last    *)
(* are the slots of the outermost elements, if there are any.              *)
(*                                                                         *)
(* A write outside the array is undefined behaviour: the model records it  *)
(* and goes no further.  One object is modelled from its construction on;  *)
(* its copies, moves and destruction are those of module OwnedArrays.      *)
(* peekFirst and peekLast return a T where they declare a T*, so that no   *)
(* instantiation of them compiles.                                         *)
(***************************************************************************)
EXTENDS Integers, Sequences

CONSTANTS
  Values,    \* the elements
  capa,      \* the length the object was made with: positive, because the
             \* constructor throws for any other
  Nothing    \* an uninitialised slot; no element

VARIABLES
  data, first, last, size,   \* the members
  overrun,                   \* an element was written outside the array
  elem,                      \* what the pointer the last poll returned points at
  careful                    \* a history variable: so far the caller has seen
                             \* to what the class does not see to

vars == <<data, first, last, size, overrun, elem, careful>>

Slots == 0 .. capa - 1

Init ==
  /\ data = [s \in Slots |-> Nothing]
  /\ first = 0 /\ last = 0 /\ size = 0
  /\ overrun = FALSE
  /\ elem = Nothing
  /\ careful = TRUE

isEmpty == size = 0

(* The slots as printDequeue visits them, from first on. *)
SlotOf(k) == (first + k - 1) % capa
Contents == [k \in 1 .. size |-> data[SlotOf(k)]]

(* What a careful caller of offerFirst and offerLast sees to and the class does
   not: that first and last agree on where an empty deque begins, and that
   there is a slot to the right of last. *)
EndsAgree == isEmpty => first = last
RoomAtTheRight == isEmpty \/ last < capa - 1

-----------------------------------------------------------------------------
Bug_offerFirst(input) ==   \* first moves before an empty deque is filled, too
  /\ ~overrun
  /\ size < capa
  /\ first' = IF first > 0 THEN first - 1 ELSE capa - 1
  /\ data' = [data EXCEPT ![first'] = input]
  /\ size' = size + 1
  /\ careful' = (careful /\ EndsAgree)
  /\ UNCHANGED <<last, overrun, elem>>

offerFirst(input) ==
  /\ ~overrun
  /\ size < capa
  /\ first' = IF isEmpty THEN first
              ELSE IF first > 0 THEN first - 1 ELSE capa - 1
  /\ data' = [data EXCEPT ![first'] = input]
  /\ size' = size + 1
  /\ careful' = (careful /\ EndsAgree)
  /\ UNCHANGED <<last, overrun, elem>>

(* last >= 0 is always true: the branch that would turn from capa - 1 to 0 is
   never taken, and last + 1 may be capa. *)
offerLast(input) ==
  /\ ~overrun
  /\ size < capa
  /\ last' = IF isEmpty THEN last ELSE last + 1
  /\ IF last' \in Slots
     THEN data' = [data EXCEPT ![last'] = input] /\ UNCHANGED overrun
     ELSE overrun' = TRUE /\ UNCHANGED data
  /\ size' = size + 1
  /\ careful' = (careful /\ EndsAgree /\ RoomAtTheRight)
  /\ UNCHANGED <<first, elem>>

(* "Dequeue is full!" *)
offerFull ==
  /\ ~overrun
  /\ size = capa
  /\ UNCHANGED vars

Bug_pollFirst ==   \* first does not turn from capa - 1 to 0
  /\ ~overrun
  /\ ~isEmpty
  /\ elem' = data[first]
  /\ first' = first + 1
  /\ size' = size - 1
  /\ UNCHANGED <<data, last, overrun, careful>>

pollFirst ==
  /\ ~overrun
  /\ ~isEmpty
  /\ elem' = data[first]
  /\ first' = IF first # capa - 1 THEN first + 1 ELSE 0
  /\ size' = size - 1
  /\ UNCHANGED <<data, last, overrun, careful>>

Bug_pollLast ==   \* last does not turn from 0 to capa - 1
  /\ ~overrun
  /\ ~isEmpty
  /\ elem' = data[last]
  /\ last' = IF last # 0 THEN last - 1 ELSE 0
  /\ size' = size - 1
  /\ UNCHANGED <<data, first, overrun, careful>>

pollLast ==
  /\ ~overrun
  /\ ~isEmpty
  /\ elem' = data[last]
  /\ last' = IF last # 0 THEN last - 1 ELSE capa - 1
  /\ size' = size - 1
  /\ UNCHANGED <<data, first, overrun, careful>>

(* "Dequeue is empty!", and nullptr *)
pollEmpty ==
  /\ ~overrun
  /\ isEmpty
  /\ UNCHANGED vars

(* Nothing is claimed of the program after a write outside the array. *)
Overrun == overrun /\ UNCHANGED vars

Next ==
  \/ \E input \in Values : offerFirst(input) \/ offerLast(input)
  \/ offerFull
  \/ pollFirst
  \/ pollLast
  \/ pollEmpty
  \/ Overrun

Spec == Init /\ [][Next]_vars

-----------------------------------------------------------------------------
D == INSTANCE BoundedDeque WITH contents <- Contents, given <- elem

(* In the hands of a careful caller, first and last are size - 1 slots apart
   around the ring, and every slot between them was written. *)
EndsSpanTheElements ==
  careful =>
    /\ last \in Slots
    /\ ~isEmpty => last = SlotOf(size)
    /\ \A k \in 1 .. size : data[SlotOf(k)] \in Values

(* In the hands of a careful caller every call is one of a bounded double-ended
   queue: the two conditions are all that is missing. *)
ImplementsDeque ==
  D!DInit /\ [][careful' => D!DNext]_(D!dvars)

(* Whoever the caller is, first stays in the array, and an element written
   outside of it is written one slot behind the last and nowhere else. *)
OverrunIsOneSlot ==
  /\ first \in Slots /\ size \in 0 .. capa
  /\ IF overrun THEN last = capa ELSE last \in Slots

(* 02-datastructure/dequeue.cpp:192-196 adds elements "to deque at the back"
   and expects them one behind the other, and line 149 means last to turn from
   capa - 1 to 0: an element offered to a deque that is not full becomes its
   first or its last. *)
OfferedElementsAreThere ==
  [][\A input \in Values :
       /\ offerFirst(input) => Contents' = <<input>> \o Contents
       /\ offerLast(input) => Contents' = Append(Contents, input)]_vars
=============================================================================
