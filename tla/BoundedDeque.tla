---------------------------- MODULE BoundedDeque ----------------------------
(***************************************************************************)
(* What the fixed-capacity containers of 02-datastructure promise: Queue   *)
(* (queue.cpp) with PushBack and PopFront, FixedDeque (dequeue.cpp) with   *)
(* all four.  A push into a full container and a pop from an empty one     *)
(* change nothing.                                                         *)
(***************************************************************************)
EXTENDS Integers, Sequences

CONSTANTS
  Values,     \* the elements
  capa,       \* the capacity
  Nothing     \* no element

VARIABLES
  contents,   \* the elements, first to last
  given       \* the element the last successful pop gave out, or Nothing

dvars == <<contents, given>>

DInit ==
  /\ contents = <<>>
  /\ given = Nothing

PushFront(e) ==
  /\ Len(contents) < capa
  /\ contents' = <<e>> \o contents
  /\ UNCHANGED given

PushBack(e) ==
  /\ Len(contents) < capa
  /\ contents' = Append(contents, e)
  /\ UNCHANGED given

PopFront ==
  /\ contents # <<>>
  /\ given' = Head(contents)
  /\ contents' = Tail(contents)

PopBack ==
  /\ contents # <<>>
  /\ given' = contents[Len(contents)]
  /\ contents' = SubSeq(contents, 1, Len(contents) - 1)

DNext ==
  \/ \E e \in Values : PushFront(e) \/ PushBack(e)
  \/ PopFront
  \/ PopBack

DSpec == DInit /\ [][DNext]_dvars
=============================================================================
