----------------------------- MODULE ArrayStack -----------------------------
(***************************************************************************)
(* class Stack of 02-datastructure/stack.cpp: push, pop and peek on an     *)
(* array, used by one thread.  Its construction, copies, moves and         *)
(* destruction are those of module OwnedArrays.                            *)
(***************************************************************************)
EXTENDS Integers, Sequences

CONSTANTS
  Values,    \* the elements
  capa,      \* capacity
  Nothing    \* an uninitialised slot; no element

VARIABLES
  elem, top_idx,   \* the members
  given            \* the element the last pop() returned

vars == <<elem, top_idx, given>>

Init == elem = [s \in 0 .. capa - 1 |-> Nothing] /\ top_idx = -1 /\ given = Nothing

Bug_push(val) ==   \* the increment comes second
  /\ top_idx < capa - 1
  /\ elem' = [elem EXCEPT ![IF top_idx < 0 THEN 0 ELSE top_idx] = val]
  /\ top_idx' = top_idx + 1
  /\ UNCHANGED given

push(val) ==
  /\ top_idx < capa - 1
  /\ top_idx' = top_idx + 1
  /\ elem' = [elem EXCEPT ![top_idx'] = val]
  /\ UNCHANGED given

pop ==
  /\ top_idx >= 0
  /\ given' = elem[top_idx]
  /\ top_idx' = top_idx - 1
  /\ UNCHANGED elem

(* out_of_range: "stack is full!" or "stack is empty!"; and peek() *)
NoChange == UNCHANGED vars

Next == (\E val \in Values : push(val)) \/ pop \/ NoChange

Spec == Init /\ [][Next]_vars

-----------------------------------------------------------------------------
(* size() elements, the one peek() returns last *)
Contents == [k \in 1 .. top_idx + 1 |-> elem[k - 1]]

(* The stack is a bounded deque of which only the back is used. *)
D == INSTANCE BoundedDeque WITH contents <- Contents
StackStep == D!PopBack \/ \E e \in Values : D!PushBack(e)
ImplementsStack == D!DInit /\ [][StackStep]_<<Contents, given>>
=============================================================================
