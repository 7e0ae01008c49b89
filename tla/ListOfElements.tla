--------------------------- MODULE ListOfElements ---------------------------
(***************************************************************************)
(* What SLL<T> of 02-datastructure/singly_linked_list.cpp and DLL<T> of    *)
(* doubly_linked_list_with_concept.cpp promise: a list of elements with    *)
(* operations at both ends, insertion next to an element (SLL after it,    *)
(* DLL before it) and removal of an element.                               *)
(***************************************************************************)
EXTENDS Integers, Sequences, SequencesExt

CONSTANTS
  Values,
  Sources    \* the lists that may be copied from

VARIABLE list

(* The positions at which a search for some element ends. *)
Firsts(s) == {k \in DOMAIN s : \A j \in 1 .. k - 1 : s[j] # s[k]}

(* What the list s may become in a call. *)
AddedFirst(s) == {<<v>> \o s : v \in Values}
AddedLast(s) == {Append(s, v) : v \in Values}
AddedAfter(s) == {InsertAt(s, k + 1, v) : k \in Firsts(s), v \in Values}
AddedBefore(s) == {InsertAt(s, k, v) : k \in Firsts(s), v \in Values}
TargetRemoved(s) == {RemoveAt(s, k) : k \in Firsts(s)}
FirstRemoved(s) == {Tail(s) : k \in DOMAIN s}
LastRemoved(s) == {Front(s) : k \in DOMAIN s}
Cleared == {<<>>}

Outcomes(s) ==
  AddedFirst(s) \cup AddedLast(s) \cup TargetRemoved(s)
    \cup FirstRemoved(s) \cup LastRemoved(s) \cup Cleared \cup Sources

LInit == list = <<>>

(* The next step of a list with insertion after an element, and of one with
   insertion before an element. *)
NextAfter == list' \in Outcomes(list) \cup AddedAfter(list)
NextBefore == list' \in Outcomes(list) \cup AddedBefore(list)
=============================================================================
