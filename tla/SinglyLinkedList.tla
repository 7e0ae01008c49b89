-------------------------- MODULE SinglyLinkedList --------------------------
(***************************************************************************)
(* class SLL<T> of 02-datastructure/singly_linked_list.cpp (and of         *)
(* singly_linked_list_with_concept.cpp, which has the same members with    *)
(* the same bodies), down to its nodes and pointers, used by one thread.   *)
(*                                                                         *)
(* new takes any node that is not in use, one that was deleted before      *)
(* included.  A read or write through nullptr or through a pointer to a    *)
(* deleted node is undefined behaviour: the model records it and goes no   *)
(* further.  A list that is copied from is known by its elements.          *)
(***************************************************************************)
EXTENDS Integers, Sequences, FiniteSets

CONSTANTS
  Nodes,     \* the heap's room for nodes
  Values,    \* the elements
  Null,      \* nullptr, none of the nodes
  Sources    \* the elements of the lists that are copied or moved from

VARIABLES
  head, tail, sz,   \* the members
  alive,            \* the nodes that were made and not deleted
  elem, next,       \* the members of the nodes
  outcome,          \* how the last call ended: "ok", "assigned" (operator=),
                    \* "logic_error" (thrown) or "ub"
  careful           \* a history variable: so far the caller has seen to what
                    \* the class does not see to

heap == <<alive, elem, next>>
vars == <<head, tail, sz, alive, elem, next, outcome, careful>>

Init ==
  /\ head = Null /\ tail = Null /\ sz = 0
  /\ alive = {}
  /\ elem = [n \in Nodes |-> CHOOSE v \in Values : TRUE]   \* set by new before it is read
  /\ next = [n \in Nodes |-> Null]
  /\ outcome = "ok"
  /\ careful = TRUE

isEmpty == sz = 0
Defined == outcome # "ub"

(* at[k]: where a pointer is that started at head and followed next k - 1
   times, staying where it is once it has left the nodes in use. *)
at[k \in 1 .. Cardinality(Nodes) + 1] ==
  IF k = 1 THEN head
  ELSE LET n == at[k - 1] IN IF n \in alive THEN next[n] ELSE n

EndsInNull == \E k \in DOMAIN at : at[k] = Null

(* The nodes a search for v passes, up to the first that holds it. *)
FoundAt(k, v) ==
  /\ k \in DOMAIN at
  /\ at[k] \in alive /\ elem[at[k]] = v
  /\ \A j \in 1 .. k - 1 : elem[at[j]] # v
Found(v) == \E k \in DOMAIN at : FoundAt(k, v)

Ok == outcome' = "ok"
Undefined == outcome' = "ub" /\ UNCHANGED <<head, tail, sz, heap>>

(* What a careful caller sees to and the class does not: that an element it
   names is there, because a search that fails leaves the list through nullptr;
   that nothing is inserted behind the last node and the last of several nodes
   is not removed by its value, because tail stays where it is; and that a list
   that is assigned to is empty, because its nodes are forgotten, or nothing
   happens at all. *)
IsThereNotLast(v) ==
  \E k \in DOMAIN at : FoundAt(k, v) /\ at[k] # tail
IsThereNotLastOfSeveral(v) ==
  \E k \in DOMAIN at : FoundAt(k, v) /\ (at[k] # tail \/ k = 1)

-----------------------------------------------------------------------------
addFirst(v) ==
  /\ Defined
  /\ UNCHANGED careful
  /\ \E n \in Nodes \ alive :
       /\ alive' = alive \cup {n}
       /\ elem' = [elem EXCEPT ![n] = v]
       /\ next' = [next EXCEPT ![n] = IF isEmpty THEN Null ELSE head]
       /\ head' = n
       /\ tail' = IF isEmpty THEN n ELSE tail
  /\ sz' = sz + 1
  /\ Ok

addLast(v) ==
  /\ Defined
  /\ UNCHANGED careful
  /\ IF isEmpty \/ tail \in alive
     THEN /\ \E n \in Nodes \ alive :
               /\ alive' = alive \cup {n}
               /\ elem' = [elem EXCEPT ![n] = v]
               /\ next' = IF isEmpty THEN [next EXCEPT ![n] = Null]
                          ELSE [next EXCEPT ![n] = Null, ![tail] = n]
               /\ head' = IF isEmpty THEN n ELSE head
               /\ tail' = n
          /\ sz' = sz + 1
          /\ Ok
     ELSE Undefined

Bug_addElemAfter(loc, v) ==   \* new_node->setNext(...) is missing
  /\ Defined
  /\ careful' = (careful /\ IsThereNotLast(loc))
  /\ \E k \in DOMAIN at : \E n \in Nodes \ alive :
       /\ FoundAt(k, loc)
       /\ alive' = alive \cup {n}
       /\ elem' = [elem EXCEPT ![n] = v]
       /\ next' = [next EXCEPT ![n] = Null, ![at[k]] = n]
       /\ sz' = sz + 1
       /\ Ok
       /\ UNCHANGED <<head, tail>>

addElemAfter(loc, v) ==
  /\ Defined
  /\ careful' = (careful /\ IsThereNotLast(loc))
  /\ \/ \E k \in DOMAIN at : \E n \in Nodes \ alive :
          /\ FoundAt(k, loc)
          /\ alive' = alive \cup {n}
          /\ elem' = [elem EXCEPT ![n] = v]
          /\ next' = [next EXCEPT ![n] = next[at[k]], ![at[k]] = n]
          /\ sz' = sz + 1
          /\ Ok
          /\ UNCHANGED <<head, tail>>
     \/ ~Found(loc) /\ Undefined

(* removeFirst() of a list that is not empty. *)
DropHead ==
  \/ /\ head \in alive
     /\ alive' = alive \ {head}
     /\ IF sz = 1 THEN head' = Null /\ tail' = Null
        ELSE head' = next[head] /\ UNCHANGED tail
     /\ sz' = sz - 1
     /\ Ok
     /\ UNCHANGED <<elem, next>>
  \/ head \notin alive /\ Undefined

Bug_removeFirstTargetElem(v) ==   \* the node is unlinked and not deleted
  /\ Defined
  /\ careful' = (careful /\ IsThereNotLastOfSeveral(v))
  /\ \E k \in DOMAIN at :
       /\ FoundAt(k, v)
       /\ \/ k = 1 /\ DropHead
          \/ /\ k > 1
             /\ next' = [next EXCEPT ![at[k - 1]] = next[at[k]]]
             /\ sz' = sz - 1
             /\ Ok
             /\ UNCHANGED <<head, tail, elem, alive>>

removeFirstTargetElem(v) ==
  /\ Defined
  /\ careful' = (careful /\ IsThereNotLastOfSeveral(v))
  /\ \/ \E k \in DOMAIN at :
          /\ FoundAt(k, v)
          /\ \/ k = 1 /\ sz > 0 /\ DropHead
             \/ /\ k > 1
                /\ next' = [next EXCEPT ![at[k - 1]] = next[at[k]]]
                /\ alive' = alive \ {at[k]}
                /\ sz' = sz - 1
                /\ Ok
                /\ UNCHANGED <<head, tail, elem>>
     \/ ~Found(v) /\ Undefined

(* delete tail; the list then ends at the node before, if there is one. *)
DropTail(before) ==
  /\ alive' = alive \ {tail}
  /\ tail' = before
  /\ IF before = Null THEN head' = Null /\ UNCHANGED next
     ELSE next' = [next EXCEPT ![before] = Null] /\ UNCHANGED head
  /\ sz' = sz - 1
  /\ Ok
  /\ UNCHANGED elem

removeFirst ==
  /\ Defined
  /\ UNCHANGED careful
  /\ \/ ~isEmpty /\ DropHead
     \/ isEmpty /\ outcome' = "logic_error" /\ UNCHANGED <<head, tail, sz, heap>>

(* The predecessor of the last node is found along next, but the node that is
   deleted is the one tail points to: with a tail that is not the last node the
   two may be the same, and next is set in a deleted node. *)
LastButOne == {k \in DOMAIN at : /\ at[k] \in alive /\ next[at[k]] \in alive
                                 /\ next[next[at[k]]] = Null}

removeLast ==
  /\ Defined
  /\ UNCHANGED careful
  /\ \/ isEmpty /\ outcome' = "logic_error" /\ UNCHANGED <<head, tail, sz, heap>>
     \/ sz = 1 /\ tail \in alive /\ DropTail(Null)
     \/ sz > 1 /\ tail \in alive /\ \E k \in LastButOne :
          IF at[k] = tail THEN Undefined ELSE DropTail(at[k])
     \/ ~isEmpty /\ (tail \notin alive \/ (sz > 1 /\ LastButOne = {})) /\ Undefined

clear ==
  /\ Defined
  /\ UNCHANGED careful
  /\ IF EndsInNull
     THEN /\ alive' = alive \ {at[k] : k \in DOMAIN at}
          /\ head' = Null /\ tail' = Null /\ sz' = 0
          /\ Ok
          /\ UNCHANGED <<elem, next>>
     ELSE Undefined

(* A list gets the elements s, one or more, in new nodes, beside those in kept:
   one addLast() after the other. *)
Copy(s, kept) ==
  /\ \E new \in [DOMAIN s -> Nodes \ kept] :
       /\ \A j, k \in DOMAIN s : new[j] = new[k] => j = k
       /\ LET copy == {new[k] : k \in DOMAIN s}
              place[n \in copy] == CHOOSE k \in DOMAIN s : new[k] = n
          IN  /\ alive' = kept \cup copy
              /\ elem' = [n \in Nodes |-> IF n \in copy THEN s[place[n]] ELSE elem[n]]
              /\ next' = [n \in Nodes |->
                            IF n \notin copy THEN next[n]
                            ELSE IF place[n] = Len(s) THEN Null
                            ELSE new[place[n] + 1]]
       /\ head' = new[1]
       /\ tail' = new[Len(s)]
  /\ sz' = Len(s)

(* operator=, from another list with the elements s: the nodes the list had
   are not deleted, and nothing at all happens if s is empty.  The list that
   is moved from is cleared. *)
assign(s) ==
  /\ Defined
  /\ careful' = (careful /\ isEmpty)
  /\ \/ s = <<>> /\ UNCHANGED <<head, tail, sz, heap>>
     \/ s # <<>> /\ Copy(s, alive)
  /\ outcome' = "assigned"

(* ~SLL(), which follows the chain to nullptr, and the construction of the next
   list: an empty one, or a copy of one with the elements s. *)
Renew(s) ==
  /\ Defined
  /\ UNCHANGED careful
  /\ LET kept == alive \ {at[k] : k \in DOMAIN at}
     IN  \/ ~EndsInNull /\ Undefined
         \/ /\ EndsInNull /\ s = <<>>
            /\ alive' = kept
            /\ head' = Null /\ tail' = Null /\ sz' = 0
            /\ UNCHANGED <<elem, next>>
            /\ Ok
         \/ EndsInNull /\ s # <<>> /\ Copy(s, kept) /\ Ok

(* Nothing is claimed of the program after undefined behaviour. *)
Crashed == ~Defined /\ UNCHANGED vars

Next ==
  \/ \E v \in Values : addFirst(v) \/ addLast(v) \/ removeFirstTargetElem(v)
  \/ \E loc, v \in Values : addElemAfter(loc, v)
  \/ removeFirst
  \/ removeLast
  \/ clear
  \/ \E s \in Sources : assign(s) \/ Renew(s)
  \/ Crashed

Spec == Init /\ [][Next]_vars

-----------------------------------------------------------------------------
(* The elements as printList visits them. *)
Chain == {k \in DOMAIN at : at[k] \in alive}
Elements == [k \in Chain |-> elem[at[k]]]

(* In the hands of a careful caller nothing is undefined and the list is what
   its members say: sz nodes lead from head to tail and end there, and no node
   is in use that the list does not reach, so that the destructor deletes every
   one of them and none twice. *)
WellFormed ==
  careful =>
    /\ Defined
    /\ Cardinality(Chain) = sz
    /\ IF isEmpty THEN head = Null /\ tail = Null
       ELSE at[sz] = tail /\ next[tail] = Null
    /\ {at[k] : k \in Chain} = alive

L == INSTANCE ListOfElements WITH list <- Elements

(* In the hands of such a caller every call is one of a list: the three
   conditions are all that is missing. *)
ImplementsList == L!LInit /\ [][careful' => L!NextAfter]_Elements

(* singly_linked_list.cpp:405 inserts an element behind the last one, and the
   class goes on to offer addLast: what it adds is then the last element, and
   the others are there still. *)
AddedLastIsLast ==
  [][\A v \in Values : addLast(v) => outcome' = "ok" /\ Elements' = Append(Elements, v)]_vars
=============================================================================
