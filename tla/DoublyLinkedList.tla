-------------------------- MODULE DoublyLinkedList --------------------------
(***************************************************************************)
(* class DLL<T> of 02-datastructure/doubly_linked_list_with_concept.cpp:   *)
(* nodes between two sentinels, header and trailer, from the list's        *)
(* construction to its destruction, used by one thread.                    *)
(*                                                                         *)
(* A read or write through nullptr or through a pointer to a deleted node  *)
(* is undefined behaviour: the model records it and goes no further.  The  *)
(* other list of a copy or a move is known by its elements; that this list *)
(* is the one that is moved from is an action of its own.  new takes the   *)
(* first free node: no pointer to a deleted node is followed and defined   *)
(* (NothingDangles), so that which node it takes makes no difference.      *)
(***************************************************************************)
EXTENDS Integers, Sequences, FiniteSets, SequencesExt

CONSTANTS
  Room,      \* how many nodes the heap has room for
  Values,    \* the elements
  Null,      \* nullptr
  Nothing,   \* the element of a sentinel
  Sources    \* the elements of the lists that are copied or moved from

VARIABLES
  exists,           \* the list is constructed and not destroyed
  header, trailer, sz,
  heap,             \* the nodes in use, and their members
  defined,          \* nothing undefined has happened
  moved,            \* the list was moved from
  forgotten,        \* history: the nodes in use that an assignment to an empty
                    \* list has left without a pointer to them
  careful           \* history: every assignment was to an empty list, and the
                    \* list was not moved from

vars == <<exists, header, trailer, sz, heap, defined, moved, forgotten, careful>>
members == <<exists, header, trailer>>
history == <<moved, forgotten, careful>>

InUse == DOMAIN heap

(* The nodes that are not in use, the smallest first. *)
FreeBeside(used) ==
  LET free == (1 .. Room) \ used
  IN  [k \in 1 .. Cardinality(free) |->
         CHOOSE n \in free : Cardinality({m \in free : m < n}) = k - 1]
Free == FreeBeside(InUse)

(* A chain of nodes for the elements s, with a sentinel at each end. *)
Chained(nodes, s) ==
  [n \in ToSet(nodes) |->
     LET k == CHOOSE k \in DOMAIN nodes : nodes[k] = n
     IN  [elem |-> IF k \in {1, Len(nodes)} THEN Nothing ELSE s[k - 1],
          prev |-> IF k = 1 THEN Null ELSE nodes[k - 1],
          next |-> IF k = Len(nodes) THEN Null ELSE nodes[k + 1]]]

(* The nodes in more, and those of old that are none of them. *)
Over(more, old) ==
  [n \in DOMAIN more \cup DOMAIN old |-> IF n \in DOMAIN more THEN more[n] ELSE old[n]]

(* at[k]: where a pointer is that started at header and followed next k - 1
   times, staying where it is once it has left the nodes in use. *)
after == [n \in (1 .. Room) \cup {Null} |-> IF n \in InUse THEN heap[n].next ELSE n]
at[k \in 1 .. Room] == IF k = 1 THEN header ELSE after[at[k - 1]]

(* The nodes from header on, and those between the first and the last. *)
Chain == IF header \notin InUse THEN <<>>
         ELSE SubSeq(at, 1, Cardinality({k \in 1 .. Room : at[k] \in InUse}))
Between == LET chain == Chain IN SubSeq(chain, 2, Len(chain) - 1)
Elements == LET nodes == Between IN [k \in DOMAIN nodes |-> heap[nodes[k]].elem]

isEmpty == sz = 0

(* The first node that holds v, if there is one. *)
FirstWith(v) ==
  LET nodes == Between
  IN  {nodes[k] : k \in {k \in DOMAIN nodes :
                            /\ heap[nodes[k]].elem = v
                            /\ \A j \in 1 .. k - 1 : heap[nodes[j]].elem # v}}

Init ==
  /\ exists = FALSE
  /\ header = Null /\ trailer = Null /\ sz = 0
  /\ heap = <<>>
  /\ defined = TRUE
  /\ moved = FALSE /\ forgotten = {} /\ careful = TRUE

Callable == exists /\ defined
Undefined == defined' = FALSE /\ UNCHANGED <<members, sz, heap, history>>
NoChange == UNCHANGED vars

-----------------------------------------------------------------------------
(* Construction, destruction, assignment *)

(* The default constructor, and the copy constructor for the elements s. *)
Construct(s) ==
  /\ ~exists /\ defined
  /\ Len(Free) >= Len(s) + 2
  /\ LET nodes == SubSeq(Free, 1, Len(s) + 2)
     IN  /\ heap' = Over(Chained(nodes, s), heap)
         /\ header' = nodes[1] /\ trailer' = nodes[Len(nodes)]
  /\ exists' = TRUE
  /\ sz' = Len(s)
  /\ moved' = FALSE
  /\ UNCHANGED <<defined, forgotten, careful>>

Destroy ==
  /\ Callable
  /\ IF header \in InUse
     THEN /\ heap' = [n \in InUse \ ToSet(Chain) |-> heap[n]]
          /\ exists' = FALSE
          /\ header' = Null /\ trailer' = Null /\ sz' = 0
          /\ UNCHANGED <<defined, history>>
     ELSE Undefined

(* operator=(const DLL&): new sentinels and nodes, on top of the old count;
   what header and trailer led to is not deleted. *)
CopyAssign(s) ==
  /\ Callable
  /\ Len(Free) >= Len(s) + 2
  /\ LET nodes == SubSeq(Free, 1, Len(s) + 2)
     IN  /\ heap' = Over(Chained(nodes, s), heap)
         /\ header' = nodes[1] /\ trailer' = nodes[Len(nodes)]
  /\ sz' = sz + Len(s)
  /\ careful' = (careful /\ isEmpty)
  /\ forgotten' = IF isEmpty /\ ~moved THEN forgotten \cup {header, trailer} ELSE forgotten
  /\ moved' = FALSE
  /\ UNCHANGED <<exists, defined>>

(* clear() takes nodes away from the front until the count is zero: with a
   count that is too large it comes to the trailer, which has no next. *)
Clears == header \in InUse /\ sz = Len(Between)
Kept == [n \in InUse \ ToSet(Between) |->
           IF n = header THEN [heap[n] EXCEPT !.next = trailer]
           ELSE IF n = trailer THEN [heap[n] EXCEPT !.prev = header]
           ELSE heap[n]]

(* operator=(DLL&&) *)
MoveAssign(s) ==
  /\ Callable
  /\ IF Clears
     THEN LET free == FreeBeside(DOMAIN Kept)
              nodes == <<header>> \o SubSeq(free, 1, Len(s)) \o <<trailer>>
          IN  /\ Len(free) >= Len(s)
              /\ heap' = Over(Chained(nodes, s), Kept)
              /\ sz' = Len(s)
              /\ UNCHANGED <<members, defined, history>>
     ELSE Undefined

(* This list is the other of an operator=(DLL&&): it is cleared and its
   sentinels are deleted, but header and trailer go on pointing at them. *)
MovedFrom ==
  /\ Callable
  /\ IF Clears
     THEN /\ heap' = [n \in DOMAIN Kept \ {header, trailer} |-> heap[n]]
          /\ sz' = 0
          /\ moved' = TRUE /\ careful' = FALSE
          /\ UNCHANGED <<members, defined, forgotten>>
     ELSE Undefined

-----------------------------------------------------------------------------
addBetween(v, p, n) ==
  IF {p, n} \subseteq InUse
  THEN /\ Free # <<>>
       /\ LET newNode == Free[1]
          IN  heap' = Over([k \in {newNode} |-> [elem |-> v, prev |-> p, next |-> n]],
                           [heap EXCEPT ![p].next = newNode, ![n].prev = newNode])
       /\ sz' = sz + 1
       /\ UNCHANGED <<members, defined, history>>
  ELSE Undefined

Bug_remove(target) ==   \* nex->setPrev(pre) is missing
  LET pre == heap[target].prev
      nex == heap[target].next
  IN  IF {pre, nex} \subseteq InUse
      THEN /\ heap' = [n \in InUse \ {target} |->
                         IF n = pre THEN [heap[n] EXCEPT !.next = nex] ELSE heap[n]]
           /\ sz' = sz - 1
           /\ UNCHANGED <<members, defined, history>>
      ELSE Undefined

remove(target) ==
  LET pre == heap[target].prev
      nex == heap[target].next
  IN  IF {pre, nex} \subseteq InUse
      THEN /\ heap' = [n \in InUse \ {target} |->
                         IF n = pre THEN [heap[n] EXCEPT !.next = nex]
                         ELSE IF n = nex THEN [heap[n] EXCEPT !.prev = pre]
                         ELSE heap[n]]
           /\ sz' = sz - 1
           /\ UNCHANGED <<members, defined, history>>
      ELSE Undefined

addFirst(v) ==
  /\ Callable
  /\ IF header \in InUse THEN addBetween(v, header, heap[header].next) ELSE Undefined

addLast(v) ==
  /\ Callable
  /\ IF trailer \in InUse THEN addBetween(v, heap[trailer].prev, trailer) ELSE Undefined

removeFirst ==
  /\ Callable
  /\ IF isEmpty THEN NoChange ELSE remove(heap[header].next)

removeLast ==
  /\ Callable
  /\ IF isEmpty THEN NoChange ELSE remove(heap[trailer].prev)

Bug_addElemBefore(val, newVal) ==   \* behind the target
  /\ Callable
  /\ \/ (isEmpty \/ FirstWith(val) = {}) /\ NoChange
     \/ \E n \in FirstWith(val) : ~isEmpty /\ addBetween(newVal, n, heap[n].next)

addElemBefore(val, newVal) ==
  /\ Callable
  /\ \/ (isEmpty \/ FirstWith(val) = {}) /\ NoChange
     \/ \E n \in FirstWith(val) : ~isEmpty /\ addBetween(newVal, heap[n].prev, n)

removeTarget(val) ==
  /\ Callable
  /\ \/ (isEmpty \/ FirstWith(val) = {}) /\ NoChange
     \/ \E n \in FirstWith(val) : ~isEmpty /\ remove(n)

clear ==
  /\ Callable
  /\ IF Clears THEN heap' = Kept /\ sz' = 0 /\ UNCHANGED <<members, defined, history>>
     ELSE Undefined

(* Nothing is claimed of the program after undefined behaviour. *)
Crashed == ~defined /\ NoChange

Next ==
  \/ \E s \in Sources : Construct(s) \/ CopyAssign(s) \/ MoveAssign(s)
  \/ Destroy
  \/ MovedFrom
  \/ \E v \in Values : addFirst(v) \/ addLast(v) \/ removeTarget(v)
  \/ \E val, newVal \in Values : addElemBefore(val, newVal)
  \/ removeFirst
  \/ removeLast
  \/ clear
  \/ Crashed

Spec == Init /\ [][Next]_vars

-----------------------------------------------------------------------------
(* A list that was moved from keeps the only pointers to deleted nodes. *)
NothingDangles ==
  /\ exists /\ ~moved => {header, trailer} \subseteq InUse
  /\ \A n \in InUse : {heap[n].prev, heap[n].next} \subseteq InUse \cup {Null}

(* For a caller who assigns to empty lists only and moves from none, nothing is
   undefined: sz elements lead from header to trailer and the same ones back,
   and every other node in use is a sentinel that a copy assignment has
   forgotten, two of them each time. *)
WellFormed ==
  /\ NothingDangles
  /\ careful =>
       LET chain == Chain
       IN
       /\ defined
       /\ InUse = ToSet(chain) \cup forgotten
       /\ ToSet(chain) \cap forgotten = {}
       /\ exists =>
            /\ Len(chain) = sz + 2 /\ Last(chain) = trailer
            /\ \A k \in 1 .. sz + 1 : heap[chain[k + 1]].prev = chain[k]
            /\ heap[header].prev = Null /\ heap[trailer].next = Null

L == INSTANCE ListOfElements WITH list <- Elements

(* For such a caller every call is one of a list. *)
ImplementsList == L!LInit /\ [][careful' => L!NextBefore]_Elements
=============================================================================
