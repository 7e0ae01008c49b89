-------------------------- MODULE MCDataStructures --------------------------
(***************************************************************************)
(* The data structures of 02-datastructure and the generator of            *)
(* 05-coroutine, each with a caller that makes any call.  They share       *)
(* nothing: a behaviour is that of one of them.                            *)
(***************************************************************************)
EXTENDS RingQueue, FiniteSets, TLC

CONSTANTS
  Nodes, Null, Room,     \* room for the lists' nodes
  MaxCopied,             \* the length of the lists that are copied from
  Objects, Frames, INT_MAX

ASSUME NullIsNoFrame == Null \notin Frames
ASSUME NodesAreFinite == IsFiniteSet(Nodes)
ASSUME RoomIsNat == Room \in Nat
ASSUME NullIsNoNode == Null \notin Nodes \cup (1 .. Room)
ASSUME MaxCopiedIsNat == MaxCopied \in Nat

VARIABLES which,
  dequeData, first, last, dequeSize, overrun, dequeElem, dequeCareful,
  stackElem, top_idx, given,
  head, tail, sz, alive, nodeElem, next, outcome, listCareful,
  exists, header, trailer, dllSize, heap, dllDefined, moved, forgotten, dllCareful,
  handle, frame, iterator, genDefined, genCareful, shown

dequeVars == <<dequeData, first, last, dequeSize, overrun, dequeElem, dequeCareful>>
stackVars == <<stackElem, top_idx, given>>
sllVars == <<head, tail, sz, alive, nodeElem, next, outcome, listCareful>>
dllVars == <<exists, header, trailer, dllSize, heap, dllDefined, moved, forgotten, dllCareful>>
genVars == <<handle, frame, iterator, genDefined, genCareful, shown>>
allVars == <<which, vars, dequeVars, stackVars, sllVars, dllVars, genVars>>

(* The lists that are copied from *)
Sources == UNION {[1 .. k -> Values] : k \in 0 .. MaxCopied}

Deque == INSTANCE FixedDeque WITH
  data <- dequeData, size <- dequeSize, elem <- dequeElem, careful <- dequeCareful
Stack == INSTANCE ArrayStack WITH elem <- stackElem
Singly == INSTANCE SinglyLinkedList WITH elem <- nodeElem, careful <- listCareful
Doubly == INSTANCE DoublyLinkedList WITH
  sz <- dllSize, defined <- dllDefined, careful <- dllCareful
Generator == INSTANCE SerialGenerator WITH defined <- genDefined, careful <- genCareful

MCInit ==
  /\ which \in {"Queue", "FixedDeque", "Stack", "SLL", "DLL", "generator"}
  /\ Init /\ Deque!Init /\ Stack!Init /\ Singly!Init /\ Doubly!Init /\ Generator!Init

(* Every structure but v stays as it is. *)
Only(v) ==
  /\ v # "Queue" => UNCHANGED vars
  /\ v # "FixedDeque" => UNCHANGED dequeVars
  /\ v # "Stack" => UNCHANGED stackVars
  /\ v # "SLL" => UNCHANGED sllVars
  /\ v # "DLL" => UNCHANGED dllVars
  /\ v # "generator" => UNCHANGED genVars

MCNext ==
  /\ UNCHANGED which
  /\ \/ which = "Queue" /\ Next /\ Only("Queue")
     \/ which = "FixedDeque" /\ Deque!Next /\ Only("FixedDeque")
     \/ which = "Stack" /\ Stack!Next /\ Only("Stack")
     \/ which = "SLL" /\ Singly!Next /\ Only("SLL")
     \/ which = "DLL" /\ Doubly!Next /\ Only("DLL")
     \/ which = "generator" /\ Generator!Next /\ Only("generator")

MCSpec == MCInit /\ [][MCNext]_allVars

(* A node of SLL is nothing but an address. *)
MCSymmetry == Permutations(Nodes)

-----------------------------------------------------------------------------
(* The modules' properties, each stated there, of the structures here *)
ImplementsDeque == Deque!ImplementsDeque
ImplementsStack == Stack!ImplementsStack
ImplementsList == Singly!ImplementsList /\ Doubly!ImplementsList
CountsToN == Generator!CountsToN

(* What the ends of a ring's elements point at *)
EndsPointAtElements ==
  /\ ElementsAreWritten /\ PointerOutlivesRefills
  /\ Deque!EndsSpanTheElements /\ Deque!OverrunIsOneSlot

(* Nodes and frames: all that is in use is reached and destroyed once, and no
   pointer leads astray. *)
WellFormed == Singly!WellFormed /\ Doubly!WellFormed /\ Generator!FramesHaveOneOwner
=============================================================================
