------------------------- MODULE MCSinglyLinkedList -------------------------
EXTENDS SinglyLinkedList, TLC

(* The lists that are copied from: two values, up to two elements. *)
MCSources == UNION {[1 .. k -> Values] : k \in 0 .. 2}

(* A node is nothing but an address. *)
MCSymmetry == Permutations(Nodes)
=============================================================================
