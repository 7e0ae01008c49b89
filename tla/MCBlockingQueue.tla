--------------------------- MODULE MCBlockingQueue ---------------------------
(***************************************************************************)
(* The class under its most general client, on a small instance.           *)
(***************************************************************************)
EXTENDS BlockingQueue, TLC

CONSTANT MaxData   \* the longest deque that is explored

MCSymmetry == Permutations(Threads) \cup Permutations(Tasks)

(* QNext, with the one unbounded quantity of the module capped: nobody      *)
(* begins to put into a deque of MaxData tasks.                             *)
MCNext ==
  /\ QNext
  /\ Len(data') + Cardinality(AtPosition({"push"}))' <= MaxData

MCSpec == QInit /\ [][MCNext]_qvars
=============================================================================
