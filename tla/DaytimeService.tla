--------------------------- MODULE DaytimeService ---------------------------
(***************************************************************************)
(* What the daytime servers of 04-boost_asio promise: an answer goes to a  *)
(* client that has asked, and one for each time it has.  Requests and      *)
(* answers may be lost, and the network may double a request.              *)
(***************************************************************************)
EXTENDS Integers

CONSTANT Clients

VARIABLES
  owed,      \* the requests of each client that wait for an answer
  answers    \* the answers on their way to it, or read by it

DSInit == owed = [c \in Clients |-> 0] /\ answers = [c \in Clients |-> 0]

Ask(c) == owed' = [owed EXCEPT ![c] = @ + 1] /\ UNCHANGED answers

Answer(c) ==
  /\ owed[c] > 0
  /\ owed' = [owed EXCEPT ![c] = @ - 1]
  /\ answers' = [answers EXCEPT ![c] = @ + 1]

LoseAnswer(c) ==
  answers[c] > 0 /\ answers' = [answers EXCEPT ![c] = @ - 1] /\ UNCHANGED owed

(* A server that ends loses the requests of many clients at once. *)
LoseRequests(lost) ==
  /\ \A c \in lost : owed[c] > 0
  /\ owed' = [c \in Clients |-> IF c \in lost THEN owed[c] - 1 ELSE owed[c]]
  /\ UNCHANGED answers

DSNext ==
  \/ \E c \in Clients : Ask(c) \/ Answer(c) \/ LoseAnswer(c)
  \/ \E lost \in SUBSET Clients : LoseRequests(lost)

DSSpec == DSInit /\ [][DSNext]_<<owed, answers>>
=============================================================================
