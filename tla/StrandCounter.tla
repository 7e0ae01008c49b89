--------------------------- MODULE StrandCounter ---------------------------
(***************************************************************************)
(* The program 04-boost_asio/strand.cpp: two threads post increments of a  *)
(* counter to a strand; main() joins them and then calls run(), once, in   *)
(* the only thread that ever does.                                         *)
(***************************************************************************)
EXTENDS Integers, Sequences, FiniteSets

CONSTANTS
  Posters,    \* the threads t1 and t2
  posts,      \* 5 in the program
  Strand, NoHandler

VARIABLES
  ready, strandQueue, locked, stopped, at, holds,   \* the io_context
  posted,    \* how often each thread has called increment()
  counter_,
  main

IO == INSTANCE IoContext WITH Runners <- {"main"}

vars == <<ready, strandQueue, locked, stopped, at, holds, posted, counter_, main>>

Init == IO!IOInit /\ posted = [t \in Posters |-> 0] /\ counter_ = 0 /\ main = "join"

increment(t) ==
  /\ posted[t] < posts
  /\ posted' = [posted EXCEPT ![t] = @ + 1]
  /\ IO!PostToStrand("increment")
  /\ UNCHANGED <<counter_, main>>

Bug_CallRun ==   \* run() comes before the joins
  /\ main = "join"
  /\ IO!CallRun("main")
  /\ main' = "run"
  /\ UNCHANGED <<posted, counter_>>

(* t1.join(), t2.join(), run() *)
CallRun ==
  /\ main = "join"
  /\ \A t \in Posters : posted[t] = posts
  /\ IO!CallRun("main")
  /\ main' = "run"
  /\ UNCHANGED <<posted, counter_>>

Take == IO!Take("main") /\ UNCHANGED <<posted, counter_, main>>

Handle ==
  /\ at["main"] = "handler"
  /\ counter_' = counter_ + 1
  /\ IO!HandlerReturns("main", <<>>)
  /\ UNCHANGED <<posted, main>>

ReturnFromRun ==
  /\ IO!ReturnFromRun("main", FALSE)
  /\ main' = "returned"
  /\ UNCHANGED <<posted, counter_>>

Step == (\E t \in Posters : increment(t)) \/ CallRun \/ Take \/ Handle \/ ReturnFromRun

Returned == main = "returned" /\ (\A t \in Posters : posted[t] = posts) /\ UNCHANGED vars

Next == Step \/ Returned

Spec == Init /\ [][Next]_vars

-----------------------------------------------------------------------------
(* "순서대로, 중복 없이, 빠짐 없이" (strand.cpp:13): when run() has returned,
   every post of either thread was executed, and once. *)
CompleteAtReturn == main = "returned" => counter_ = posts * Cardinality(Posters) /\ strandQueue = <<>>
=============================================================================
