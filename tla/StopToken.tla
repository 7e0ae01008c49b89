------------------------------ MODULE StopToken ------------------------------
(***************************************************************************)
(* The program 03-concurrency/08_stop_thread_by_stop_token.cpp: a          *)
(* std::jthread runs BigIntegerProducer::run, which pushes 1, 2, 3, ...    *)
(* into a queue bounded by MAX_SIZE, until main() requests a stop.         *)
(*                                                                         *)
(* condition_variable_any::wait(lock, stopToken, pred) returns when pred   *)
(* holds or a stop was requested; the request itself wakes whoever waits   *)
(* with the token.  Nothing in the program takes a number out, so the      *)
(* queue is its length and the last number pushed.                         *)
(***************************************************************************)
EXTENDS Integers

CONSTANT MAX_SIZE   \* 10 in the program

ASSUME MaxSize == MAX_SIZE \in Nat \ {0}

VARIABLES
  locked,        \* the mutex is held by the jthread
  size,          \* queue.size()
  p,             \* the last number pushed
  stopRequested, \* the state behind the stop_token
  pc,            \* where run() is
  main,          \* where main() is
  lastAllowed    \* a history variable: the last number whose push had passed
                 \* the second test of the token when the stop was requested

vars == <<locked, size, p, stopRequested, pc, main, lastAllowed>>

Init ==
  /\ locked = FALSE /\ size = 0 /\ p = 0
  /\ stopRequested = FALSE
  /\ pc = "while"
  /\ main = "sleep"
  /\ lastAllowed = 0

-----------------------------------------------------------------------------
(* run() *)

WhileTest ==
  /\ pc = "while"
  /\ pc' = IF stopRequested THEN "exited" ELSE "lock"
  /\ UNCHANGED <<locked, size, p, stopRequested, main, lastAllowed>>

Lock ==
  /\ pc = "lock"
  /\ ~locked
  /\ locked' = TRUE
  /\ pc' = "wait"
  /\ UNCHANGED <<size, p, stopRequested, main, lastAllowed>>

(* cv.wait finds the predicate or a stop request, and returns with the lock. *)
WaitReturns ==
  /\ pc = "wait"
  /\ size < MAX_SIZE \/ stopRequested
  /\ pc' = "check"
  /\ UNCHANGED <<locked, size, p, stopRequested, main, lastAllowed>>

(* cv.wait finds neither: it releases the mutex and sleeps. *)
WaitSleeps ==
  /\ pc = "wait"
  /\ ~(size < MAX_SIZE \/ stopRequested)
  /\ locked' = FALSE
  /\ pc' = "sleep"
  /\ UNCHANGED <<size, p, stopRequested, main, lastAllowed>>

(* A notification, the stop request or no reason at all wakes the thread; it
   takes the mutex and looks again. *)
WaitWakes ==
  /\ pc = "woken"
  /\ ~locked
  /\ locked' = TRUE
  /\ pc' = "wait"
  /\ UNCHANGED <<size, p, stopRequested, main, lastAllowed>>

Spurious ==
  /\ pc = "sleep"
  /\ pc' = "woken"
  /\ UNCHANGED <<locked, size, p, stopRequested, main, lastAllowed>>

Bug_CheckStop ==   \* the second test of the token is missing
  /\ pc = "check"
  /\ pc' = "push"
  /\ UNCHANGED <<locked, size, p, stopRequested, main, lastAllowed>>

(* if (stopToken.stop_requested()) break; the lock goes with its scope. *)
CheckStop ==
  /\ pc = "check"
  /\ \/ stopRequested /\ pc' = "exited" /\ locked' = FALSE
     \/ ~stopRequested /\ pc' = "push" /\ UNCHANGED locked
  /\ UNCHANGED <<size, p, stopRequested, main, lastAllowed>>

(* queue.push(++p), lock.unlock(); notify_all() finds nobody else waiting. *)
Push ==
  /\ pc = "push"
  /\ p' = p + 1
  /\ size' = size + 1
  /\ locked' = FALSE
  /\ pc' = "while"
  /\ UNCHANGED <<stopRequested, main, lastAllowed>>

RunStep ==
  \/ WhileTest
  \/ Lock
  \/ WaitReturns
  \/ WaitSleeps
  \/ WaitWakes
  \/ CheckStop
  \/ Push

-----------------------------------------------------------------------------
(* main(), and ~jthread at the end of it *)

Bug_RequestStop ==   \* a flag that wakes nobody
  /\ main = "sleep"
  /\ stopRequested' = TRUE
  /\ lastAllowed' = IF pc = "push" THEN p + 1 ELSE p
  /\ main' = "join"
  /\ UNCHANGED <<locked, size, p, pc>>

RequestStop ==
  /\ main = "sleep"
  /\ stopRequested' = TRUE
  /\ lastAllowed' = IF pc = "push" THEN p + 1 ELSE p
  /\ pc' = IF pc = "sleep" THEN "woken" ELSE pc
  /\ main' = "join"
  /\ UNCHANGED <<locked, size, p>>

(* ~jthread runs before ~BigIntegerProducer and joins. *)
Join ==
  /\ main = "join"
  /\ pc = "exited"
  /\ main' = "returned"
  /\ UNCHANGED <<locked, size, p, stopRequested, pc, lastAllowed>>

Returned == main = "returned" /\ UNCHANGED vars

Next == RunStep \/ Spurious \/ RequestStop \/ Join \/ Returned

Spec == Init /\ [][Next]_vars

-----------------------------------------------------------------------------
(* The bound on size is more than a type: the stop request also ends a wait on
   a full queue, and nothing may be pushed then. *)
TypeOK ==
  /\ locked \in BOOLEAN
  /\ size \in 0 .. MAX_SIZE
  /\ p \in Nat
  /\ stopRequested \in BOOLEAN
  /\ pc \in {"while", "lock", "wait", "sleep", "woken", "check", "push", "exited"}
  /\ main \in {"sleep", "join", "returned"}
  /\ lastAllowed \in Nat

(* A stop is prompt: a number whose push had passed the test of the token may
   still be pushed, and none after it, wherever the request found the thread;
   and a wait on a full queue that the request ends lets no number in. *)
StopIsPrompt ==
  /\ stopRequested => p <= lastAllowed
  /\ size <= MAX_SIZE
=============================================================================
