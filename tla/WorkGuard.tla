------------------------------ MODULE WorkGuard ------------------------------
(***************************************************************************)
(* runAsyncNonBlockingTimer() of 04-boost_asio/timer.cpp: as many threads  *)
(* as the machine has cores call run() before there is anything to do, and *)
(* a work guard keeps them there until main() has started a wait, done     *)
(* other things, and resets the guard before it joins them.                *)
(*                                                                         *)
(* A thread that is created late is one that calls run() late.             *)
(***************************************************************************)
EXTENDS Integers, Sequences

CONSTANTS Runners, Strand, NoHandler

VARIABLES
  ready, strandQueue, locked, stopped, at, holds,   \* the io_context
  pool,      \* threadVec; hardware_concurrency() may be 0
  guard, timer, calls, main

IO == INSTANCE IoContext

vars == <<ready, strandQueue, locked, stopped, at, holds, pool, guard, timer, calls, main>>

Init ==
  /\ IO!IOInit
  /\ pool \in SUBSET Runners
  /\ guard = TRUE /\ timer = "new" /\ calls = 0 /\ main = "wait"

CallRun(t) == t \in pool /\ IO!CallRun(t) /\ UNCHANGED <<pool, guard, timer, calls, main>>

Expire ==
  /\ timer = "waiting"
  /\ \E t \in Runners : at[t] = "run"
  /\ timer' = "expired"
  /\ ready' = Append(ready, "completionHandlerPrint")
  /\ UNCHANGED <<strandQueue, locked, stopped, at, holds, pool, guard, calls, main>>

Take(t) == IO!Take(t) /\ UNCHANGED <<pool, guard, timer, calls, main>>

completionHandlerPrint(t) ==
  /\ IO!RunUnbound(t)
  /\ calls' = calls + 1
  /\ UNCHANGED <<pool, guard, timer, main>>

Bug_ReturnFromRun(t) ==   \* no work guard
  /\ IO!ReturnFromRun(t, timer = "waiting")
  /\ UNCHANGED <<pool, guard, timer, calls, main>>

ReturnFromRun(t) ==
  /\ IO!ReturnFromRun(t, guard \/ timer = "waiting")
  /\ UNCHANGED <<pool, guard, timer, calls, main>>

RunnerStep(t) == CallRun(t) \/ Take(t) \/ completionHandlerPrint(t) \/ ReturnFromRun(t)

async_wait ==
  /\ main = "wait"
  /\ timer' = "waiting"
  /\ main' = "work"
  /\ UNCHANGED <<ready, strandQueue, locked, stopped, at, holds, pool, guard, calls>>

(* The loop over threadVec resets the guard before each join. *)
Reset ==
  /\ main = "work" /\ pool # {}
  /\ guard' = FALSE
  /\ main' = "join"
  /\ UNCHANGED <<ready, strandQueue, locked, stopped, at, holds, pool, timer, calls>>

Join ==
  /\ IF pool = {} THEN main = "work" ELSE main = "join" /\ \A t \in pool : at[t] = "returned"
  /\ main' = "returned"
  /\ UNCHANGED <<ready, strandQueue, locked, stopped, at, holds, pool, guard, timer, calls>>

MainStep == async_wait \/ Reset \/ Join

Returned == main = "returned" /\ UNCHANGED vars

Next == (\E t \in Runners : RunnerStep(t)) \/ Expire \/ MainStep \/ Returned

Spec == Init /\ [][Next]_vars

-----------------------------------------------------------------------------
(* No thread leaves run() before the timer is there, and none before its
   handler was called: unless hardware_concurrency() is 0, when nobody is ever
   in run(), the handler has been called by the time main() goes on. *)
CompleteAtReturn == main = "returned" => calls = (IF pool = {} THEN 0 ELSE 1) /\ ready = <<>>
=============================================================================
