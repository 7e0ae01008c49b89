----------------------------- MODULE SingleTimer -----------------------------
(***************************************************************************)
(* The programs handler_with_parameter, handler_with_class_member_function *)
(* and completion_token of 04-boost_asio: main() waits for one timer with  *)
(* a handler that counts and waits again, up to repeat times (never, in    *)
(* completion_token), and calls run().                                     *)
(***************************************************************************)
EXTENDS Integers, Sequences

CONSTANTS Strand, NoHandler

VARIABLES
  ready, strandQueue, locked, stopped, at, holds,   \* the io_context
  repeat,    \* 5, or 0 in completion_token
  waiting,   \* the timer is waited for
  calls,     \* how often the handler was called
  count, vec, main

IO == INSTANCE IoContext WITH Runners <- {"main"}

context == <<ready, strandQueue, locked, stopped, at, holds>>
vars == <<context, repeat, waiting, calls, count, vec, main>>

(* expires_after() or the constructor, and async_wait() *)
Init ==
  /\ IO!IOInit
  /\ repeat \in {0, 5}
  /\ waiting = TRUE /\ calls = 0 /\ count = 0 /\ vec = <<>> /\ main = "run"

CallRun == IO!CallRun("main") /\ UNCHANGED <<repeat, waiting, calls, count, vec, main>>

Expire ==
  /\ waiting /\ at["main"] = "run"
  /\ waiting' = FALSE
  /\ ready' = Append(ready, "print")
  /\ UNCHANGED <<strandQueue, locked, stopped, at, holds, repeat, calls, count, vec, main>>

Take == IO!Take("main") /\ UNCHANGED <<repeat, waiting, calls, count, vec, main>>

(* The square is pushed in handler_with_class_member_function only; here the
   others do so, too, where nobody reads it. *)
print ==
  /\ IO!RunUnbound("main")
  /\ calls' = calls + 1
  /\ IF count < repeat
     THEN vec' = Append(vec, count * count) /\ count' = count + 1 /\ waiting' = TRUE
     ELSE UNCHANGED <<vec, count, waiting>>
  /\ UNCHANGED <<repeat, main>>

ReturnFromRun ==
  /\ IO!ReturnFromRun("main", waiting)
  /\ main' = "returned"
  /\ UNCHANGED <<repeat, waiting, calls, count, vec>>

Step == CallRun \/ Expire \/ Take \/ print \/ ReturnFromRun

Returned == main = "returned" /\ UNCHANGED vars

Next == Step \/ Returned

Spec == Init /\ [][Next]_vars

-----------------------------------------------------------------------------
(* The chain of waits that keeps run() going breaks neither before the last
   square nor behind it. *)
CompleteAtReturn ==
  main = "returned" =>
    calls = repeat + 1 /\ vec = [k \in 1 .. repeat |-> (k - 1) * (k - 1)]
=============================================================================
