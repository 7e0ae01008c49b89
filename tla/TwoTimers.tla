------------------------------ MODULE TwoTimers ------------------------------
(***************************************************************************)
(* The program 04-boost_asio/handler_with_multithread.cpp: two threads run *)
(* one io_context, on which the two handlers print1 and print2, bound to   *)
(* one strand, each wait for a timer, extend a vector and a counter, and   *)
(* wait again, until the counter has reached a limit.                      *)
(*                                                                         *)
(* A timer may expire at any time after it is waited for: the model leaves *)
(* open how late the threads are, and with it the order of the two timers. *)
(***************************************************************************)
EXTENDS Integers, Sequences

CONSTANTS
  Runners,   \* the threads t1 and t2
  limit,     \* 10 in the program
  Strand,
  NoHandler

ASSUME LimitIsNat == limit \in Nat

Timers == {"timer1_", "timer2_"}
Handlers == {"print1", "print2"}

(* The timer a handler waits for again. *)
TimerOf(h) == IF h = "print1" THEN "timer1_" ELSE "timer2_"

VARIABLES
  ready, strandQueue, locked, stopped, at, holds,   \* the io_context
  waits,       \* the handlers that wait for each timer
  step,        \* where a runner is in its handler
  count_, vec, \* the counter and the squares
  main         \* where main() is

IO == INSTANCE IoContext

vars == <<ready, strandQueue, locked, stopped, at, holds,
          waits, step, count_, vec, main>>
context == <<ready, strandQueue, locked, stopped, at, holds>>

(* startTimers() hangs both of the first waits on timer1_. *)
Init ==
  /\ IO!IOInit
  /\ waits = [timer1_ |-> <<"print1", "print2">>, timer2_ |-> <<>>]
  /\ step = [t \in Runners |-> "test"]
  /\ count_ = 0 /\ vec = <<>>
  /\ main = "join"

-----------------------------------------------------------------------------
(* A timer expires: a thread inside run() makes all of its waits ready. *)
Expire(timer) ==
  /\ waits[timer] # <<>>
  /\ \E t \in Runners : at[t] = "run"
  /\ ready' = ready \o waits[timer]
  /\ waits' = [waits EXCEPT ![timer] = <<>>]
  /\ UNCHANGED <<strandQueue, locked, stopped, at, holds, step, count_, vec, main>>

CallRun(t) == IO!CallRun(t) /\ UNCHANGED <<waits, step, count_, vec, main>>

Take(t) == IO!Take(t) /\ UNCHANGED <<waits, step, count_, vec, main>>

Bug_Dispatch(t) ==   \* the handlers are not bound to the strand
  /\ at[t] = "dispatch"
  /\ at' = [at EXCEPT ![t] = "handler"]
  /\ UNCHANGED <<ready, strandQueue, locked, stopped, holds>>
  /\ UNCHANGED <<waits, step, count_, vec, main>>

(* bind_executor(strand_, ...) *)
Dispatch(t) == IO!DispatchToStrand(t) /\ UNCHANGED <<waits, step, count_, vec, main>>

(* print1 and print2; step is the next of their statements. *)
InHandler(t, s) == at[t] = "handler" /\ step[t] = s

Bug_Limit(t) ==   \* <= for <
  /\ InHandler(t, "test")
  /\ \/ /\ count_ <= limit
        /\ step' = [step EXCEPT ![t] = "push"]
        /\ UNCHANGED context
     \/ /\ count_ > limit
        /\ IO!HandlerReturns(t, <<>>)
        /\ UNCHANGED step
  /\ UNCHANGED <<waits, count_, vec, main>>

Bug_PrintTest(t) ==   \* the timer is waited for again behind the limit
  /\ InHandler(t, "test")
  /\ step' = [step EXCEPT ![t] = IF count_ < limit THEN "push" ELSE "wait"]
  /\ UNCHANGED <<context, waits, count_, vec, main>>

PrintTest(t) ==
  /\ InHandler(t, "test")
  /\ \/ /\ count_ < limit
        /\ step' = [step EXCEPT ![t] = "push"]
        /\ UNCHANGED context
     \/ /\ count_ >= limit
        /\ IO!HandlerReturns(t, <<>>)
        /\ UNCHANGED step
  /\ UNCHANGED <<waits, count_, vec, main>>

PrintPush(t) ==
  /\ InHandler(t, "push")
  /\ vec' = Append(vec, count_ * count_)
  /\ step' = [step EXCEPT ![t] = "increment"]
  /\ UNCHANGED <<context, waits, count_, main>>

PrintIncrement(t) ==
  /\ InHandler(t, "increment")
  /\ count_' = count_ + 1
  /\ step' = [step EXCEPT ![t] = "wait"]
  /\ UNCHANGED <<context, waits, vec, main>>

Bug_PrintWait(t) ==   \* print2 waits for timer1_, too
  LET timer == "timer1_"
  IN  /\ InHandler(t, "wait")
      /\ waits' = [waits EXCEPT ![timer] = <<holds[t]>>]
      /\ step' = [step EXCEPT ![t] = "test"]
      /\ IO!HandlerReturns(t, waits[timer])
      /\ UNCHANGED <<count_, vec, main>>

(* expires_at() cancels the waits that hang on the timer: their handlers become
   ready with an error, which they do not look at. Then async_wait(). *)
PrintWait(t) ==
  LET timer == TimerOf(holds[t])
  IN  /\ InHandler(t, "wait")
      /\ waits' = [waits EXCEPT ![timer] = <<holds[t]>>]
      /\ step' = [step EXCEPT ![t] = "test"]
      /\ IO!HandlerReturns(t, waits[timer])
      /\ UNCHANGED <<count_, vec, main>>

ReturnFromRun(t) ==
  /\ IO!ReturnFromRun(t, \E timer \in Timers : waits[timer] # <<>>)
  /\ UNCHANGED <<waits, step, count_, vec, main>>

RunnerStep(t) ==
  \/ CallRun(t) \/ Take(t) \/ Dispatch(t)
  \/ PrintTest(t) \/ PrintPush(t) \/ PrintIncrement(t) \/ PrintWait(t)
  \/ ReturnFromRun(t)

Join ==
  /\ main = "join"
  /\ \A t \in Runners : at[t] = "returned"
  /\ main' = "returned"
  /\ UNCHANGED <<context, waits, step, count_, vec>>

Returned == main = "returned" /\ UNCHANGED vars

Next ==
  \/ \E timer \in Timers : Expire(timer)
  \/ \E t \in Runners : RunnerStep(t)
  \/ Join
  \/ Returned

Spec == Init /\ [][Next]_vars

-----------------------------------------------------------------------------
(* handler_with_multithread.cpp:65-72: no write of either handler is lost or
   mixed up with the other's, whichever threads they run in: the squares are in
   their order, and one ahead of the counter only inside a handler. *)
SquaresInOrder ==
  /\ \A k \in DOMAIN vec : vec[k] = (k - 1) * (k - 1)
  /\ Len(vec) = count_ + (IF \E t \in Runners : InHandler(t, "increment") THEN 1 ELSE 0)

(* Although both first waits hang on timer1_, which print1 sets anew, nothing
   is ever cancelled: whoever sets a timer is the only one to wait for it. *)
NothingIsCancelled ==
  \A t \in Runners : InHandler(t, "wait") => waits[TimerOf(holds[t])] = <<>>

(* No handler is left in the strand or a timer, and both threads have counted
   to the limit and not beyond it, when main() reads the vector. *)
CompleteAtReturn ==
  main = "returned" =>
    /\ count_ = limit
    /\ strandQueue = <<>> /\ ready = <<>> /\ ~locked
    /\ \A timer \in Timers : waits[timer] = <<>>
=============================================================================
