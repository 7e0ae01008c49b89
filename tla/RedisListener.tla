---------------------------- MODULE RedisListener ----------------------------
(***************************************************************************)
(* The Pub/Sub listener of 06-boost-redis/01_redis_pubsub_listener.cpp: a  *)
(* coroutine that waits for pushes, a connection that stores them in the   *)
(* coroutine's response and reconnects by itself, and an entry coroutine   *)
(* that cancels the connection at a signal.  All run on one thread, so a   *)
(* coroutine runs from one co_await to the next in a single step.          *)
(***************************************************************************)
EXTENDS Integers, Sequences

CONSTANT MaxPushes    \* a bound on the pushes

VARIABLES
  conn,          \* "down", "up", or "cancelled"
  subscribed,    \* the request was executed; a reconnection repeats it
  listener,      \* "exec" and "receive" in a co_await, "ready" and "aborted"
                 \* to be resumed from one; "left" its loop, "failed" by an error
  resp,          \* the pushes stored and not consumed, numbered as they came
  has_error,
  pushes,        \* how many were stored
  printed,       \* history: the pushes that were printed
  dangling,      \* history: a push was stored after the listener had left
  entry, main    \* co_entry() and main()

vars == <<conn, subscribed, listener, resp, has_error, pushes, printed, dangling, entry, main>>

Init ==
  /\ conn = "down" /\ subscribed = FALSE
  /\ listener = "exec" /\ resp = <<>> /\ has_error = FALSE
  /\ pushes = 0 /\ printed = <<>> /\ dangling = FALSE
  /\ entry = "waiting" /\ main = "run"

Gone == listener \in {"left", "failed"}
will_reconnect == conn # "cancelled"

-----------------------------------------------------------------------------
(* The connection: it comes and goes, and loses what is published while it is
   down. *)

Reconnect ==
  /\ conn = "down" /\ conn' = "up"
  /\ UNCHANGED <<subscribed, listener, resp, has_error, pushes, printed, dangling, entry, main>>

Disconnect ==
  /\ conn = "up" /\ conn' = "down"
  /\ UNCHANGED <<subscribed, listener, resp, has_error, pushes, printed, dangling, entry, main>>

(* The connection holds a reference to resp, whose frame goes with the
   listener: a later push is stored in what is no more. *)
Push ==
  /\ conn = "up" /\ subscribed /\ pushes < MaxPushes
  /\ pushes' = pushes + 1
  /\ IF Gone THEN dangling' = TRUE /\ UNCHANGED resp
     ELSE resp' = Append(resp, pushes + 1) /\ UNCHANGED dangling
  /\ UNCHANGED <<conn, subscribed, listener, has_error, printed, entry, main>>

(* The server answers with an error, such as a missing permission. *)
PushError ==
  /\ conn = "up" /\ ~Gone /\ has_error' = TRUE
  /\ UNCHANGED <<conn, subscribed, listener, resp, pushes, printed, dangling, entry, main>>

-----------------------------------------------------------------------------
(* pub_sub_listener() *)

Bug_Loop == listener' = "receive"   \* while (true)

Loop == listener' = IF will_reconnect THEN "receive" ELSE "left"

Subscribed ==
  /\ listener = "exec" /\ conn = "up"
  /\ subscribed' = TRUE
  /\ Loop
  /\ UNCHANGED <<conn, resp, has_error, pushes, printed, dangling, entry, main>>

(* async_exec() throws, which detached drops, or async_receive2() has an error. *)
AwaitFails ==
  /\ listener \in {"exec", "receive"}
  /\ listener' = "failed"
  /\ UNCHANGED <<conn, subscribed, resp, has_error, pushes, printed, dangling, entry, main>>

Receive ==
  /\ listener = "receive" /\ (resp # <<>> \/ has_error)
  /\ listener' = "ready"
  /\ UNCHANGED <<conn, subscribed, resp, has_error, pushes, printed, dangling, entry, main>>

Bug_Consume ==   \* a co_await between the two steps of the consumption
  /\ \/ /\ listener = "ready" /\ ~has_error
        /\ printed' = printed \o resp
        /\ listener' = "consuming"
        /\ UNCHANGED resp
     \/ /\ listener = "consuming"
        /\ resp' = <<>>
        /\ Loop
        /\ UNCHANGED printed
  /\ UNCHANGED <<conn, subscribed, has_error, pushes, dangling, entry, main>>

Consume ==
  /\ listener = "ready" /\ ~has_error
  /\ printed' = printed \o resp
  /\ resp' = <<>>
  /\ Loop
  /\ UNCHANGED <<conn, subscribed, has_error, pushes, dangling, entry, main>>

Break ==
  /\ \/ listener = "ready" /\ has_error /\ listener' = "failed"
     \/ listener = "aborted" /\ listener' = "left"
  /\ UNCHANGED <<conn, subscribed, resp, has_error, pushes, printed, dangling, entry, main>>

-----------------------------------------------------------------------------
(* co_entry() and main() *)

(* cancel() ends the connection's operations and its reconnections. *)
Signal ==
  /\ entry = "waiting" /\ entry' = "done"
  /\ conn' = "cancelled"
  /\ listener' = IF listener \in {"exec", "receive"} THEN "aborted" ELSE listener
  /\ UNCHANGED <<subscribed, resp, has_error, pushes, printed, dangling, main>>

(* run() goes on while a coroutine or the connection has something to wait for. *)
RunReturns ==
  /\ main = "run" /\ entry = "done" /\ Gone
  /\ main' = "returned"
  /\ UNCHANGED <<conn, subscribed, listener, resp, has_error, pushes, printed, dangling, entry>>

Done == main = "returned" /\ UNCHANGED vars

ProgramStep == Subscribed \/ Receive \/ Consume \/ Break \/ RunReturns

Next ==
  \/ Reconnect \/ Disconnect \/ Push \/ PushError
  \/ ProgramStep \/ AwaitFails \/ Signal \/ Done

Spec == Init /\ [][Next]_vars

-----------------------------------------------------------------------------
(* Each push is printed once, in its order, whenever it comes: those that are not
   printed are kept, until the listener leaves. *)
PushesAreRead ==
  ~dangling => printed \o resp = [n \in 1 .. pushes |-> n]

(* A push meets no response that is gone, unless an error has made the listener
   leave while the connection goes on. *)
ResponseOutlivesPushes == dangling => listener = "failed"

(* After the signal run() returns, and a push that is stored is not left there
   while the listener listens. *)
SignalEndsRun == entry = "done" ~> main = "returned"
PushesAreNotLeft == resp # <<>> ~> resp = <<>> \/ Gone
=============================================================================
