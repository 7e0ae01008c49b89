------------------------------ MODULE IoContext ------------------------------
(***************************************************************************)
(* boost::asio::io_context and one strand on it, as far as the programs of *)
(* 04-boost_asio depend on them.  The library is not part of the           *)
(* repository: this is modelled from its documented guarantees.            *)
(*                                                                         *)
(* run() takes completions one by one until the context is stopped, which  *)
(* it is as soon as there is no work left: nothing ready, nothing pending, *)
(* no handler running in any thread.  A completion bound to the strand is  *)
(* queued while the strand is held; the thread that holds it runs the      *)
(* queued handlers one after the other, or hands the rest back.            *)
(***************************************************************************)
EXTENDS Sequences

CONSTANTS
  Runners,     \* the threads that call run()
  Strand,      \* the completion that goes on with the strand's queue
  NoHandler

VARIABLES
  ready,       \* completions that wait for a thread
  strandQueue, \* handlers that wait for the strand
  locked,      \* the strand is held, or on its way back through ready
  stopped,     \* the context has run out of work
  at,          \* where each runner is
  holds        \* the handler a runner dispatches or runs

iovars == <<ready, strandQueue, locked, stopped, at, holds>>

IOInit ==
  /\ ready = <<>> /\ strandQueue = <<>>
  /\ locked = FALSE
  /\ stopped = FALSE
  /\ at = [t \in Runners |-> "out"]
  /\ holds = [t \in Runners |-> NoHandler]

CallRun(t) ==
  /\ at[t] = "out"
  /\ at' = [at EXCEPT ![t] = "run"]
  /\ UNCHANGED <<ready, strandQueue, locked, stopped, holds>>

Take(t) ==
  /\ at[t] = "run" /\ ~stopped
  /\ ready # <<>>
  /\ ready' = Tail(ready)
  /\ IF Head(ready) = Strand
     THEN /\ at' = [at EXCEPT ![t] = "handler"]
          /\ holds' = [holds EXCEPT ![t] = Head(strandQueue)]
          /\ strandQueue' = Tail(strandQueue)
     ELSE /\ at' = [at EXCEPT ![t] = "dispatch"]
          /\ holds' = [holds EXCEPT ![t] = Head(ready)]
          /\ UNCHANGED strandQueue
  /\ UNCHANGED <<locked, stopped>>

(* A handler that is bound to nothing, from its call to its return *)
RunUnbound(t) ==
  /\ at[t] = "dispatch"
  /\ at' = [at EXCEPT ![t] = "run"]
  /\ holds' = [holds EXCEPT ![t] = NoHandler]
  /\ UNCHANGED <<ready, strandQueue, locked, stopped>>

(* post() on the strand, by any thread, whether or not somebody is in run() *)
PostToStrand(h) ==
  /\ strandQueue' = Append(strandQueue, h)
  /\ locked' = TRUE
  /\ ready' = IF locked THEN ready ELSE Append(ready, Strand)
  /\ UNCHANGED <<stopped, at, holds>>

(* A handler bound to the strand runs at once if the strand is free. *)
DispatchToStrand(t) ==
  /\ at[t] = "dispatch"
  /\ IF locked
     THEN /\ strandQueue' = Append(strandQueue, holds[t])
          /\ at' = [at EXCEPT ![t] = "run"]
          /\ holds' = [holds EXCEPT ![t] = NoHandler]
          /\ UNCHANGED locked
     ELSE /\ locked' = TRUE
          /\ at' = [at EXCEPT ![t] = "handler"]
          /\ UNCHANGED <<strandQueue, holds>>
  /\ UNCHANGED <<ready, stopped>>

(* The handler of t returns; made are the completions it has made ready. *)
HandlerReturns(t, made) ==
  /\ \/ /\ strandQueue = <<>>
        /\ locked' = FALSE
        /\ at' = [at EXCEPT ![t] = "run"]
        /\ holds' = [holds EXCEPT ![t] = NoHandler]
        /\ ready' = ready \o made
        /\ UNCHANGED strandQueue
     \/ /\ strandQueue # <<>>
        /\ holds' = [holds EXCEPT ![t] = Head(strandQueue)]
        /\ strandQueue' = Tail(strandQueue)
        /\ ready' = ready \o made
        /\ UNCHANGED <<locked, at>>
     \/ /\ strandQueue # <<>>
        /\ at' = [at EXCEPT ![t] = "run"]
        /\ holds' = [holds EXCEPT ![t] = NoHandler]
        /\ ready' = Append(ready \o made, Strand)
        /\ UNCHANGED <<locked, strandQueue>>
  /\ UNCHANGED stopped

(* run() returns, here or in another thread, when no work is left. *)
ReturnFromRun(t, pending) ==
  /\ at[t] = "run"
  /\ \/ stopped
     \/ /\ ready = <<>> /\ ~pending
        /\ \A u \in Runners : at[u] \notin {"dispatch", "handler"}
  /\ stopped' = TRUE
  /\ at' = [at EXCEPT ![t] = "returned"]
  /\ UNCHANGED <<ready, strandQueue, locked, holds>>
=============================================================================
