--------------------------- MODULE MCAsioPrograms ---------------------------
(***************************************************************************)
(* The timer and strand programs of 04-boost_asio: one io_context, and one *)
(* of the four programs on it.                                             *)
(***************************************************************************)
EXTENDS TwoTimers, FiniteSets

CONSTANT posts

(* Each program has two threads; a handler is not the strand. *)
ASSUME SomeRunners == Runners # {} /\ IsFiniteSet(Runners)
ASSUME PostsIsNat == posts \in Nat
ASSUME StrandIsNoHandler ==
  Strand \notin {"print1", "print2", "increment", "print", "completionHandlerPrint"}

VARIABLES which, posted, repeat, waiting, calls, pool, guard, timer

Counter == INSTANCE StrandCounter WITH Posters <- Runners, counter_ <- count_
Single == INSTANCE SingleTimer WITH count <- count_
Guarded == INSTANCE WorkGuard

timersVars == <<waits, step>>
singleVars == <<repeat, waiting>>
guardVars == <<pool, guard, timer>>

(* A program does not use the variables of the others. *)
NoTimers == waits = 0 /\ step = 0
NoSingle == repeat = 0 /\ waiting = 0
NoGuard == pool = 0 /\ guard = 0 /\ timer = 0

MCInit ==
  \/ which = "two timers" /\ Init /\ posted = 0 /\ calls = 0 /\ NoSingle /\ NoGuard
  \/ which = "strand" /\ Counter!Init /\ vec = 0 /\ calls = 0 /\ NoTimers /\ NoSingle /\ NoGuard
  \/ which = "single timer" /\ Single!Init /\ posted = 0 /\ NoTimers /\ NoGuard
  \/ which = "work guard" /\ Guarded!Init /\ posted = 0 /\ count_ = 0 /\ vec = 0 /\ NoTimers /\ NoSingle

TwoTimersNext ==
  /\ which = "two timers" /\ Next
  /\ UNCHANGED <<which, posted, calls, singleVars, guardVars>>
StrandNext ==
  /\ which = "strand" /\ Counter!Next
  /\ UNCHANGED <<which, vec, calls, timersVars, singleVars, guardVars>>
SingleNext ==
  /\ which = "single timer" /\ Single!Next
  /\ UNCHANGED <<which, posted, timersVars, guardVars>>
GuardNext ==
  /\ which = "work guard" /\ Guarded!Next
  /\ UNCHANGED <<which, posted, count_, vec, timersVars, singleVars>>

MCNext == TwoTimersNext \/ StrandNext \/ SingleNext \/ GuardNext

(* Time goes on, and the threads are scheduled. *)
MCSpec ==
  /\ MCInit /\ [][MCNext]_<<which, vars, posted, calls, singleVars, guardVars>>
  /\ \A t \in Timers : WF_vars(which = "two timers" /\ Expire(t))
  /\ \A t \in Runners : WF_vars(which = "two timers" /\ RunnerStep(t))
  /\ WF_vars(which = "two timers" /\ Join)
  /\ WF_(Counter!vars)(which = "strand" /\ Counter!Step)
  /\ WF_(Single!vars)(which = "single timer" /\ Single!Step)
  /\ \A t \in Runners : WF_(Guarded!vars)(which = "work guard" /\ Guarded!RunnerStep(t))
  /\ WF_(Guarded!vars)(which = "work guard" /\ Guarded!Expire)
  /\ WF_(Guarded!vars)(which = "work guard" /\ Guarded!MainStep)

-----------------------------------------------------------------------------
(* The programs' properties, stated in the module of each *)
NoWriteIsLost == which = "two timers" => SquaresInOrder
NoWaitIsCancelled == which = "two timers" => NothingIsCancelled
EachIsComplete ==
  /\ which = "two timers" => CompleteAtReturn
  /\ which = "strand" => Counter!CompleteAtReturn
  /\ which = "single timer" => Single!CompleteAtReturn
  /\ which = "work guard" => Guarded!CompleteAtReturn

(* Every run() returns, and each program with it. *)
AllReturn == <>(main = "returned")
=============================================================================
