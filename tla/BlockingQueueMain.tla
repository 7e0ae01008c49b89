-------------------------- MODULE BlockingQueueMain --------------------------
(***************************************************************************)
(* The program 03-concurrency/07_blocking_queue_mutex_cv.cpp: main(), the  *)
(* producer threads and the consumer threads, sharing one BlockingQueue    *)
(* and three std::latch objects.  The steps inside put() and poll() are    *)
(* the actions of module BlockingQueue, each taken together with what the  *)
(* calling thread does with its own variables.                             *)
(*                                                                         *)
(* The mutex around std::cout, held only to print, and the clock readings  *)
(* are left out; Task::work() sleeps and changes nothing, so finishing a   *)
(* task is one step.  Threads are all created before the gates open and    *)
(* wait there, so their creation is part of the initial state.             *)
(***************************************************************************)
EXTENDS Integers, Sequences, FiniteSets

CONSTANTS
  Producers,    \* the threads of producerWorkers
  Consumers,    \* the threads of consumerWorkers
  TASK_COUNT,   \* tasks put by each producer, and taken by each consumer
  NoThread,     \* the owner of a mutex nobody holds
  NoTask        \* an empty taskPtr

(* THREAD_COUNT, the size of both vectors and the initial count of endGate. *)
THREAD_COUNT == Cardinality(Consumers)

Threads == Producers \cup Consumers
Tasks == Producers \X (1 .. TASK_COUNT)

ASSUME ThreadCount ==
  /\ IsFiniteSet(Producers) /\ IsFiniteSet(Consumers)
  /\ Producers \cap Consumers = {}
  /\ Cardinality(Producers) = THREAD_COUNT
ASSUME TaskCount == TASK_COUNT \in Nat \ {0}
ASSUME Nobody == NoThread \notin Threads /\ NoTask \notin Tasks

VARIABLES
  m, data, at,          \* the BlockingQueue
  pc,                   \* where each thread is in its lambda
  i,                    \* a producer's loop counter: the puts it has finished
  taskPtr,              \* what a consumer's last poll() returned
  done,                 \* the tasks a consumer worked on; taskDoneCnt is its size
  producerStartGate, startGate, endGate,
  main                  \* where main() is

queueVars == <<m, data, at>>
latches == <<producerStartGate, startGate, endGate>>
vars == <<m, data, at, pc, i, taskPtr, done,
          producerStartGate, startGate, endGate, main>>

Q == INSTANCE BlockingQueue

Bug_Init ==   \* endGate counts one consumer too few
  /\ Q!QInit
  /\ pc = [t \in Threads |-> "gate"]
  /\ i = [p \in Producers |-> 0]
  /\ taskPtr = [c \in Consumers |-> NoTask]
  /\ done = [c \in Consumers |-> {}]
  /\ producerStartGate = 1 /\ startGate = 1 /\ endGate = THREAD_COUNT - 1
  /\ main = "start"

Init ==
  /\ Q!QInit
  /\ pc = [t \in Threads |-> "gate"]
  /\ i = [p \in Producers |-> 0]
  /\ taskPtr = [c \in Consumers |-> NoTask]
  /\ done = [c \in Consumers |-> {}]
  /\ producerStartGate = 1
  /\ startGate = 1
  /\ endGate = THREAD_COUNT
  /\ main = "start"

-----------------------------------------------------------------------------
(* The producers' lambda *)

ProducerPassGate(p) ==
  /\ pc[p] = "gate"
  /\ producerStartGate = 0
  /\ pc' = [pc EXCEPT ![p] = "loop"]
  /\ UNCHANGED <<queueVars, i, taskPtr, done, latches, main>>

ProducerPutLock(p) ==
  /\ pc[p] = "loop"
  /\ i[p] < TASK_COUNT
  /\ Q!PutLock(p)
  /\ UNCHANGED <<pc, i, taskPtr, done, latches, main>>

ProducerPutPush(p) ==
  /\ Q!PutPush(p, <<p, i[p] + 1>>)
  /\ UNCHANGED <<pc, i, taskPtr, done, latches, main>>

ProducerPutNotify(p) ==
  /\ Q!PutNotify(p)
  /\ i' = [i EXCEPT ![p] = @ + 1]
  /\ UNCHANGED <<pc, taskPtr, done, latches, main>>

ProducerExit(p) ==
  /\ pc[p] = "loop"
  /\ i[p] = TASK_COUNT
  /\ pc' = [pc EXCEPT ![p] = "exited"]
  /\ UNCHANGED <<queueVars, i, taskPtr, done, latches, main>>

ProducerStep(p) ==
  \/ ProducerPassGate(p)
  \/ ProducerPutLock(p)
  \/ ProducerPutPush(p)
  \/ ProducerPutNotify(p)
  \/ ProducerExit(p)

-----------------------------------------------------------------------------
(* The consumers' lambda *)

ConsumerPassGate(c) ==
  /\ pc[c] = "gate"
  /\ startGate = 0
  /\ pc' = [pc EXCEPT ![c] = "loop"]
  /\ UNCHANGED <<queueVars, i, taskPtr, done, latches, main>>

ConsumerPollLock(c) ==
  /\ pc[c] = "loop"
  /\ Q!PollLock(c)
  /\ UNCHANGED <<pc, i, taskPtr, done, latches, main>>

ConsumerPollWait(c) ==
  /\ Q!PollWait(c)
  /\ UNCHANGED <<pc, i, taskPtr, done, latches, main>>

Bug_ConsumerPollPop(c) ==   \* data.back() for data.front()
  /\ Q!PollPop(c)
  /\ taskPtr' = [taskPtr EXCEPT ![c] = data[Len(data)]]
  /\ pc' = [pc EXCEPT ![c] = "work"]
  /\ UNCHANGED <<i, done, latches, main>>

ConsumerPollPop(c) ==
  /\ Q!PollPop(c)
  /\ taskPtr' = [taskPtr EXCEPT ![c] = Head(data)]
  /\ pc' = [pc EXCEPT ![c] = "work"]
  /\ UNCHANGED <<i, done, latches, main>>

Bug_ConsumerWork(c) ==   \* > for >=
  /\ pc[c] = "work"
  /\ done' = [done EXCEPT ![c] = @ \cup {taskPtr[c]}]
  /\ taskPtr' = [taskPtr EXCEPT ![c] = NoTask]
  /\ pc' = [pc EXCEPT ![c] = IF Cardinality(done'[c]) > TASK_COUNT
                             THEN "count_down" ELSE "loop"]
  /\ UNCHANGED <<queueVars, i, latches, main>>

(* taskPtr->work(), taskDoneCnt++, and the test that leaves the loop. *)
ConsumerWork(c) ==
  /\ pc[c] = "work"
  /\ done' = [done EXCEPT ![c] = @ \cup {taskPtr[c]}]
  /\ taskPtr' = [taskPtr EXCEPT ![c] = NoTask]
  /\ pc' = [pc EXCEPT ![c] = IF Cardinality(done'[c]) >= TASK_COUNT
                             THEN "count_down" ELSE "loop"]
  /\ UNCHANGED <<queueVars, i, latches, main>>

ConsumerCountDown(c) ==
  /\ pc[c] = "count_down"
  /\ endGate' = endGate - 1
  /\ pc' = [pc EXCEPT ![c] = "exited"]
  /\ UNCHANGED <<queueVars, i, taskPtr, done, producerStartGate, startGate, main>>

ConsumerStep(c) ==
  \/ ConsumerPassGate(c)
  \/ ConsumerPollLock(c)
  \/ ConsumerPollWait(c)
  \/ ConsumerPollPop(c)
  \/ ConsumerWork(c)
  \/ ConsumerCountDown(c)

Spurious ==
  /\ \E c \in Consumers : Q!SpuriousWakeup(c)
  /\ UNCHANGED <<pc, i, taskPtr, done, latches, main>>

-----------------------------------------------------------------------------
(* main() *)

OpenProducerGate ==
  /\ main = "start"
  /\ producerStartGate' = 0
  /\ main' = "producersStarted"
  /\ UNCHANGED <<queueVars, pc, i, taskPtr, done, startGate, endGate>>

OpenConsumerGate ==
  /\ main = "producersStarted"
  /\ startGate' = 0
  /\ main' = "endGate.wait"
  /\ UNCHANGED <<queueVars, pc, i, taskPtr, done, producerStartGate, endGate>>

PassEndGate ==
  /\ main = "endGate.wait"
  /\ endGate = 0
  /\ main' = "joinProducers"
  /\ UNCHANGED <<queueVars, pc, i, taskPtr, done, latches>>

Bug_JoinProducers ==   \* the producers are not joined
  /\ main = "joinProducers"
  /\ main' = "joinConsumers"
  /\ UNCHANGED <<queueVars, pc, i, taskPtr, done, latches>>

JoinProducers ==
  /\ main = "joinProducers"
  /\ \A p \in Producers : pc[p] = "exited"
  /\ main' = "joinConsumers"
  /\ UNCHANGED <<queueVars, pc, i, taskPtr, done, latches>>

JoinConsumers ==
  /\ main = "joinConsumers"
  /\ \A c \in Consumers : pc[c] = "exited"
  /\ main' = "returned"
  /\ UNCHANGED <<queueVars, pc, i, taskPtr, done, latches>>

(* The process is gone: the only state in which nothing need happen. *)
Returned == main = "returned" /\ UNCHANGED vars

MainStep ==
  \/ OpenProducerGate
  \/ OpenConsumerGate
  \/ PassEndGate
  \/ JoinProducers
  \/ JoinConsumers

-----------------------------------------------------------------------------
Next ==
  \/ MainStep
  \/ \E p \in Producers : ProducerStep(p)
  \/ \E c \in Consumers : ConsumerStep(c)
  \/ Spurious
  \/ Returned

(* The scheduler runs every thread that can run, again and again; nothing is
   assumed of who gets a contended mutex or which waiter a notify wakes. *)
Fairness ==
  /\ WF_vars(MainStep)
  /\ \A p \in Producers : WF_vars(ProducerStep(p))
  /\ \A c \in Consumers : WF_vars(ConsumerStep(c))

Spec == Init /\ [][Next]_vars
FairSpec == Spec /\ Fairness

-----------------------------------------------------------------------------
(* How the program realises the promise of TaskHandoff.  A task counts as put
   as soon as it is in the deque, before put() has notified and returned. *)
HandoffMade ==
  [p \in Producers |-> IF at[p] = "notify" THEN i[p] + 1 ELSE i[p]]

H == INSTANCE TaskHandoff WITH
       made <- HandoffMade, queue <- data, hand <- taskPtr, worked <- done

(* Every step of the program is a step of the promise or invisible to it. *)
ImplementsHandoff == H!HSpec
(* No task is lost, worked on twice or given to two consumers. *)
ExactlyOnce == H!ExactlyOnce
(* Each producer's tasks leave the queue in the order they were put. *)
InOrder == H!InOrder

(* The tasks that are still to be taken out are exactly as many as the
   consumers that have not left their loop still want: a consumer that waits
   for a task is owed one.  With the strict per-consumer quota of this program
   (taskDoneCnt >= TASK_COUNT), this is what keeps the last consumers from
   waiting for tasks that others have taken. *)
Taken(c) == done[c] \cup ({taskPtr[c]} \ {NoTask})
StillWanted(c) == TASK_COUNT - Cardinality(Taken(c))
Demand == {d \in Consumers \X (1 .. TASK_COUNT) : d[2] <= StillWanted(d[1])}
DemandMatchesSupply ==
  /\ \A c \in Consumers : StillWanted(c) \in Nat
  /\ Cardinality(Tasks \ UNION {Taken(c) : c \in Consumers}) = Cardinality(Demand)

(* main() may pass endGate while producers are still inside put(): only once
   it has joined them too is nobody left inside the queue, the condition
   variable or the latches that its return destroys, and by then every task
   has been worked on. *)
NothingLeftAtReturn ==
  main = "returned" =>
    /\ \A t \in Threads : at[t] = "out" /\ pc[t] = "exited"
    /\ UNION {done[c] : c \in Consumers} = Tasks

(* When the last consumer has counted endGate down, the work is complete: the
   execution time main() prints covers all of it. *)
EndGateMeansDone ==
  endGate = 0 => data = <<>> /\ UNION {done[c] : c \in Consumers} = Tasks

(* main() returns, unless condition variables wake up spuriously for ever. *)
Termination == (<>[][~Spurious]_vars) => <>(main = "returned")
=============================================================================
