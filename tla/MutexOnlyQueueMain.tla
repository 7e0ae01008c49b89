------------------------- MODULE MutexOnlyQueueMain -------------------------
(***************************************************************************)
(* The program 03-concurrency/06_blocking_queue_mutex_only.cpp: the queue  *)
(* program without a condition variable.  is_empty(), put() and poll()     *)
(* hold the mutex from their first line to their last and wait for nothing *)
(* under it, so each call is one step here; what happens between two calls *)
(* of a consumer, is_empty() and the poll() that relies on it, is not.     *)
(*                                                                         *)
(* As in BlockingQueueMain, printing and the clock are left out and the    *)
(* threads exist from the beginning, waiting at the gate.                  *)
(***************************************************************************)
EXTENDS Integers, Sequences, FiniteSets

CONSTANTS
  Producers,
  Consumers,
  TASK_COUNT,   \* 1000 in the program
  NoTask        \* the nullptr poll() may return

Threads == Producers \cup Consumers
Tasks == Producers \X (1 .. TASK_COUNT)

ASSUME DisjointThreads ==
  /\ IsFiniteSet(Producers) /\ IsFiniteSet(Consumers)
  /\ Producers \cap Consumers = {}
ASSUME TaskCount == TASK_COUNT \in Nat \ {0}
ASSUME NoTaskIsNoTask == NoTask \notin Tasks

VARIABLES
  data,                \* the deque
  pc,                  \* where each thread is in its lambda
  i,                   \* a producer's loop counter
  taskPtr, done,       \* a consumer's current task and finished tasks
  startGate, endGate,  \* the latches
  main                 \* where main() is

vars == <<data, pc, i, taskPtr, done, startGate, endGate, main>>

Init ==
  /\ data = <<>>
  /\ pc = [t \in Threads |-> "gate"]
  /\ i = [p \in Producers |-> 0]
  /\ taskPtr = [c \in Consumers |-> NoTask]
  /\ done = [c \in Consumers |-> {}]
  /\ startGate = 1
  /\ endGate = Cardinality(Consumers)
  /\ main = "start"

-----------------------------------------------------------------------------
(* The methods of the queue: their effect on data, and what they return. *)

put(task) == data' = Append(data, task)
is_empty == data = <<>>

Bug_poll(task) ==   \* the pop_front() is missing
  /\ task = IF data = <<>> THEN NoTask ELSE Head(data)
  /\ UNCHANGED data

poll(task) ==
  \/ is_empty /\ task = NoTask /\ UNCHANGED data
  \/ ~is_empty /\ task = Head(data) /\ data' = Tail(data)

-----------------------------------------------------------------------------
(* The two lambdas.  All threads wait at the same gate. *)

PassGate(t) ==
  /\ pc[t] = "gate"
  /\ startGate = 0
  /\ pc' = [pc EXCEPT ![t] = IF t \in Producers THEN "put" ELSE "is_empty"]
  /\ UNCHANGED <<data, i, taskPtr, done, startGate, endGate, main>>

ProducerPut(p) ==
  /\ pc[p] = "put"
  /\ put(<<p, i[p] + 1>>)
  /\ i' = [i EXCEPT ![p] = @ + 1]
  /\ pc' = [pc EXCEPT ![p] = IF i'[p] < TASK_COUNT THEN "put" ELSE "exited"]
  /\ UNCHANGED <<taskPtr, done, startGate, endGate, main>>

Bug_ConsumerTest(c) ==   \* while(true)
  /\ pc[c] = "is_empty"
  /\ pc' = [pc EXCEPT ![c] = "poll"]
  /\ UNCHANGED <<data, i, taskPtr, done, startGate, endGate, main>>

(* while(!blockingQueue.is_empty()) *)
ConsumerTest(c) ==
  /\ pc[c] = "is_empty"
  /\ pc' = [pc EXCEPT ![c] = IF is_empty THEN "count_down" ELSE "poll"]
  /\ UNCHANGED <<data, i, taskPtr, done, startGate, endGate, main>>

(* Another consumer may have emptied the queue since the test. *)
ConsumerPoll(c) ==
  /\ pc[c] = "poll"
  /\ \E task \in Tasks \cup {NoTask} :
       /\ poll(task)
       /\ taskPtr' = [taskPtr EXCEPT ![c] = task]
       /\ pc' = [pc EXCEPT ![c] = IF task = NoTask THEN "is_empty" ELSE "work"]
  /\ UNCHANGED <<i, done, startGate, endGate, main>>

(* make_unique() in poll() throws before the pop_front(): the task stays in
   the queue, and the consumer leaves its loop by the catch block. *)
ConsumerThrows(c) ==
  /\ pc[c] = "poll" /\ ~is_empty
  /\ pc' = [pc EXCEPT ![c] = "count_down"]
  /\ UNCHANGED <<data, i, taskPtr, done, startGate, endGate, main>>

ConsumerWork(c) ==
  /\ pc[c] = "work"
  /\ done' = [done EXCEPT ![c] = @ \cup {taskPtr[c]}]
  /\ taskPtr' = [taskPtr EXCEPT ![c] = NoTask]
  /\ pc' = [pc EXCEPT ![c] = "is_empty"]
  /\ UNCHANGED <<data, i, startGate, endGate, main>>

ConsumerCountDown(c) ==
  /\ pc[c] = "count_down"
  /\ endGate' = endGate - 1
  /\ pc' = [pc EXCEPT ![c] = "exited"]
  /\ UNCHANGED <<data, i, taskPtr, done, startGate, main>>

ThreadStep(t) ==
  \/ PassGate(t)
  \/ t \in Producers /\ ProducerPut(t)
  \/ t \in Consumers /\ \/ ConsumerTest(t)
                        \/ ConsumerPoll(t)
                        \/ ConsumerWork(t)
                        \/ ConsumerCountDown(t)

-----------------------------------------------------------------------------
(* main() *)

OpenGate ==
  /\ main = "start"
  /\ startGate' = 0
  /\ main' = "endGate.wait"
  /\ UNCHANGED <<data, pc, i, taskPtr, done, endGate>>

PassEndGate ==
  /\ main = "endGate.wait"
  /\ endGate = 0
  /\ main' = "join"
  /\ UNCHANGED <<data, pc, i, taskPtr, done, startGate, endGate>>

Bug_JoinAll ==   \* only the consumers are joined
  /\ main = "join"
  /\ \A c \in Consumers : pc[c] = "exited"
  /\ main' = "returned"
  /\ UNCHANGED <<data, pc, i, taskPtr, done, startGate, endGate>>

(* The join()s of both vectors, one after the other. *)
JoinAll ==
  /\ main = "join"
  /\ \A t \in Threads : pc[t] = "exited"
  /\ main' = "returned"
  /\ UNCHANGED <<data, pc, i, taskPtr, done, startGate, endGate>>

Returned == main = "returned" /\ UNCHANGED vars

MainStep == OpenGate \/ PassEndGate \/ JoinAll

Next ==
  \/ MainStep
  \/ \E t \in Threads : ThreadStep(t)
  \/ \E c \in Consumers : ConsumerThrows(c)
  \/ Returned

Spec == Init /\ [][Next]_vars
FairSpec == Spec /\ WF_vars(MainStep) /\ \A t \in Threads : WF_vars(ThreadStep(t))

-----------------------------------------------------------------------------
H == INSTANCE TaskHandoff WITH
       made <- i, queue <- data, hand <- taskPtr, worked <- done

(* Each step is a step of the promise of TaskHandoff or invisible to it: what
   is worked on is worked on once, by one consumer, in the order put. *)
ImplementsHandoff == H!HSpec

(* When main() returns, no task is in flight: a task some consumer took has
   been worked on, every other task is still in the queue, those included at
   which a poll() has thrown, and no thread is left that could touch the
   queue. *)
AccountedAtReturn ==
  main = "returned" =>
    /\ H!Queued \cup H!Worked = Tasks
    /\ Len(data) + Cardinality(H!Worked) = Cardinality(Tasks)
    /\ \A t \in Threads : pc[t] = "exited"

(* A consumer that found the queue empty is gone, and the others go on; the
   program returns even if consumers leave before the first put, or by their
   catch block: endGate is counted down on either way. *)
Termination == <>(main = "returned")

(* 06_blocking_queue_mutex_only.cpp:10-11 says of the program that ten
   producers put 1000 tasks each and ten consumers take them out and work on
   them; lines 38-39 add that a consumer that has left costs performance. *)
AllTasksProcessed == main = "returned" => H!Worked = Tasks
=============================================================================
