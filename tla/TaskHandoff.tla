----------------------------- MODULE TaskHandoff -----------------------------
(***************************************************************************)
(* What the two queue programs of 03-concurrency, 06_blocking_queue_       *)
(* mutex_only.cpp and 07_blocking_queue_mutex_cv.cpp, promise in their     *)
(* opening comments, without a thread, a lock or a latch: producers put    *)
(* numbered tasks into a first-in first-out queue, consumers take them out *)
(* and work on them one at a time, and every step is atomic.               *)
(***************************************************************************)
EXTENDS Naturals, Sequences

CONSTANTS
  Producers,
  Consumers,
  TASK_COUNT,   \* how many tasks each producer puts
  NoTask        \* what a consumer with empty hands holds

VARIABLES
  made,         \* made[p]: how many tasks producer p has put
  queue,        \* the tasks put and not yet taken, the oldest first
  hand,         \* hand[c]: the task consumer c is working on, or NoTask
  worked        \* worked[c]: the tasks consumer c has finished

hvars == <<made, queue, hand, worked>>

Tasks == Producers \X (1 .. TASK_COUNT)

HInit ==
  /\ made = [p \in Producers |-> 0]
  /\ queue = <<>>
  /\ hand = [c \in Consumers |-> NoTask]
  /\ worked = [c \in Consumers |-> {}]

Put(p) ==
  /\ made[p] < TASK_COUNT
  /\ made' = [made EXCEPT ![p] = @ + 1]
  /\ queue' = Append(queue, <<p, made[p] + 1>>)
  /\ UNCHANGED <<hand, worked>>

Take(c) ==
  /\ hand[c] = NoTask
  /\ queue # <<>>
  /\ hand' = [hand EXCEPT ![c] = Head(queue)]
  /\ queue' = Tail(queue)
  /\ UNCHANGED <<made, worked>>

Finish(c) ==
  /\ hand[c] # NoTask
  /\ worked' = [worked EXCEPT ![c] = @ \cup {hand[c]}]
  /\ hand' = [hand EXCEPT ![c] = NoTask]
  /\ UNCHANGED <<made, queue>>

HNext ==
  \/ \E p \in Producers : Put(p)
  \/ \E c \in Consumers : Take(c) \/ Finish(c)

HSpec == HInit /\ [][HNext]_hvars

-----------------------------------------------------------------------------
(* The tasks put so far: the first made[p] tasks of every producer p. *)
Made == {t \in Tasks : t[2] <= made[t[1]]}

Queued == {queue[i] : i \in DOMAIN queue}
InHand == {hand[c] : c \in Consumers} \ {NoTask}
Worked == UNION {worked[c] : c \in Consumers}

(* A task put is a task queued, in hand or worked on, and no task is two of
   these, in the queue twice, or with two consumers. *)
ExactlyOnce ==
  /\ Made = Queued \cup InHand \cup Worked
  /\ Queued \cap (InHand \cup Worked) = {}
  /\ InHand \cap Worked = {}
  /\ \A i, j \in DOMAIN queue : queue[i] = queue[j] => i = j
  /\ \A c, d \in Consumers :
       c # d => /\ worked[c] \cap worked[d] = {}
                /\ hand[c] = hand[d] => hand[c] = NoTask

(* The tasks of one producer leave the queue in the order it put them. *)
InOrder ==
  /\ \A i, j \in DOMAIN queue :
       i < j /\ queue[i][1] = queue[j][1] => queue[i][2] < queue[j][2]
  /\ \A i \in DOMAIN queue : \A t \in InHand \cup Worked :
       t[1] = queue[i][1] => t[2] < queue[i][2]
=============================================================================
