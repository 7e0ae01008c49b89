---------------------- MODULE MutexOnlyQueueMainProofs ----------------------
(***************************************************************************)
(* The program 06_blocking_queue_mutex_only.cpp implements the promise of  *)
(* TaskHandoff as well, for every number of producers, consumers and       *)
(* tasks, and no task is unaccounted for when it returns.                  *)
(***************************************************************************)
EXTENDS MutexOnlyQueueMain, FiniteSetTheorems, TLAPS

HP == INSTANCE TaskHandoffProofs WITH
        made <- i, queue <- data, hand <- taskPtr, worked <- done

MTypes ==
  /\ data \in Seq(Tasks)
  /\ pc \in [Threads -> {"gate", "put", "is_empty", "poll", "work", "count_down",
                         "exited"}]
  /\ i \in [Producers -> 0 .. TASK_COUNT]
  /\ taskPtr \in [Consumers -> Tasks \cup {NoTask}]
  /\ done \in [Consumers -> SUBSET Tasks]

(* A producer is done when its quota is, a consumer's hands are full exactly
   while it works, and main() returns behind everybody. *)
MInv ==
  /\ MTypes
  /\ \A p \in Producers :
       /\ pc[p] \in {"gate", "put", "exited"}
       /\ IF pc[p] = "exited" THEN i[p] = TASK_COUNT ELSE i[p] < TASK_COUNT
  /\ \A c \in Consumers :
       /\ pc[c] # "put"
       /\ taskPtr[c] # NoTask <=> pc[c] = "work"
  /\ main = "returned" => \A t \in Threads : pc[t] = "exited"

USE DisjointThreads, TaskCount, NoTaskIsNoTask

-----------------------------------------------------------------------------
LEMMA InitMInv == Init => MInv
  BY DEF Init, MInv, MTypes, Threads

LEMMA TailOfData ==
  ASSUME NEW s \in Seq(Tasks), s # <<>>
  PROVE  Head(s) \in Tasks /\ Tail(s) \in Seq(Tasks)
  OBVIOUS

LEMMA PassGateStep ==
  ASSUME MInv, NEW t \in Threads, PassGate(t)
  PROVE  MInv' /\ UNCHANGED HP!hvars
<1>1. MInv'
  BY DEF MInv, MTypes, Threads, PassGate
<1>2. QED
  BY <1>1 DEF PassGate, HP!hvars

LEMMA ProducerStep ==
  ASSUME MInv, NEW p \in Producers, ProducerPut(p)
  PROVE  MInv' /\ HP!Put(p)
<1>1. /\ pc[p] = "put" /\ i[p] \in 0 .. TASK_COUNT - 1
      /\ i[p] + 1 \in 1 .. TASK_COUNT
      /\ i' = [i EXCEPT ![p] = i[p] + 1]
      /\ data' = Append(data, <<p, i[p] + 1>>)
      /\ pc' = [pc EXCEPT ![p] = IF i[p] + 1 < TASK_COUNT THEN "put" ELSE "exited"]
      /\ UNCHANGED <<taskPtr, done, main>>
  BY DEF MInv, MTypes, ProducerPut, put
<1>2. <<p, i[p] + 1>> \in Tasks
  BY <1>1 DEF Tasks
<1>3. MInv'
  BY <1>1, <1>2 DEF MInv, MTypes, Threads
<1>4. QED
  BY <1>1, <1>3 DEF HP!Put

LEMMA ConsumerPollStep ==
  ASSUME MInv, NEW c \in Consumers, ConsumerPoll(c)
  PROVE  MInv' /\ (HP!Take(c) \/ UNCHANGED HP!hvars)
<1>1. PICK task \in Tasks \cup {NoTask} :
        /\ poll(task)
        /\ taskPtr' = [taskPtr EXCEPT ![c] = task]
        /\ pc' = [pc EXCEPT ![c] = IF task = NoTask THEN "is_empty" ELSE "work"]
  BY DEF ConsumerPoll
<1>2. pc[c] = "poll" /\ UNCHANGED <<i, done, main>>
  BY DEF ConsumerPoll
<1>3. CASE data = <<>>
  <2>1. task = NoTask /\ data' = data
    BY <1>1, <1>3 DEF poll, is_empty
  <2>2. taskPtr' = taskPtr
    BY <1>1, <1>2, <2>1 DEF MInv, MTypes
  <2>3. MInv'
    BY <1>1, <1>2, <2>1, <2>2 DEF MInv, MTypes, Threads
  <2>4. QED
    BY <1>2, <2>1, <2>2, <2>3 DEF HP!hvars
<1>4. CASE data # <<>>
  <2>1. task = Head(data) /\ data' = Tail(data)
    BY <1>1, <1>4 DEF poll, is_empty
  <2>2. task \in Tasks /\ task # NoTask /\ Tail(data) \in Seq(Tasks)
    BY <1>4, <2>1, TailOfData DEF MInv, MTypes
  <2>3. MInv'
    BY <1>1, <1>2, <2>1, <2>2 DEF MInv, MTypes, Threads
  <2>4. HP!Take(c)
    BY <1>1, <1>2, <1>4, <2>1 DEF HP!Take, MInv
  <2>5. QED
    BY <2>3, <2>4
<1>5. QED
  BY <1>3, <1>4

LEMMA ConsumerWorkStep ==
  ASSUME MInv, NEW c \in Consumers, ConsumerWork(c)
  PROVE  MInv' /\ HP!Finish(c)
<1>1. MInv'
  BY DEF MInv, MTypes, Threads, ConsumerWork
<1>2. HP!Finish(c)
  BY DEF MInv, ConsumerWork, HP!Finish
<1>3. QED
  BY <1>1, <1>2

LEMMA QuietStep ==
  ASSUME MInv,
         \/ \E c \in Consumers : ConsumerTest(c) \/ ConsumerThrows(c) \/ ConsumerCountDown(c)
         \/ MainStep
         \/ UNCHANGED vars
  PROVE  MInv' /\ UNCHANGED HP!hvars
<1>1. ASSUME NEW c \in Consumers,
             ConsumerTest(c) \/ ConsumerThrows(c) \/ ConsumerCountDown(c)
      PROVE  MInv' /\ UNCHANGED HP!hvars
  <2>1. MInv'
    BY <1>1 DEF MInv, MTypes, Threads, ConsumerTest, ConsumerThrows, ConsumerCountDown, is_empty
  <2>2. QED
    BY <1>1, <2>1 DEF ConsumerTest, ConsumerThrows, ConsumerCountDown, HP!hvars
<1>2. CASE MainStep \/ UNCHANGED vars
  <2>1. /\ UNCHANGED <<data, pc, i, taskPtr, done>>
        /\ main' = "returned" => main = "returned" \/ \A t \in Threads : pc[t] = "exited"
    BY <1>2 DEF MainStep, OpenGate, PassEndGate, JoinAll, vars
  <2>2. QED
    BY <2>1 DEF MInv, MTypes, HP!hvars
<1>3. QED
  BY <1>1, <1>2

LEMMA NextSimulates ==
  ASSUME MInv, [Next]_vars
  PROVE  MInv' /\ [HP!HNext]_(HP!hvars)
<1>1. ASSUME NEW t \in Threads, PassGate(t) PROVE MInv' /\ [HP!HNext]_(HP!hvars)
  BY <1>1, PassGateStep
<1>2. ASSUME NEW p \in Producers, ProducerPut(p) PROVE MInv' /\ [HP!HNext]_(HP!hvars)
  BY <1>2, ProducerStep DEF HP!HNext
<1>3. ASSUME NEW c \in Consumers, ConsumerPoll(c) PROVE MInv' /\ [HP!HNext]_(HP!hvars)
  BY <1>3, ConsumerPollStep DEF HP!HNext
<1>4. ASSUME NEW c \in Consumers, ConsumerWork(c) PROVE MInv' /\ [HP!HNext]_(HP!hvars)
  BY <1>4, ConsumerWorkStep DEF HP!HNext
<1>5. ASSUME \/ \E c \in Consumers : ConsumerTest(c) \/ ConsumerThrows(c) \/ ConsumerCountDown(c)
             \/ MainStep
             \/ UNCHANGED vars
      PROVE  MInv' /\ [HP!HNext]_(HP!hvars)
  BY <1>5, QuietStep
<1>6. QED
  BY <1>1, <1>2, <1>3, <1>4, <1>5 DEF Next, ThreadStep, Returned

-----------------------------------------------------------------------------
LEMMA ProgramInvariant == Spec => []MInv
<1>1. MInv /\ [Next]_vars => MInv'
  BY NextSimulates
<1>2. QED
  BY <1>1, InitMInv, PTL DEF Spec

LEMMA ProgramKeepsPromise == Spec => HP!HSpec
<1>1. Init => HP!HInit
  BY DEF Init, HP!HInit
<1>2. MInv /\ [Next]_vars => [HP!HNext]_(HP!hvars)
  BY NextSimulates
<1>3. QED
  BY <1>1, <1>2, ProgramInvariant, PTL DEF Spec, HP!HSpec

(* The program of 06 implements TaskHandoff, too. *)
THEOREM Implements == Spec => ImplementsHandoff
<1>1. HP!HInit => H!HInit
  BY DEF HP!HInit, H!HInit
<1>2. [HP!HNext]_(HP!hvars) => [H!HNext]_(H!hvars)
  BY DEF HP!HNext, H!HNext, HP!hvars, H!hvars, HP!Put, H!Put, HP!Take, H!Take,
         HP!Finish, H!Finish
<1>3. QED
  BY <1>1, <1>2, ProgramKeepsPromise, PTL DEF ImplementsHandoff, HP!HSpec, H!HSpec

(* A sequence without repetition is as long as the set of its elements. *)
LEMMA LenIsCardinality ==
  ASSUME NEW s \in Seq(Tasks), \A k, l \in DOMAIN s : s[k] = s[l] => k = l
  PROVE  LET S == {s[k] : k \in DOMAIN s}
         IN  IsFiniteSet(S) /\ Cardinality(S) = Len(s)
<1> DEFINE S == {s[k] : k \in DOMAIN s}
<1>1. Len(s) \in Nat /\ DOMAIN s = 1 .. Len(s)
  OBVIOUS
<1>2. s \in Bijection(1 .. Len(s), S)
  BY <1>1 DEF Bijection, Injection, Surjection, IsInjective
<1>3. ExistsBijection(1 .. Len(s), S)
  BY <1>2 DEF ExistsBijection
<1>4. QED
  BY <1>1, <1>3, FS_NatBijection, FS_CountingElements

(* When main() returns, every task is still in the queue or was worked on: none
   is lost on the way, although nobody may be left to take it. *)
THEOREM Accounted == Spec => []AccountedAtReturn
<1>1. HP!HSpec => [](HP!ExactlyOnce /\ HP!InOrder)
  <2>1. TASK_COUNT \in Nat /\ NoTask \notin HP!Tasks
    BY DEF HP!Tasks, Tasks
  <2>2. QED
    BY <2>1, HP!HandoffIsExactlyOnce
<1>2. MInv /\ HP!ExactlyOnce => AccountedAtReturn
  <2> SUFFICES ASSUME MInv, HP!ExactlyOnce, main = "returned"
               PROVE  /\ H!Queued \cup H!Worked = Tasks
                      /\ Len(data) + Cardinality(H!Worked) = Cardinality(Tasks)
                      /\ \A t \in Threads : pc[t] = "exited"
    BY DEF AccountedAtReturn
  <2>1. \A t \in Threads : pc[t] = "exited"
    BY DEF MInv
  <2>2. HP!InHand = {}
    BY <2>1 DEF MInv, HP!InHand, Threads
  <2>3. HP!Made = Tasks
    BY <2>1 DEF MInv, HP!Made, HP!Tasks, Tasks, Threads
  <2>4. /\ H!Queued \cup H!Worked = Tasks
        /\ H!Queued \cap H!Worked = {}
        /\ \A k, l \in DOMAIN data : data[k] = data[l] => k = l
    BY <2>2, <2>3 DEF HP!ExactlyOnce, HP!Queued, H!Queued, HP!Worked, H!Worked
  <2>5. IsFiniteSet(Tasks) /\ IsFiniteSet(H!Worked)
    <3>1. IsFiniteSet(1 .. TASK_COUNT)
      BY FS_Interval
    <3>2. IsFiniteSet(Tasks)
      BY <3>1, FS_Product DEF Tasks
    <3>3. QED
      BY <2>4, <3>2, FS_Subset
  <2>6. IsFiniteSet(H!Queued) /\ Cardinality(H!Queued) = Len(data)
    BY <2>4, LenIsCardinality DEF MInv, MTypes, H!Queued
  <2>7. Cardinality(Tasks) = Cardinality(H!Queued) + Cardinality(H!Worked)
    <3>1. Cardinality(H!Queued) \in Nat /\ Cardinality(H!Worked) \in Nat
      BY <2>5, <2>6, FS_CardinalityType
    <3>2. Cardinality(H!Queued \cap H!Worked) = 0
      BY <2>4, FS_EmptySet
    <3>3. Cardinality(H!Queued \cup H!Worked)
            = Cardinality(H!Queued) + Cardinality(H!Worked)
                - Cardinality(H!Queued \cap H!Worked)
      BY <2>5, <2>6, FS_Union
    <3>4. Cardinality(Tasks) = Cardinality(H!Queued \cup H!Worked)
      BY <2>4
    <3>5. QED
      BY <3>1, <3>2, <3>3, <3>4
  <2>8. QED
    BY <2>1, <2>4, <2>6, <2>7
<1>3. QED
  BY <1>1, <1>2, ProgramInvariant, ProgramKeepsPromise, PTL
=============================================================================
