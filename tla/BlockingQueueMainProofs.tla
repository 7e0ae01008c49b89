---------------------- MODULE BlockingQueueMainProofs ----------------------
(***************************************************************************)
(* The program 07_blocking_queue_mutex_cv.cpp implements the promise of    *)
(* TaskHandoff, for every number of producers, consumers and tasks, and    *)
(* inherits what follows from it.                                          *)
(***************************************************************************)
EXTENDS BlockingQueueMain, FiniteSetTheorems, TLAPS

HP == INSTANCE TaskHandoffProofs WITH
        made <- HandoffMade, queue <- data, hand <- taskPtr, worked <- done

(* What the refinement needs to know of a thread's place: producers are never
   in poll() nor consumers in put(), a put() under way is one of the quota, and
   a consumer's hands are full exactly while it works. *)
PlacesOK ==
  /\ at \in [Threads -> Q!Positions]
  /\ pc \in [Threads -> {"gate", "loop", "work", "count_down", "exited"}]
  /\ i \in [Producers -> 0 .. TASK_COUNT]
  /\ taskPtr \in [Consumers -> Tasks \cup {NoTask}]
  /\ data \in Seq(Tasks)

ProducersPut ==
  \A p \in Producers :
    /\ at[p] \in {"out", "push", "notify"}
    /\ at[p] # "out" => i[p] < TASK_COUNT

ConsumersPoll ==
  \A c \in Consumers :
    /\ at[c] \in {"out", "pred", "wait", "woken"}
    /\ at[c] # "out" => pc[c] = "loop"
    /\ taskPtr[c] # NoTask <=> pc[c] = "work"

PInv == PlacesOK /\ ProducersPut /\ ConsumersPoll

USE ThreadCount, TaskCount, Nobody

-----------------------------------------------------------------------------
LEMMA InitPInv == Init => PInv
  BY DEF Init, PInv, PlacesOK, ProducersPut, ConsumersPoll, Q!QInit, Q!Positions, Threads

LEMMA TailOfData ==
  ASSUME NEW s \in Seq(Tasks), s # <<>>
  PROVE  Head(s) \in Tasks /\ Tail(s) \in Seq(Tasks)
  OBVIOUS

(* A producer's step is a Put when it pushes, and invisible otherwise. *)
LEMMA ProducerSimulates ==
  ASSUME PInv, NEW p \in Producers, ProducerStep(p)
  PROVE  PInv' /\ [HP!HNext]_(HP!hvars)
<1> USE DEF PInv, PlacesOK, ProducersPut, ConsumersPoll, Q!Positions, Threads,
            queueVars, latches
<1>1. CASE ProducerPassGate(p)
  <2>1. PInv'
    BY <1>1 DEF ProducerPassGate
  <2>2. UNCHANGED HP!hvars
    BY <1>1 DEF ProducerPassGate, HP!hvars, HandoffMade
  <2>3. QED
    BY <2>1, <2>2
<1>2. CASE ProducerPutLock(p)
  <2>1. PInv'
    BY <1>2 DEF ProducerPutLock, Q!PutLock
  <2>2. UNCHANGED HP!hvars
    BY <1>2 DEF ProducerPutLock, Q!PutLock, HP!hvars, HandoffMade
  <2>3. QED
    BY <2>1, <2>2
<1>3. CASE ProducerPutPush(p)
  <2>1. i[p] \in 0 .. TASK_COUNT - 1 /\ <<p, i[p] + 1>> \in Tasks
    <3>1. at[p] = "push" /\ i[p] \in 0 .. TASK_COUNT /\ i[p] < TASK_COUNT
      BY <1>3 DEF ProducerPutPush, Q!PutPush
    <3>2. i[p] \in 0 .. TASK_COUNT - 1 /\ i[p] + 1 \in 1 .. TASK_COUNT
      BY <3>1
    <3>3. QED
      BY <3>2 DEF Tasks
  <2>2. PInv'
    BY <1>3, <2>1 DEF ProducerPutPush, Q!PutPush
  <2>3. HP!Put(p)
    BY <1>3, <2>1 DEF ProducerPutPush, Q!PutPush, HP!Put, HandoffMade
  <2>4. QED
    BY <2>2, <2>3 DEF HP!HNext
<1>4. CASE ProducerPutNotify(p)
  <2>1. /\ at[p] = "notify" /\ at'[p] = "out" /\ i' = [i EXCEPT ![p] = @ + 1]
        /\ \A q \in Producers \ {p} : at'[q] = at[q]
        /\ \A c \in Consumers : at'[c] = at[c] \/ (at[c] = "wait" /\ at'[c] = "woken")
        /\ at' \in [Threads -> Q!Positions]
        /\ UNCHANGED <<data, pc, taskPtr, done>>
    BY <1>4 DEF ProducerPutNotify, Q!PutNotify, Q!Waiting, Q!AtPosition
  <2>2. PInv'
    BY <2>1
  <2>3. UNCHANGED HP!hvars
    <3>1. HandoffMade' = HandoffMade
      BY <2>1 DEF HandoffMade
    <3>2. QED
      BY <3>1, <2>1 DEF HP!hvars
  <2>4. QED
    BY <2>2, <2>3
<1>5. CASE ProducerExit(p)
  <2>1. PInv'
    BY <1>5 DEF ProducerExit
  <2>2. UNCHANGED HP!hvars
    BY <1>5 DEF ProducerExit, HP!hvars, HandoffMade
  <2>3. QED
    BY <2>1, <2>2
<1>6. QED
  BY <1>1, <1>2, <1>3, <1>4, <1>5 DEF ProducerStep

(* A consumer's step is a Take when it pops, a Finish when it has worked, and
   invisible otherwise. *)
LEMMA ConsumerSimulates ==
  ASSUME PInv, NEW c \in Consumers, ConsumerStep(c)
  PROVE  PInv' /\ [HP!HNext]_(HP!hvars)
<1> USE DEF PInv, PlacesOK, ProducersPut, ConsumersPoll, Q!Positions, Threads,
            queueVars, latches
<1>1. CASE ConsumerPassGate(c)
  <2>1. PInv'
    BY <1>1 DEF ConsumerPassGate
  <2>2. UNCHANGED HP!hvars
    BY <1>1 DEF ConsumerPassGate, HP!hvars, HandoffMade
  <2>3. QED
    BY <2>1, <2>2
<1>2. CASE ConsumerPollLock(c)
  <2>1. PInv'
    BY <1>2 DEF ConsumerPollLock, Q!PollLock
  <2>2. UNCHANGED HP!hvars
    BY <1>2 DEF ConsumerPollLock, Q!PollLock, HP!hvars, HandoffMade
  <2>3. QED
    BY <2>1, <2>2
<1>3. CASE ConsumerPollWait(c)
  <2>1. PInv'
    BY <1>3 DEF ConsumerPollWait, Q!PollWait
  <2>2. UNCHANGED HP!hvars
    BY <1>3 DEF ConsumerPollWait, Q!PollWait, HP!hvars, HandoffMade
  <2>3. QED
    BY <2>1, <2>2
<1>4. CASE ConsumerPollPop(c)
  <2>1. Head(data) \in Tasks /\ Tail(data) \in Seq(Tasks)
    BY <1>4, TailOfData DEF ConsumerPollPop, Q!PollPop
  <2>2. PInv'
    BY <1>4, <2>1 DEF ConsumerPollPop, Q!PollPop
  <2>3. HP!Take(c)
    BY <1>4 DEF ConsumerPollPop, Q!PollPop, HP!Take, HandoffMade
  <2>4. QED
    BY <2>2, <2>3 DEF HP!HNext
<1>5. CASE ConsumerWork(c)
  <2>1. PInv'
    BY <1>5 DEF ConsumerWork
  <2>2. HP!Finish(c)
    BY <1>5 DEF ConsumerWork, HP!Finish, HandoffMade
  <2>3. QED
    BY <2>1, <2>2 DEF HP!HNext
<1>6. CASE ConsumerCountDown(c)
  <2>1. PInv'
    BY <1>6 DEF ConsumerCountDown
  <2>2. UNCHANGED HP!hvars
    BY <1>6 DEF ConsumerCountDown, HP!hvars, HandoffMade
  <2>3. QED
    BY <2>1, <2>2
<1>7. QED
  BY <1>1, <1>2, <1>3, <1>4, <1>5, <1>6 DEF ConsumerStep

(* Neither main() nor a spurious wakeup touches the tasks. *)
LEMMA OthersSimulate ==
  ASSUME PInv, MainStep \/ Spurious \/ UNCHANGED vars
  PROVE  PInv' /\ [HP!HNext]_(HP!hvars)
<1> USE DEF PInv, PlacesOK, ProducersPut, ConsumersPoll, Q!Positions, Threads,
            queueVars, latches
<1>1. CASE Spurious
  <2>1. PICK c \in Consumers : Q!SpuriousWakeup(c)
    BY <1>1 DEF Spurious
  <2>2. UNCHANGED <<data, pc, i, taskPtr, done>>
    BY <1>1, <2>1 DEF Spurious, Q!SpuriousWakeup
  <2>3. PInv'
    BY <2>1, <2>2 DEF Q!SpuriousWakeup
  <2>4. UNCHANGED HP!hvars
    BY <2>1, <2>2 DEF Q!SpuriousWakeup, HP!hvars, HandoffMade
  <2>5. QED
    BY <2>3, <2>4
<1>2. CASE MainStep \/ UNCHANGED vars
  <2>1. UNCHANGED <<data, at, pc, i, taskPtr, done>>
    BY <1>2 DEF MainStep, OpenProducerGate, OpenConsumerGate, PassEndGate,
                JoinProducers, JoinConsumers, vars
  <2>2. PInv'
    BY <2>1
  <2>3. UNCHANGED HP!hvars
    BY <2>1 DEF HP!hvars, HandoffMade
  <2>4. QED
    BY <2>2, <2>3
<1>3. QED
  BY <1>1, <1>2

LEMMA NextSimulates ==
  ASSUME PInv, [Next]_vars
  PROVE  PInv' /\ [HP!HNext]_(HP!hvars)
<1>1. ASSUME NEW p \in Producers, ProducerStep(p) PROVE PInv' /\ [HP!HNext]_(HP!hvars)
  BY <1>1, ProducerSimulates
<1>2. ASSUME NEW c \in Consumers, ConsumerStep(c) PROVE PInv' /\ [HP!HNext]_(HP!hvars)
  BY <1>2, ConsumerSimulates
<1>3. CASE MainStep \/ Spurious \/ UNCHANGED vars
  BY <1>3, OthersSimulate
<1>4. QED
  BY <1>1, <1>2, <1>3 DEF Next, Returned

-----------------------------------------------------------------------------
(* Every behaviour of the program is one of the promise. *)
LEMMA ProgramKeepsPromise == Spec => HP!HSpec
<1>1. Init => PInv /\ HP!HInit
  <2>1. Init => HP!HInit
    BY DEF Init, HP!HInit, HandoffMade, Q!QInit, Threads
  <2>2. QED
    BY <2>1, InitPInv
<1>2. PInv /\ [Next]_vars => PInv' /\ [HP!HNext]_(HP!hvars)
  BY NextSimulates
<1>3. QED
  BY <1>1, <1>2, PTL DEF Spec, HP!HSpec

(* The program of 07 implements TaskHandoff: what its threads, its mutex, its
   condition variable and its latches do is put, take and finish. *)
THEOREM Implements == Spec => ImplementsHandoff
<1>1. HP!HInit => H!HInit
  BY DEF HP!HInit, H!HInit
<1>2. [HP!HNext]_(HP!hvars) => [H!HNext]_(H!hvars)
  BY DEF HP!HNext, H!HNext, HP!hvars, H!hvars, HP!Put, H!Put, HP!Take, H!Take,
         HP!Finish, H!Finish
<1>3. QED
  BY <1>1, <1>2, ProgramKeepsPromise, PTL DEF ImplementsHandoff, HP!HSpec, H!HSpec

(* No task is lost, worked on twice or given to two consumers, and each
   producer's tasks leave the queue in the order they were put. *)
THEOREM TasksExactlyOnce == Spec => [](ExactlyOnce /\ InOrder)
<1>1. TASK_COUNT \in Nat /\ NoTask \notin HP!Tasks
  BY DEF HP!Tasks, Tasks
<1>2. HP!HSpec => [](HP!ExactlyOnce /\ HP!InOrder)
  BY <1>1, HP!HandoffIsExactlyOnce
<1>3. HP!ExactlyOnce /\ HP!InOrder => ExactlyOnce /\ InOrder
  BY DEF HP!ExactlyOnce, HP!InOrder, ExactlyOnce, InOrder, H!ExactlyOnce, H!InOrder,
         HP!Made, H!Made, HP!Queued, H!Queued, HP!InHand, H!InHand, HP!Worked, H!Worked,
         HP!Tasks, H!Tasks
<1>4. QED
  BY <1>2, <1>3, ProgramKeepsPromise, PTL

-----------------------------------------------------------------------------
(* The elements of disjoint sets are as many as the pairs that number them: set
   c of at most n elements by <<c, 1>>, <<c, 2>>, ... *)
Numbers(C, n, f) == {d \in C \X (1 .. n) : d[2] <= Cardinality(f[d[1]])}

LEMMA DisjointSets ==
  ASSUME NEW C, NEW n \in Nat, NEW S, NEW f \in [C -> SUBSET S],
         IsFiniteSet(C), IsFiniteSet(S),
         \A c \in C : Cardinality(f[c]) <= n,
         \A c, d \in C : c # d => f[c] \cap f[d] = {}
  PROVE  Cardinality(UNION {f[c] : c \in C}) = Cardinality(Numbers(C, n, f))
<1> DEFINE size(c) == Cardinality(f[c])
           U == UNION {f[c] : c \in C}
           b == [c \in C |-> CHOOSE g : g \in Bijection(1 .. size(c), f[c])]
           h == [d \in Numbers(C, n, f) |-> b[d[1]][d[2]]]
<1>1. ASSUME NEW c \in C
      PROVE  /\ IsFiniteSet(f[c]) /\ size(c) \in 0 .. n
             /\ b[c] \in Bijection(1 .. size(c), f[c])
  <2>1. IsFiniteSet(f[c])
    BY FS_Subset
  <2>2. size(c) \in Nat /\ ExistsBijection(1 .. size(c), f[c])
    BY <2>1, FS_CardinalityType
  <2>3. \E g : g \in Bijection(1 .. size(c), f[c])
    BY <2>2 DEF ExistsBijection
  <2> QED BY <2>1, <2>2, <2>3
<1>2. ASSUME NEW c \in C
      PROVE  /\ \A k \in 1 .. size(c) : b[c][k] \in f[c]
             /\ \A j, k \in 1 .. size(c) : b[c][j] = b[c][k] => j = k
             /\ \A x \in f[c] : \E k \in 1 .. size(c) : b[c][k] = x
  <2> DEFINE g == b[c]   A == 1 .. size(c)   B == f[c]
  <2>1. g \in Bijection(A, B)
    BY <1>1
  <2> HIDE DEF g, A, B
  <2>2. /\ \A k \in A : g[k] \in B
        /\ \A j, k \in A : g[j] = g[k] => j = k
        /\ \A x \in B : \E k \in A : g[k] = x
    BY <2>1 DEF Bijection, Injection, Surjection, IsInjective
  <2> QED BY <2>2 DEF g, A, B
<1> HIDE DEF b
<1>3. ASSUME NEW d \in Numbers(C, n, f)
      PROVE  /\ d[1] \in C /\ d[2] \in 1 .. size(d[1]) /\ d = <<d[1], d[2]>>
             /\ h[d] = b[d[1]][d[2]] /\ h[d] \in f[d[1]]
  <2>1. d[1] \in C /\ d[2] \in 1 .. n /\ d = <<d[1], d[2]>> /\ d[2] <= size(d[1])
    BY DEF Numbers
  <2>2. d[2] \in 1 .. size(d[1])
    BY <2>1, <1>1
  <2> QED BY <2>1, <2>2, <1>2
<1> HIDE DEF h, size
<1>4. h \in [Numbers(C, n, f) -> U]
  <2>1. h = [d \in Numbers(C, n, f) |-> b[d[1]][d[2]]]
    BY DEF h
  <2>2. \A d \in Numbers(C, n, f) : h[d] \in U
    BY <1>3
  <2> QED BY <2>1, <2>2
<1>5. ASSUME NEW d \in Numbers(C, n, f), NEW e \in Numbers(C, n, f), h[d] = h[e]
      PROVE  d = e
  <2>1. d[1] = e[1]
    BY <1>3, <1>5
  <2>2. d[2] = e[2]
    BY <1>2, <1>3, <1>5, <2>1
  <2> QED BY <1>3, <2>1, <2>2
<1>6. ASSUME NEW x \in U PROVE \E d \in Numbers(C, n, f) : h[d] = x
  <2>1. PICK c \in C : x \in f[c]
    OBVIOUS
  <2>2. PICK k \in 1 .. size(c) : b[c][k] = x
    BY <1>2, <2>1
  <2>3. <<c, k>> \in Numbers(C, n, f)
    BY <1>1, <2>2 DEF Numbers, size
  <2>4. h[<<c, k>>] = x
    BY <1>3, <2>2, <2>3
  <2> QED BY <2>3, <2>4
<1>7. h \in Bijection(Numbers(C, n, f), U)
  BY <1>4, <1>5, <1>6 DEF Bijection, Injection, Surjection, IsInjective
<1>8. IsFiniteSet(Numbers(C, n, f))
  <2>1. IsFiniteSet(C \X (1 .. n))
    <3>1. IsFiniteSet(1 .. n)
      BY FS_Interval
    <3> QED BY <3>1, FS_Product
  <2> QED BY <2>1, FS_Subset DEF Numbers
<1> QED BY <1>7, <1>8, FS_Bijection DEF ExistsBijection

(* The consumers that have not counted endGate down *)
Busy == {c \in Consumers : pc[c] # "exited"}

(* How far a consumer is in its quota tells how far it is in its loop, main()
   returns behind everybody, and endGate counts who is still to come. *)
QuotaInv ==
  /\ PInv
  /\ done \in [Consumers -> SUBSET Tasks]
  /\ \A c \in Consumers :
       IF pc[c] \in {"count_down", "exited"}
       THEN Cardinality(done[c]) = TASK_COUNT
       ELSE Cardinality(done[c]) < TASK_COUNT
  /\ \A p \in Producers : pc[p] = "exited" => i[p] = TASK_COUNT
  /\ main \in {"joinConsumers", "returned"} => \A p \in Producers : pc[p] = "exited"
  /\ main = "returned" => \A c \in Consumers : pc[c] = "exited"
  /\ endGate = Cardinality(Busy)

LEMMA TasksFinite ==
  /\ IsFiniteSet(Tasks)
  /\ Cardinality(Tasks) = Cardinality(Consumers) * TASK_COUNT
<1> DEFINE N == 1 .. TASK_COUNT
<1>1. IsFiniteSet(N) /\ Cardinality(N) = TASK_COUNT
  BY FS_Interval
<1>2. /\ IsFiniteSet(Producers)
      /\ Cardinality(Producers) = Cardinality(Consumers)
  BY DEF THREAD_COUNT
<1>3. Tasks = Producers \X N
  BY DEF Tasks
<1> HIDE DEF N
<1> QED BY <1>1, <1>2, <1>3, FS_Product

LEMMA InitQuota == Init => QuotaInv
<1> SUFFICES ASSUME Init PROVE QuotaInv
  OBVIOUS
<1>1. PInv
  BY InitPInv
<1>2. \A c \in Consumers : done[c] = {} /\ pc[c] = "gate"
  BY DEF Init, Threads
<1>3. \A p \in Producers : pc[p] = "gate"
  BY DEF Init, Threads
<1>4. done \in [Consumers -> SUBSET Tasks] /\ main = "start"
  BY DEF Init
<1>5. endGate = Cardinality(Busy)
  <2>1. Busy = Consumers
    BY <1>2 DEF Busy
  <2> QED BY <2>1 DEF Init, THREAD_COUNT
<1> QED BY <1>1, <1>2, <1>3, <1>4, <1>5, FS_EmptySet DEF QuotaInv

(* Finishing a task, which no consumer has worked on, brings a consumer one
   nearer to its quota. *)
LEMMA WorkCounts ==
  ASSUME QuotaInv, ExactlyOnce, NEW c \in Consumers, pc[c] = "work"
  PROVE  /\ taskPtr[c] \in Tasks /\ taskPtr[c] \notin done[c]
         /\ Cardinality(done[c]) \in Nat
         /\ Cardinality(done[c] \cup {taskPtr[c]}) = Cardinality(done[c]) + 1
<1>1. taskPtr[c] # NoTask /\ taskPtr[c] \in Tasks
  BY DEF QuotaInv, PInv, PlacesOK, ConsumersPoll
<1>2. taskPtr[c] \notin done[c]
  BY <1>1 DEF ExactlyOnce, H!ExactlyOnce, H!InHand, H!Worked
<1>3. IsFiniteSet(done[c])
  BY TasksFinite, FS_Subset DEF QuotaInv
<1> QED BY <1>1, <1>2, <1>3, FS_AddElement, FS_CardinalityType

LEMMA NextQuota ==
  ASSUME QuotaInv, ExactlyOnce, [Next]_vars
  PROVE  QuotaInv'
<1>1. PInv'
  BY NextSimulates DEF QuotaInv
<1> USE DEF Threads, queueVars, latches
<1>2. ASSUME NEW p \in Producers, ProducerStep(p) PROVE QuotaInv'
  <2>1. /\ done' = done /\ main' = main
        /\ \A t \in Threads \ {p} : pc'[t] = pc[t]
        /\ \A q \in Producers \ {p} : i'[q] = i[q]
        /\ pc'[p] = "exited" => i'[p] = TASK_COUNT
        /\ pc[p] = "exited" => pc'[p] = "exited"
        /\ endGate' = endGate
    BY <1>2 DEF ProducerStep, ProducerPassGate, ProducerPutLock, ProducerPutPush,
                ProducerPutNotify, ProducerExit, QuotaInv, PInv, PlacesOK, ProducersPut,
                Q!PutNotify
  <2>2. Busy' = Busy
    BY <2>1 DEF Busy
  <2> QED BY <1>1, <2>1, <2>2 DEF QuotaInv
<1>3. ASSUME NEW c \in Consumers, ConsumerStep(c) PROVE QuotaInv'
  <2>1. /\ i' = i /\ main' = main
        /\ \A t \in Threads \ {c} : pc'[t] = pc[t]
        /\ pc[c] # "exited"
    BY <1>3 DEF ConsumerStep, ConsumerPassGate, ConsumerPollLock, ConsumerPollWait,
                ConsumerPollPop, ConsumerWork, ConsumerCountDown, QuotaInv, PInv,
                PlacesOK, ConsumersPoll, Q!PollLock, Q!PollWait, Q!PollPop
  <2>4. endGate' = Cardinality(Busy')
    <3>1. IsFiniteSet(Busy)
      BY FS_Subset DEF Busy
    <3>2. CASE ConsumerCountDown(c)
      <4>1. c \in Busy /\ Busy' = Busy \ {c} /\ endGate' = endGate - 1
        BY <2>1, <3>2 DEF ConsumerCountDown, Busy, QuotaInv, PInv, PlacesOK
      <4> QED BY <3>1, <4>1, FS_RemoveElement DEF QuotaInv
    <3>3. CASE ~ConsumerCountDown(c)
      <4>1. endGate' = endGate /\ pc'[c] # "exited"
        BY <1>3, <3>3 DEF ConsumerStep, ConsumerPassGate, ConsumerPollLock,
             ConsumerPollWait, ConsumerPollPop, ConsumerWork, QuotaInv, PInv, PlacesOK,
             ConsumersPoll, Q!PollLock, Q!PollWait, Q!PollPop
      <4>2. Busy' = Busy
        BY <2>1, <4>1 DEF Busy
      <4> QED BY <4>1, <4>2 DEF QuotaInv
    <3> QED BY <3>2, <3>3
  <2>2. CASE ConsumerWork(c)
    <3>1. /\ pc[c] = "work"
          /\ done' = [done EXCEPT ![c] = done[c] \cup {taskPtr[c]}]
          /\ pc' = [pc EXCEPT ![c] = IF Cardinality(done'[c]) >= TASK_COUNT
                                     THEN "count_down" ELSE "loop"]
      BY <2>2 DEF ConsumerWork
    <3>2. /\ taskPtr[c] \in Tasks
          /\ Cardinality(done[c]) \in Nat /\ Cardinality(done[c]) < TASK_COUNT
          /\ Cardinality(done[c] \cup {taskPtr[c]}) = Cardinality(done[c]) + 1
      BY <3>1, WorkCounts DEF QuotaInv
    <3>3. done' \in [Consumers -> SUBSET Tasks] /\ done'[c] = done[c] \cup {taskPtr[c]}
      BY <3>1, <3>2 DEF QuotaInv
    <3>4. IF pc'[c] \in {"count_down", "exited"}
          THEN Cardinality(done'[c]) = TASK_COUNT
          ELSE Cardinality(done'[c]) < TASK_COUNT
      BY <3>1, <3>2, <3>3 DEF QuotaInv, PInv, PlacesOK
    <3>5. \A d \in Consumers \ {c} : done'[d] = done[d] /\ pc'[d] = pc[d]
      BY <2>1, <3>1 DEF QuotaInv
    <3> QED BY <1>1, <2>1, <2>4, <3>1, <3>3, <3>4, <3>5 DEF QuotaInv
  <2>3. CASE ~ConsumerWork(c)
    <3>1. /\ done' = done
          /\ pc'[c] \in {"count_down", "exited"} <=> pc[c] \in {"count_down", "exited"}
      BY <1>3, <2>3 DEF ConsumerStep, ConsumerPassGate, ConsumerPollLock,
                ConsumerPollWait, ConsumerPollPop, ConsumerCountDown, QuotaInv, PInv,
                PlacesOK, ConsumersPoll, Q!PollPop
    <3> QED BY <1>1, <2>1, <2>4, <3>1 DEF QuotaInv
  <2> QED BY <2>2, <2>3
<1>4. CASE MainStep \/ Spurious \/ UNCHANGED vars
  <2>1. /\ UNCHANGED <<pc, i, done, endGate>>
        /\ main' # main => /\ main' = "joinConsumers" => \A p \in Producers : pc[p] = "exited"
                           /\ main' = "returned" => main = "joinConsumers"
                           /\ main' = "returned" => \A c \in Consumers : pc[c] = "exited"
    BY <1>4 DEF MainStep, OpenProducerGate, OpenConsumerGate, PassEndGate,
                JoinProducers, JoinConsumers, Spurious, vars
  <2>2. Busy' = Busy
    BY <2>1 DEF Busy
  <2> QED BY <1>1, <2>1, <2>2 DEF QuotaInv
<1> QED BY <1>2, <1>3, <1>4 DEF Next, Returned

(* A consumer has taken what it has worked on and what it is working on, no two
   have taken the same, and none more than its quota. *)
LEMMA TakenIsShared ==
  ASSUME QuotaInv, ExactlyOnce
  PROVE  /\ \A c \in Consumers : /\ Taken(c) \in SUBSET Tasks
                                /\ Cardinality(Taken(c)) \in 0 .. TASK_COUNT
         /\ \A c, d \in Consumers : c # d => Taken(c) \cap Taken(d) = {}
<1>1. ASSUME NEW c \in Consumers
      PROVE  Taken(c) \in SUBSET Tasks /\ Cardinality(Taken(c)) \in 0 .. TASK_COUNT
  <2>1. done[c] \in SUBSET Tasks /\ IsFiniteSet(done[c]) /\ Cardinality(done[c]) \in Nat
    BY TasksFinite, FS_Subset, FS_CardinalityType DEF QuotaInv
  <2>2. CASE pc[c] = "work"
    <3>1. Taken(c) = done[c] \cup {taskPtr[c]}
      BY <2>2 DEF Taken, QuotaInv, PInv, ConsumersPoll
    <3> QED BY <2>1, <2>2, <3>1, WorkCounts DEF QuotaInv
  <2>3. CASE pc[c] # "work"
    <3>1. Taken(c) = done[c]
      BY <2>3 DEF Taken, QuotaInv, PInv, ConsumersPoll
    <3> QED BY <2>1, <3>1 DEF QuotaInv
  <2> QED BY <2>2, <2>3
<1>2. ASSUME NEW c \in Consumers, NEW d \in Consumers, c # d,
             NEW t, t \in Taken(c), t \in Taken(d)
      PROVE  FALSE
  <2>1. done[c] \cap done[d] = {} /\ (taskPtr[c] = taskPtr[d] => taskPtr[c] = NoTask)
    BY <1>2 DEF ExactlyOnce, H!ExactlyOnce
  <2>2. \A e, g \in Consumers : taskPtr[e] # NoTask => taskPtr[e] \notin done[g]
    BY DEF ExactlyOnce, H!ExactlyOnce, H!InHand, H!Worked
  <2> QED BY <1>2, <2>1, <2>2 DEF Taken
<1> QED BY <1>1, <1>2

(* The numbers of a quota that are not used up, counted down from its end *)
LEMMA DemandMet == QuotaInv /\ ExactlyOnce => DemandMatchesSupply
<1> SUFFICES ASSUME QuotaInv, ExactlyOnce PROVE DemandMatchesSupply
  OBVIOUS
<1> DEFINE n == TASK_COUNT
           f == [c \in Consumers |-> Taken(c)]
           used == Numbers(Consumers, n, f)
           all == Consumers \X (1 .. n)
           U == UNION {Taken(c) : c \in Consumers}
<1>1. \A c \in Consumers : f[c] = Taken(c) /\ Cardinality(f[c]) \in 0 .. n
  BY TakenIsShared
<1>2. Cardinality(U) = Cardinality(used)
  <2>1. f \in [Consumers -> SUBSET Tasks]
    BY TakenIsShared
  <2>2. \A c, d \in Consumers : c # d => f[c] \cap f[d] = {}
    BY TakenIsShared
  <2>3. \A c \in Consumers : Cardinality(f[c]) <= n
    BY <1>1
  <2>4. U = UNION {f[c] : c \in Consumers}
    BY <1>1
  <2>5. n \in Nat /\ IsFiniteSet(Consumers) /\ IsFiniteSet(Tasks)
    BY TasksFinite
  <2> HIDE DEF f, U, n
  <2> QED BY <2>1, <2>2, <2>3, <2>4, <2>5, DisjointSets
<1>3. /\ IsFiniteSet(Tasks \ U)
      /\ Cardinality(Tasks \ U) = Cardinality(Consumers) * n - Cardinality(U)
  <2>1. U \in SUBSET Tasks /\ Tasks \cap U = U
    BY TakenIsShared
  <2> QED BY <2>1, TasksFinite, FS_Difference
<1>4. IsFiniteSet(all) /\ Cardinality(all) = Cardinality(Consumers) * n
  <2> DEFINE N == 1 .. n
  <2>1. IsFiniteSet(N) /\ Cardinality(N) = n
    BY FS_Interval
  <2> HIDE DEF N
  <2>2. IsFiniteSet(Consumers \X N) /\ Cardinality(Consumers \X N) = Cardinality(Consumers) * n
    BY <2>1, FS_Product
  <2> QED BY <2>2 DEF N
<1>5. IsFiniteSet(all \ used) /\ Cardinality(all \ used) = Cardinality(all) - Cardinality(used)
  <2>1. all \cap used = used
    BY DEF Numbers
  <2>2. IsFiniteSet(all)
    BY <1>4
  <2> HIDE DEF all, used
  <2>3. /\ IsFiniteSet(all \ used)
        /\ Cardinality(all \ used) = Cardinality(all) - Cardinality(all \cap used)
    BY <2>2, FS_Difference
  <2>4. Cardinality(all \cap used) = Cardinality(used)
    BY <2>1, Zenon
  <2> QED BY <2>3, <2>4
<1>6. Cardinality(Demand) = Cardinality(all \ used)
  <2> DEFINE h == [d \in all \ used |-> <<d[1], n + 1 - d[2]>>]
  <2>1. ASSUME NEW d \in all \ used PROVE h[d] \in Demand
    <3>1. /\ d[1] \in Consumers /\ d[2] \in 1 .. n
          /\ ~(d[2] <= Cardinality(Taken(d[1]))) /\ Cardinality(Taken(d[1])) \in 0 .. n
      BY <1>1 DEF Numbers
    <3>2. n + 1 - d[2] \in 1 .. n /\ n + 1 - d[2] <= StillWanted(d[1])
      BY <3>1 DEF StillWanted
    <3> QED BY <3>1, <3>2 DEF Demand
  <2>2. ASSUME NEW d \in all \ used, NEW e \in all \ used, h[d] = h[e] PROVE d = e
    <3>1. /\ d = <<d[1], d[2]>> /\ e = <<e[1], e[2]>> /\ d[2] \in 1 .. n /\ e[2] \in 1 .. n
          /\ d[1] = e[1] /\ n + 1 - d[2] = n + 1 - e[2]
      BY <2>2
    <3>2. d[2] = e[2]
      BY <3>1
    <3> QED BY <3>1, <3>2
  <2>3. ASSUME NEW d \in Demand PROVE \E e \in all \ used : h[e] = d
    <3>1. /\ d[1] \in Consumers /\ d[2] \in 1 .. n /\ d = <<d[1], d[2]>>
          /\ d[2] <= n - Cardinality(Taken(d[1]))
          /\ Cardinality(Taken(d[1])) \in 0 .. n
      BY <1>1 DEF Demand, StillWanted
    <3>2. n + 1 - d[2] \in 1 .. n /\ ~(n + 1 - d[2] <= Cardinality(Taken(d[1])))
      BY <3>1
    <3>3. <<d[1], n + 1 - d[2]>> \in all \ used
      BY <1>1, <3>1, <3>2 DEF Numbers
    <3>4. n + 1 - (n + 1 - d[2]) = d[2]
      BY <3>1
    <3> QED BY <3>1, <3>3, <3>4
  <2>4. h \in [all \ used -> Demand]
    BY <2>1
  <2> HIDE DEF h, all, used
  <2>5. h \in Bijection(all \ used, Demand)
    BY <2>2, <2>3, <2>4 DEF Bijection, Injection, Surjection, IsInjective
  <2> QED BY <1>5, <2>5, FS_Bijection DEF ExistsBijection
<1>7. \A c \in Consumers : StillWanted(c) \in Nat
  BY <1>1 DEF StillWanted
<1> QED BY <1>2, <1>3, <1>4, <1>5, <1>6, <1>7 DEF DemandMatchesSupply

(* When every consumer has its quota, every task has been worked on. *)
LEMMA AllIsDone ==
  ASSUME QuotaInv, ExactlyOnce, \A c \in Consumers : pc[c] = "exited"
  PROVE  UNION {done[c] : c \in Consumers} = Tasks
<1> DEFINE U == UNION {done[c] : c \in Consumers}
<1>1. \A c \in Consumers : Cardinality(done[c]) = TASK_COUNT
  BY DEF QuotaInv
<1>2. \A c, d \in Consumers : c # d => done[c] \cap done[d] = {}
  BY DEF ExactlyOnce, H!ExactlyOnce
<1>3. done \in [Consumers -> SUBSET Tasks]
  BY DEF QuotaInv
<1>4. Cardinality(U) = Cardinality(Numbers(Consumers, TASK_COUNT, done))
  BY <1>1, <1>2, <1>3, TasksFinite, DisjointSets
<1>5. Numbers(Consumers, TASK_COUNT, done) = Consumers \X (1 .. TASK_COUNT)
  BY <1>1 DEF Numbers
<1>6. Cardinality(Consumers \X (1 .. TASK_COUNT)) = Cardinality(Tasks)
  <2> DEFINE N == 1 .. TASK_COUNT
  <2>1. IsFiniteSet(N) /\ Cardinality(N) = TASK_COUNT
    BY FS_Interval
  <2> HIDE DEF N
  <2>2. Cardinality(Consumers \X N) = Cardinality(Consumers) * TASK_COUNT
    BY <2>1, FS_Product
  <2> QED BY <2>2, TasksFinite DEF N
<1>7. U \in SUBSET Tasks
  BY <1>3
<1> QED BY <1>4, <1>5, <1>6, <1>7, TasksFinite, FS_Subset

LEMMA NothingLeft == QuotaInv /\ ExactlyOnce => NothingLeftAtReturn
<1> SUFFICES ASSUME QuotaInv, ExactlyOnce, main = "returned"
             PROVE  /\ \A t \in Threads : at[t] = "out" /\ pc[t] = "exited"
                    /\ UNION {done[c] : c \in Consumers} = Tasks
  BY DEF NothingLeftAtReturn
<1>1. \A t \in Threads : pc[t] = "exited"
  BY DEF QuotaInv, Threads
<1>2. \A t \in Threads : at[t] = "out"
  BY <1>1 DEF QuotaInv, PInv, ProducersPut, ConsumersPoll, Threads
<1> QED BY <1>1, <1>2, AllIsDone DEF Threads

LEMMA EndGateIsLast == QuotaInv /\ ExactlyOnce => EndGateMeansDone
<1> SUFFICES ASSUME QuotaInv, ExactlyOnce, endGate = 0
             PROVE  data = <<>> /\ UNION {done[c] : c \in Consumers} = Tasks
  BY DEF EndGateMeansDone
<1>1. Busy = {}
  <2>1. IsFiniteSet(Busy) /\ Cardinality(Busy) = 0
    BY FS_Subset DEF Busy, QuotaInv
  <2> QED BY <2>1, FS_EmptySet
<1>2. UNION {done[c] : c \in Consumers} = Tasks
  BY <1>1, AllIsDone DEF Busy
<1>3. H!Queued = {}
  BY <1>2 DEF ExactlyOnce, H!ExactlyOnce, H!Worked, H!Made, H!Tasks, Tasks
<1>4. data = <<>>
  <2>1. data \in Seq(Tasks)
    BY DEF QuotaInv, PInv, PlacesOK
  <2>2. ASSUME data # <<>> PROVE FALSE
    <3>1. 1 \in DOMAIN data
      BY <2>1, <2>2
    <3>2. data[1] \in H!Queued
      BY <3>1 DEF H!Queued
    <3> QED BY <1>3, <3>2
  <2> QED BY <2>2
<1> QED BY <1>2, <1>4

(* Each consumer's share of the work is its quota, and endGate counts the
   threads that have not come to it. *)
THEOREM QuotasAreKept == Spec => []QuotaInv
<1>1. QuotaInv /\ ExactlyOnce /\ [Next]_vars => QuotaInv'
  BY NextQuota
<1> QED BY <1>1, InitQuota, TasksExactlyOnce, PTL DEF Spec

(* While the threads run, the consumers want exactly as many tasks as are
   queued or still to be made, so that no poll() waits for a task that nobody
   will put. *)
THEOREM SupplyMeetsDemand == Spec => []DemandMatchesSupply
BY QuotasAreKept, TasksExactlyOnce, DemandMet, PTL

(* main() returns only when every thread has returned and every task has been
   worked on. *)
THEOREM NobodyIsLeftBehind == Spec => []NothingLeftAtReturn
BY QuotasAreKept, TasksExactlyOnce, NothingLeft, PTL

(* When endGate has counted down to zero, the deque is empty and every task
   has been worked on. *)
THEOREM EndGateIsTheEnd == Spec => []EndGateMeansDone
BY QuotasAreKept, TasksExactlyOnce, EndGateIsLast, PTL
=============================================================================
