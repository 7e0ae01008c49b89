------------------------- MODULE TaskHandoffProofs -------------------------
(***************************************************************************)
(* What follows from the promise of TaskHandoff alone, for every number of *)
(* producers, consumers and tasks.  A program that implements the promise  *)
(* inherits it.                                                            *)
(***************************************************************************)
EXTENDS TaskHandoff, TLAPS

HType ==
  /\ made \in [Producers -> 0 .. TASK_COUNT]
  /\ queue \in Seq(Tasks)
  /\ hand \in [Consumers -> Tasks \cup {NoTask}]
  /\ worked \in [Consumers -> SUBSET Tasks]

HInv == HType /\ ExactlyOnce /\ InOrder

-----------------------------------------------------------------------------
(* What a task is. *)
LEMMA TaskIsPair ==
  ASSUME NEW t \in Tasks
  PROVE  t[1] \in Producers /\ t[2] \in 1 .. TASK_COUNT /\ t = <<t[1], t[2]>>
  BY DEF Tasks

(* How the queue's elements change when one is added at the end, and when the
   first is taken. *)
LEMMA QueuedAppend ==
  ASSUME NEW s \in Seq(Tasks), NEW x \in Tasks
  PROVE  /\ Append(s, x) \in Seq(Tasks)
         /\ Len(Append(s, x)) = Len(s) + 1
         /\ \A k \in 1 .. Len(s) : Append(s, x)[k] = s[k]
         /\ Append(s, x)[Len(s) + 1] = x
         /\ DOMAIN Append(s, x) = 1 .. Len(s) + 1
         /\ DOMAIN s = 1 .. Len(s)
  OBVIOUS

LEMMA QueuedTail ==
  ASSUME NEW s \in Seq(Tasks), s # <<>>
  PROVE  /\ Tail(s) \in Seq(Tasks)
         /\ DOMAIN s = 1 .. Len(s) /\ DOMAIN Tail(s) = 1 .. Len(s) - 1
         /\ Len(s) \in Nat \ {0}
         /\ \A k \in 1 .. Len(s) - 1 : Tail(s)[k] = s[k + 1]
         /\ Head(s) = s[1] /\ s[1] \in Tasks
  OBVIOUS

-----------------------------------------------------------------------------
LEMMA InitH ==
  ASSUME TASK_COUNT \in Nat, NoTask \notin Tasks, HInit
  PROVE  HInv
<1>1. HType
  BY DEF HType, HInit
<1>2. Made = {} /\ Queued = {} /\ InHand = {} /\ Worked = {}
  <2>1. Made = {}
    BY TaskIsPair DEF Made, HInit
  <2>2. QED
    BY <2>1 DEF Queued, InHand, Worked, HInit
<1>3. ExactlyOnce /\ InOrder
  BY <1>2 DEF ExactlyOnce, InOrder, HInit
<1>4. QED
  BY <1>1, <1>3 DEF HInv

(* A new task was never made before. *)
LEMMA PutKeeps ==
  ASSUME TASK_COUNT \in Nat, NoTask \notin Tasks, HInv, NEW p \in Producers, Put(p)
  PROVE  HInv'
<1> DEFINE x == <<p, made[p] + 1>>
<1>1. made[p] \in Nat /\ x \in Tasks /\ x \notin Made
  BY DEF HInv, HType, Put, Tasks, Made
<1>2. HType'
  BY <1>1, QueuedAppend DEF HInv, HType, Put
<1>3. Made' = Made \cup {x}
  <2>1. ASSUME NEW t \in Tasks PROVE t \in Made' <=> t \in Made \cup {x}
    <3>1. t[1] \in Producers /\ t[2] \in 1 .. TASK_COUNT /\ t = <<t[1], t[2]>>
      BY TaskIsPair
    <3>2. CASE t[1] = p
      BY <3>1, <3>2, <1>1 DEF Made, Put, HInv, HType
    <3>3. CASE t[1] # p
      BY <3>1, <3>3, <1>1 DEF Made, Put, HInv, HType
    <3>4. QED
      BY <3>2, <3>3
  <2>2. QED
    BY <2>1, <1>1 DEF Made
<1>4. /\ Len(queue) \in Nat /\ DOMAIN queue = 1 .. Len(queue)
      /\ DOMAIN queue' = 1 .. Len(queue) + 1
      /\ \A k \in 1 .. Len(queue) : queue'[k] = queue[k]
      /\ queue'[Len(queue) + 1] = x
  BY <1>1, QueuedAppend DEF HInv, HType, Put
<1>5. Queued' = Queued \cup {x}
  <2>1. Queued' \subseteq Queued \cup {x}
    <3>1. ASSUME NEW k \in DOMAIN queue' PROVE queue'[k] \in Queued \cup {x}
      <4>1. k \in 1 .. Len(queue) \/ k = Len(queue) + 1
        BY <1>4
      <4>2. QED
        BY <4>1, <1>4 DEF Queued
    <3>2. QED
      BY <3>1 DEF Queued
  <2>2. Queued \subseteq Queued'
    BY <1>4 DEF Queued
  <2>3. x \in Queued'
    BY <1>4 DEF Queued
  <2>4. QED
    BY <2>1, <2>2, <2>3
<1>6. InHand' = InHand /\ Worked' = Worked
  BY DEF InHand, Worked, Put
<1>7. ASSUME NEW t \in Made, t[1] = p PROVE t[2] < made[p] + 1 /\ t[2] \in Nat
  BY <1>1, <1>7, TaskIsPair DEF Made
<1>8. ExactlyOnce'
  <2>1. \A k, l \in DOMAIN queue' : queue'[k] = queue'[l] => k = l
    <3>1. \A k \in DOMAIN queue : queue[k] # x
      BY <1>1 DEF HInv, ExactlyOnce, Queued
    <3>2. QED
      BY <3>1, <1>4 DEF HInv, ExactlyOnce
  <2>2. QED
    BY <2>1, <1>1, <1>3, <1>5, <1>6 DEF HInv, ExactlyOnce, Put
<1>9. InOrder'
  <2>1. ASSUME NEW k \in DOMAIN queue', NEW l \in DOMAIN queue', k < l,
               queue'[k][1] = queue'[l][1]
        PROVE  queue'[k][2] < queue'[l][2]
    <3>1. CASE l \in DOMAIN queue
      BY <2>1, <3>1, <1>4 DEF HInv, InOrder
    <3>2. CASE l \notin DOMAIN queue
      <4>1. k \in DOMAIN queue /\ queue'[k] = queue[k] /\ queue'[l] = x
        BY <2>1, <3>2, <1>4
      <4>2. queue[k] \in Made
        BY <4>1 DEF HInv, ExactlyOnce, Queued
      <4>3. QED
        BY <2>1, <4>1, <4>2, <1>7
    <3>3. QED
      BY <3>1, <3>2
  <2>2. ASSUME NEW k \in DOMAIN queue', NEW t \in InHand' \cup Worked',
               t[1] = queue'[k][1]
        PROVE  t[2] < queue'[k][2]
    <3>1. t \in InHand \cup Worked /\ t \in Made
      BY <1>6 DEF HInv, ExactlyOnce
    <3>2. CASE k \in DOMAIN queue
      BY <2>2, <3>1, <3>2, <1>4 DEF HInv, InOrder
    <3>3. CASE k \notin DOMAIN queue
      <4>1. queue'[k] = x
        BY <3>3, <1>4
      <4>2. QED
        BY <2>2, <4>1, <3>1, <1>7
    <3>4. QED
      BY <3>2, <3>3
  <2>3. QED
    BY <2>1, <2>2 DEF InOrder
<1>10. QED
  BY <1>2, <1>8, <1>9 DEF HInv

(* The oldest task moves from the queue into a hand. *)
LEMMA TakeKeeps ==
  ASSUME TASK_COUNT \in Nat, NoTask \notin Tasks, HInv, NEW c \in Consumers, Take(c)
  PROVE  HInv'
<1> DEFINE x == queue[1]
<1>1. /\ queue \in Seq(Tasks) /\ queue # <<>> /\ queue' = Tail(queue)
      /\ x \in Tasks /\ x # NoTask
      /\ hand' = [hand EXCEPT ![c] = x] /\ hand[c] = NoTask
      /\ hand \in [Consumers -> Tasks \cup {NoTask}]
  BY QueuedTail DEF HInv, HType, Take
<1>2. HType'
  BY <1>1, QueuedTail DEF HInv, HType, Take
<1>3. Made' = Made /\ Worked' = Worked
  BY DEF Made, Worked, Take
<1>4. /\ Queued = Queued' \cup {x} /\ x \notin Queued'
      /\ \A k \in DOMAIN queue' : k + 1 \in DOMAIN queue /\ queue'[k] = queue[k + 1] /\ k \in 1 .. Len(queue)
      /\ 1 \in DOMAIN queue
  <2>1. /\ \A k \in DOMAIN queue' : k + 1 \in DOMAIN queue /\ queue'[k] = queue[k + 1] /\ k \in 1 .. Len(queue)
        /\ \A k \in DOMAIN queue \ {1} : k - 1 \in DOMAIN queue' /\ queue[k] = queue'[k - 1]
        /\ 1 \in DOMAIN queue /\ DOMAIN queue = 1 .. Len(queue)
    BY <1>1, QueuedTail
  <2>2. Queued = Queued' \cup {x}
    BY <2>1 DEF Queued
  <2>3. x \notin Queued'
    BY <2>1 DEF Queued, HInv, ExactlyOnce
  <2>4. QED
    BY <2>1, <2>2, <2>3
<1>5. InHand' = InHand \cup {x}
  BY <1>1 DEF InHand
<1>6. x \notin InHand /\ x \notin Worked
  BY <1>4 DEF HInv, ExactlyOnce
<1>7. ExactlyOnce'
  <2>1. Made' = Queued' \cup InHand' \cup Worked'
    BY <1>3, <1>4, <1>5 DEF HInv, ExactlyOnce
  <2>2. /\ Queued' \cap (InHand' \cup Worked') = {}
        /\ InHand' \cap Worked' = {}
    BY <1>3, <1>4, <1>5, <1>6 DEF HInv, ExactlyOnce
  <2>3. \A k, l \in DOMAIN queue' : queue'[k] = queue'[l] => k = l
    BY <1>4 DEF HInv, ExactlyOnce
  <2>4. \A d \in Consumers \ {c} : hand[d] # x
    BY <1>1, <1>6 DEF InHand
  <2>5. \A d, e \in Consumers :
          d # e => /\ worked'[d] \cap worked'[e] = {}
                   /\ hand'[d] = hand'[e] => hand'[d] = NoTask
    BY <1>1, <2>4 DEF HInv, ExactlyOnce, Take
  <2>6. QED
    BY <2>1, <2>2, <2>3, <2>5 DEF ExactlyOnce
<1>8. InOrder'
  <2>1. ASSUME NEW k \in DOMAIN queue', NEW l \in DOMAIN queue', k < l,
               queue'[k][1] = queue'[l][1]
        PROVE  queue'[k][2] < queue'[l][2]
    BY <2>1, <1>4 DEF HInv, InOrder
  <2>2. ASSUME NEW k \in DOMAIN queue', NEW t \in InHand' \cup Worked',
               t[1] = queue'[k][1]
        PROVE  t[2] < queue'[k][2]
    <3>1. k + 1 \in DOMAIN queue /\ queue'[k] = queue[k + 1] /\ 1 < k + 1
      BY <1>4
    <3>2. CASE t = x
      BY <2>2, <3>1, <3>2, <1>4 DEF HInv, InOrder
    <3>3. CASE t # x
      BY <2>2, <3>1, <3>3, <1>3, <1>5 DEF HInv, InOrder
    <3>4. QED
      BY <3>2, <3>3
  <2>3. QED
    BY <2>1, <2>2 DEF InOrder
<1>9. QED
  BY <1>2, <1>7, <1>8 DEF HInv

(* The task in hand becomes one that was worked on. *)
LEMMA FinishKeeps ==
  ASSUME TASK_COUNT \in Nat, NoTask \notin Tasks, HInv, NEW c \in Consumers, Finish(c)
  PROVE  HInv'
<1> DEFINE x == hand[c]
<1>1. /\ x \in Tasks /\ x # NoTask
      /\ hand' = [hand EXCEPT ![c] = NoTask]
      /\ worked' = [worked EXCEPT ![c] = @ \cup {x}]
      /\ hand \in [Consumers -> Tasks \cup {NoTask}]
      /\ worked \in [Consumers -> SUBSET Tasks]
      /\ queue' = queue /\ made' = made
  BY DEF HInv, HType, Finish
<1>2. HType'
  BY <1>1 DEF HInv, HType
<1>3. Made' = Made /\ Queued' = Queued
  BY <1>1 DEF Made, Queued
<1>4. x \in InHand /\ x \notin Worked /\ x \notin Queued
  BY <1>1 DEF InHand, HInv, ExactlyOnce
<1>5. InHand' = InHand \ {x}
  BY <1>1 DEF InHand, HInv, ExactlyOnce
<1>6. Worked' = Worked \cup {x}
  BY <1>1 DEF Worked
<1>7. ExactlyOnce'
  <2>1. \A d \in Consumers : x \notin worked[d]
    BY <1>4 DEF Worked
  <2>2. \A d, e \in Consumers :
          d # e => /\ worked'[d] \cap worked'[e] = {}
                   /\ hand'[d] = hand'[e] => hand'[d] = NoTask
    BY <1>1, <2>1 DEF HInv, ExactlyOnce
  <2>3. QED
    BY <2>2, <1>1, <1>3, <1>4, <1>5, <1>6 DEF HInv, ExactlyOnce
<1>8. InOrder'
  BY <1>1, <1>4, <1>5, <1>6 DEF HInv, InOrder
<1>9. QED
  BY <1>2, <1>7, <1>8 DEF HInv

-----------------------------------------------------------------------------
(* The promise keeps HInv: no task is lost, doubled or given to two consumers,
   and each producer's tasks leave the queue in the order they were put. *)
THEOREM HandoffIsExactlyOnce ==
  ASSUME TASK_COUNT \in Nat, NoTask \notin Tasks
  PROVE  HSpec => [](ExactlyOnce /\ InOrder)
<1>1. HInit => HInv
  BY InitH
<1>2. HInv /\ [HNext]_hvars => HInv'
  <2> SUFFICES ASSUME HInv, [HNext]_hvars PROVE HInv'
    OBVIOUS
  <2>1. ASSUME NEW p \in Producers, Put(p) PROVE HInv'
    BY <2>1, PutKeeps
  <2>2. ASSUME NEW c \in Consumers, Take(c) PROVE HInv'
    BY <2>2, TakeKeeps
  <2>3. ASSUME NEW c \in Consumers, Finish(c) PROVE HInv'
    BY <2>3, FinishKeeps
  <2>4. CASE UNCHANGED hvars
    BY <2>4 DEF hvars, HInv, HType, ExactlyOnce, InOrder, Made, Queued, InHand, Worked
  <2>5. QED
    BY <2>1, <2>2, <2>3, <2>4 DEF HNext
<1>3. HInv => ExactlyOnce /\ InOrder
  BY DEF HInv
<1>4. QED
  BY <1>1, <1>2, <1>3, PTL DEF HSpec
=============================================================================
