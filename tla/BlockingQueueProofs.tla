------------------------- MODULE BlockingQueueProofs -------------------------
(***************************************************************************)
(* Theorems about the class BlockingQueue: for any number of threads, any  *)
(* tasks and a deque of any length, under any client.                      *)
(***************************************************************************)
EXTENDS BlockingQueue, FiniteSetTheorems, SequenceTheorems, TLAPS

(* What a front removal leaves is again a sequence of tasks, shorter by one:
   PollPop keeps the type of the deque. *)
LEMMA TailOfDeque ==
  ASSUME data \in Seq(Tasks), data # <<>>
  PROVE  /\ Tail(data) \in Seq(Tasks)
         /\ Len(data) \in Nat /\ Len(data) > 0
         /\ Len(Tail(data)) = Len(data) - 1
<1>1. Tail(data) \in Seq(Tasks) /\ Len(Tail(data)) = Len(data) - 1
  BY HeadTailProperties
<1>2. Len(data) \in Nat /\ Len(data) > 0
  BY EmptySeq, LenProperties
<1> QED BY <1>1, <1>2

(* The variables of the class keep their types in every execution. *)
THEOREM TypeCorrect == QSpec => []QTypeOK
<1>1. QInit => QTypeOK
  BY DEF QInit, QTypeOK, Positions
<1>2. QTypeOK /\ [QNext]_qvars => QTypeOK'
  <2> SUFFICES ASSUME QTypeOK, [QNext]_qvars PROVE QTypeOK'
    OBVIOUS
  <2>1. ASSUME NEW t \in Threads, PutLock(t) PROVE QTypeOK'
    BY <2>1 DEF QTypeOK, PutLock, Positions
  <2>2. ASSUME NEW t \in Threads, NEW task \in Tasks, PutPush(t, task)
        PROVE  QTypeOK'
    BY <2>2 DEF QTypeOK, PutPush, Positions
  <2>3. ASSUME NEW t \in Threads, PutNotify(t) PROVE QTypeOK'
    BY <2>3 DEF QTypeOK, PutNotify, Positions, Waiting, AtPosition
  <2>4. ASSUME NEW t \in Threads, PollLock(t) PROVE QTypeOK'
    BY <2>4 DEF QTypeOK, PollLock, Positions
  <2>5. ASSUME NEW t \in Threads, PollWait(t) PROVE QTypeOK'
    BY <2>5 DEF QTypeOK, PollWait, Positions
  <2>6. ASSUME NEW t \in Threads, PollPop(t) PROVE QTypeOK'
    BY <2>6, TailOfDeque DEF QTypeOK, PollPop, Positions
  <2>7. ASSUME NEW t \in Threads, SpuriousWakeup(t) PROVE QTypeOK'
    BY <2>7 DEF QTypeOK, SpuriousWakeup, Positions
  <2>8. CASE UNCHANGED qvars
    BY <2>8 DEF QTypeOK, qvars
  <2> QED
    BY <2>1, <2>2, <2>3, <2>4, <2>5, <2>6, <2>7, <2>8 DEF QNext
<1> QED BY <1>1, <1>2, PTL DEF QSpec

(* put() and poll() exclude each other from the deque: whoever is inside a
   critical section owns the mutex, and the other way round. *)
THEOREM MutualExclusion == QSpec => []LockDiscipline
<1>1. QInit => LockDiscipline
  BY NoThreadIsNoThread DEF QInit, LockDiscipline
<1>2. QTypeOK /\ LockDiscipline /\ [QNext]_qvars => LockDiscipline'
  <2> SUFFICES ASSUME QTypeOK, LockDiscipline, [QNext]_qvars
               PROVE  LockDiscipline'
    OBVIOUS
  <2> USE NoThreadIsNoThread DEF QTypeOK, LockDiscipline
  <2>1. ASSUME NEW t \in Threads, PutLock(t) PROVE LockDiscipline'
    BY <2>1 DEF PutLock
  <2>2. ASSUME NEW t \in Threads, NEW task \in Tasks, PutPush(t, task)
        PROVE  LockDiscipline'
    BY <2>2 DEF PutPush
  <2>3. ASSUME NEW t \in Threads, PutNotify(t) PROVE LockDiscipline'
    BY <2>3 DEF PutNotify, Waiting, AtPosition
  <2>4. ASSUME NEW t \in Threads, PollLock(t) PROVE LockDiscipline'
    BY <2>4 DEF PollLock
  <2>5. ASSUME NEW t \in Threads, PollWait(t) PROVE LockDiscipline'
    BY <2>5 DEF PollWait
  <2>6. ASSUME NEW t \in Threads, PollPop(t) PROVE LockDiscipline'
    BY <2>6 DEF PollPop
  <2>7. ASSUME NEW t \in Threads, SpuriousWakeup(t) PROVE LockDiscipline'
    BY <2>7 DEF SpuriousWakeup
  <2>8. CASE UNCHANGED qvars
    BY <2>8 DEF qvars
  <2> QED
    BY <2>1, <2>2, <2>3, <2>4, <2>5, <2>6, <2>7, <2>8 DEF QNext
<1> QED BY <1>1, <1>2, TypeCorrect, PTL DEF QSpec

-----------------------------------------------------------------------------

(* Awake is a finite set, so its cardinality is a number that goes up or down
   by one as a thread joins or leaves it. *)
LEMMA AwakeFinite == IsFiniteSet(Awake) /\ Cardinality(Awake) \in Nat
<1>1. Awake \in SUBSET Threads
  BY DEF Awake, AtPosition
<1> QED BY <1>1, ThreadsFinite, FS_Subset, FS_CardinalityType

(* A thread that becomes awake, all others staying what they were, raises the
   number of awake threads by one. *)
LEMMA OneMoreAwake ==
  ASSUME NEW t \in Threads, t \notin Awake, Awake' = Awake \cup {t}
  PROVE  Cardinality(Awake') = Cardinality(Awake) + 1
  BY AwakeFinite, FS_AddElement

(* A thread that stops being awake lowers it by one. *)
LEMMA OneLessAwake ==
  ASSUME NEW t \in Threads, t \in Awake, Awake' = Awake \ {t}
  PROVE  Cardinality(Awake') = Cardinality(Awake) - 1
  BY AwakeFinite, FS_RemoveElement

(* A notify hands the wakeup of the notifier over to the thread it wakes. *)
LEMMA AwakeHandedOver ==
  ASSUME NEW t \in Threads, t \in Awake,
         NEW w \in Threads, w \notin Awake,
         Awake' = (Awake \ {t}) \cup {w}
  PROVE  Cardinality(Awake') = Cardinality(Awake)
<1>1. /\ IsFiniteSet(Awake \ {t})
      /\ Cardinality(Awake \ {t}) = Cardinality(Awake) - 1
  BY AwakeFinite, FS_RemoveElement
<1>2. Cardinality((Awake \ {t}) \cup {w}) = Cardinality(Awake \ {t}) + 1
  BY <1>1, FS_AddElement
<1> QED BY <1>1, <1>2, AwakeFinite

(* No lost wakeup: put() may notify after it has released the mutex, whatever
   the other threads do in between. *)
THEOREM NoLostWakeup == QSpec => []WakeupsCoverTasks
<1>1. QInit => WakeupsCoverTasks
  BY DEF QInit, WakeupsCoverTasks, Waiting, AtPosition
<1>2. QTypeOK /\ WakeupsCoverTasks /\ [QNext]_qvars => WakeupsCoverTasks'
  <2> SUFFICES ASSUME QTypeOK, WakeupsCoverTasks, [QNext]_qvars, Waiting' # {}
               PROVE  Len(data') <= Cardinality(Awake')
    BY DEF WakeupsCoverTasks
  <2> USE DEF QTypeOK
  <2>0. /\ Len(data) \in Nat
        /\ Cardinality(Awake) \in Nat
        /\ Waiting # {} => Len(data) <= Cardinality(Awake)
    BY AwakeFinite, LenProperties DEF WakeupsCoverTasks
  <2>1. ASSUME NEW t \in Threads, PutLock(t)
        PROVE  Len(data') <= Cardinality(Awake')
    <3>1. Awake' = Awake /\ Waiting' = Waiting
      BY <2>1 DEF PutLock, Awake, Waiting, AtPosition
    <3> QED BY <2>0, <2>1, <3>1 DEF PutLock
  <2>2. ASSUME NEW t \in Threads, NEW task \in Tasks, PutPush(t, task)
        PROVE  Len(data') <= Cardinality(Awake')
    <3>1. Awake' = Awake \cup {t} /\ t \notin Awake /\ Waiting' = Waiting
      BY <2>2 DEF PutPush, Awake, Waiting, AtPosition
    <3>2. Len(data') = Len(data) + 1
      BY <2>2, AppendProperties DEF PutPush
    <3>3. Cardinality(Awake') = Cardinality(Awake) + 1
      BY <3>1, OneMoreAwake
    <3> QED BY <2>0, <3>1, <3>2, <3>3
  <2>3. ASSUME NEW t \in Threads, PutNotify(t)
        PROVE  Len(data') <= Cardinality(Awake')
    <3>1. PICK w \in Waiting : at' = [at EXCEPT ![t] = "out", ![w] = "woken"]
      <4>1. Waiting = {} /\ at' = [at EXCEPT ![t] = "out"] => Waiting' = {}
        BY <2>3 DEF PutNotify, Waiting, AtPosition
      <4> QED BY <2>3, <4>1 DEF PutNotify
    <3>2. w \in Threads /\ at[w] = "wait" /\ at[t] = "notify"
      BY <2>3, <3>1 DEF PutNotify, Waiting, AtPosition
    <3>3. Awake' = (Awake \ {t}) \cup {w} /\ t \in Awake /\ w \notin Awake
      BY <3>1, <3>2 DEF Awake, AtPosition
    <3>4. Cardinality(Awake') = Cardinality(Awake)
      BY <3>2, <3>3, AwakeHandedOver
    <3> QED BY <2>0, <2>3, <3>1, <3>4 DEF PutNotify
  <2>4. ASSUME NEW t \in Threads, PollLock(t)
        PROVE  Len(data') <= Cardinality(Awake')
    <3>1. Waiting' = Waiting /\ data' = data
      BY <2>4 DEF PollLock, Waiting, AtPosition
    <3>2. CASE at[t] = "woken"
      <4>1. Awake' = Awake
        BY <2>4, <3>2 DEF PollLock, Awake, AtPosition
      <4> QED BY <2>0, <3>1, <4>1
    <3>3. CASE at[t] = "out"
      <4>1. Awake' = Awake \cup {t} /\ t \notin Awake
        BY <2>4, <3>3 DEF PollLock, Awake, AtPosition
      <4>2. Cardinality(Awake') = Cardinality(Awake) + 1
        BY <4>1, OneMoreAwake
      <4> QED BY <2>0, <3>1, <4>2
    <3> QED BY <2>4, <3>2, <3>3 DEF PollLock
  <2>5. ASSUME NEW t \in Threads, PollWait(t)
        PROVE  Len(data') <= Cardinality(Awake')
    <3>1. Awake' = Awake \ {t} /\ t \in Awake
      BY <2>5 DEF PollWait, Awake, AtPosition
    <3>2. Len(data') = 0 /\ Cardinality(Awake) >= 1
      <4>1. Cardinality(Awake) # 0
        BY <3>1, AwakeFinite, FS_EmptySet
      <4> QED BY <2>5, <4>1, <2>0, EmptySeq DEF PollWait
    <3>3. Cardinality(Awake') = Cardinality(Awake) - 1
      BY <3>1, OneLessAwake
    <3> QED BY <2>0, <3>1, <3>2, <3>3
  <2>6. ASSUME NEW t \in Threads, PollPop(t)
        PROVE  Len(data') <= Cardinality(Awake')
    <3>1. Awake' = Awake \ {t} /\ t \in Awake /\ Waiting' = Waiting
      BY <2>6 DEF PollPop, Awake, Waiting, AtPosition
    <3>2. Len(data') = Len(data) - 1
      BY <2>6, TailOfDeque DEF PollPop
    <3>3. Cardinality(Awake') = Cardinality(Awake) - 1
      BY <3>1, OneLessAwake
    <3> QED BY <2>0, <3>1, <3>2, <3>3
  <2>7. ASSUME NEW t \in Threads, SpuriousWakeup(t)
        PROVE  Len(data') <= Cardinality(Awake')
    <3>1. Awake' = Awake \cup {t} /\ t \notin Awake /\ t \in Waiting
      BY <2>7 DEF SpuriousWakeup, Awake, Waiting, AtPosition
    <3>2. Cardinality(Awake') = Cardinality(Awake) + 1
      BY <3>1, OneMoreAwake
    <3> QED BY <2>0, <2>7, <3>1, <3>2 DEF SpuriousWakeup
  <2>8. CASE UNCHANGED qvars
    <3>1. Awake' = Awake /\ Waiting' = Waiting /\ data' = data
      BY <2>8 DEF qvars, Awake, Waiting, AtPosition
    <3> QED BY <2>0, <3>1
  <2> QED
    BY <2>1, <2>2, <2>3, <2>4, <2>5, <2>6, <2>7, <2>8 DEF QNext
<1> QED BY <1>1, <1>2, TypeCorrect, PTL DEF QSpec

(* The step of the argument a user of the class relies on: a task in the deque
   is never left to sleeping consumers alone. *)
THEOREM WorkIsNeverSleptOver == QSpec => []NoSleepOverWork
<1>1. QTypeOK /\ WakeupsCoverTasks => NoSleepOverWork
  <2> SUFFICES ASSUME QTypeOK, WakeupsCoverTasks, data # <<>>, Waiting # {}
               PROVE  Awake # {}
    BY DEF NoSleepOverWork
  <2>1. Len(data) \in Nat /\ Len(data) > 0
    BY TailOfDeque DEF QTypeOK
  <2>2. Cardinality(Awake) # 0
    BY <2>1, AwakeFinite DEF WakeupsCoverTasks
  <2> QED BY <2>2, FS_EmptySet
<1> QED BY <1>1, TypeCorrect, NoLostWakeup, PTL

(* Only the owner of the mutex changes the deque, by a push at the back or a
   pop at the front. *)
THEOREM DequeDiscipline == QSpec => OwnerChangesData
<1>1. QTypeOK /\ LockDiscipline /\ [QNext]_qvars
      => [data' # data =>
           /\ m # NoThread /\ m' = NoThread
           /\ \/ \E task \in Tasks : data' = Append(data, task)
              \/ data # <<>> /\ data' = Tail(data)]_qvars
  <2> SUFFICES ASSUME LockDiscipline, QNext, data' # data
               PROVE  /\ m # NoThread /\ m' = NoThread
                      /\ \/ \E task \in Tasks : data' = Append(data, task)
                         \/ data # <<>> /\ data' = Tail(data)
    BY DEF qvars
  <2>1. PICK t \in Threads : \/ \E task \in Tasks : PutPush(t, task)
                            \/ PollPop(t)
    BY DEF QNext, PutLock, PutNotify, PollLock, PollWait, SpuriousWakeup
  <2>2. CASE PollPop(t)
    BY <2>2, NoThreadIsNoThread DEF PollPop, LockDiscipline
  <2>3. CASE \E task \in Tasks : PutPush(t, task)
    BY <2>3, NoThreadIsNoThread DEF PutPush, LockDiscipline
  <2> QED BY <2>1, <2>2, <2>3
<1> QED BY <1>1, TypeCorrect, MutualExclusion, PTL DEF QSpec, OwnerChangesData
=============================================================================
