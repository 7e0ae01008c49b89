---------------------------- MODULE BlockingQueue ----------------------------
(***************************************************************************)
(* class BlockingQueue of 03-concurrency/07_blocking_queue_mutex_cv.cpp:   *)
(* a std::deque guarded by a std::mutex, with a std::condition_variable    *)
(* for the consumers.  The module is the class under its most general      *)
(* client: any thread may call put or poll at any time, with any task.     *)
(*                                                                         *)
(* What a thread does between two acquisitions of the mutex is one action; *)
(* waiting for the mutex is the guard m = NoThread.  cv.wait releases the  *)
(* mutex and blocks in one step, and a woken thread must take the mutex    *)
(* again before it looks at the predicate: both are what the library       *)
(* promises.  put() notifies after its lock_guard has been destroyed, so   *)
(* other threads run between its push and its notify.                      *)
(***************************************************************************)
EXTENDS Naturals, Sequences, FiniteSets

CONSTANTS
  Threads,   \* the threads that share the queue
  Tasks,     \* the tasks that may be put
  NoThread   \* the owner of a mutex nobody holds

ASSUME ThreadsFinite == IsFiniteSet(Threads)
ASSUME NoThreadIsNoThread == NoThread \notin Threads

VARIABLES
  m,         \* the mutex: its owner, or NoThread
  data,      \* the deque
  at         \* where each thread is inside the methods of the queue

qvars == <<m, data, at>>

(***************************************************************************)
(* "out": in no method, or at the lock that begins one; "push": put() with *)
(* the mutex held; "notify": put() after the lock_guard's scope; "pred":   *)
(* poll() with the mutex held, at the predicate of cv.wait; "wait": blocked*)
(* in cv.wait; "woken": notified, and not yet back in possession of m.     *)
(***************************************************************************)
Positions == {"out", "push", "notify", "pred", "wait", "woken"}

QTypeOK ==
  /\ m \in Threads \cup {NoThread}
  /\ data \in Seq(Tasks)
  /\ at \in [Threads -> Positions]

QInit ==
  /\ m = NoThread
  /\ data = <<>>
  /\ at = [t \in Threads |-> "out"]

AtPosition(S) == {t \in Threads : at[t] \in S}
Waiting == AtPosition({"wait"})
Awake == AtPosition({"notify", "woken", "pred"})

-----------------------------------------------------------------------------
(* put().  The operators named Bug_... are mistakes put() or poll() could
   plausibly contain; no specification uses them.  They show that a property
   can fail. *)

Bug_PutLock(t) ==   \* the lock_guard is missing
  /\ at[t] = "out"
  /\ m' = t
  /\ at' = [at EXCEPT ![t] = "push"]
  /\ UNCHANGED data

PutLock(t) ==
  /\ at[t] = "out"
  /\ m = NoThread
  /\ m' = t
  /\ at' = [at EXCEPT ![t] = "push"]
  /\ UNCHANGED data

Bug_PutPush(t, task) ==   \* push_front
  /\ at[t] = "push"
  /\ data' = <<task>> \o data
  /\ m' = NoThread
  /\ at' = [at EXCEPT ![t] = "notify"]

PutPush(t, task) ==
  /\ at[t] = "push"
  /\ data' = Append(data, task)
  /\ m' = NoThread
  /\ at' = [at EXCEPT ![t] = "notify"]

Bug_PutNotify(t) ==   \* notify only a queue that was empty
  /\ at[t] = "notify"
  /\ \/ \E w \in Waiting : /\ Len(data) <= 1
                            /\ at' = [at EXCEPT ![t] = "out", ![w] = "woken"]
     \/ (Waiting = {} \/ Len(data) > 1) /\ at' = [at EXCEPT ![t] = "out"]
  /\ UNCHANGED <<m, data>>

PutNotify(t) ==
  /\ at[t] = "notify"
  /\ \/ \E w \in Waiting : at' = [at EXCEPT ![t] = "out", ![w] = "woken"]
     \/ Waiting = {} /\ at' = [at EXCEPT ![t] = "out"]
  /\ UNCHANGED <<m, data>>

-----------------------------------------------------------------------------
(* poll() *)

PollLock(t) ==
  /\ at[t] \in {"out", "woken"}
  /\ m = NoThread
  /\ m' = t
  /\ at' = [at EXCEPT ![t] = "pred"]
  /\ UNCHANGED data

PollWait(t) ==
  /\ at[t] = "pred"
  /\ data = <<>>
  /\ m' = NoThread
  /\ at' = [at EXCEPT ![t] = "wait"]
  /\ UNCHANGED data

Bug_PollPop(t) ==   \* the pop_front() is missing
  /\ at[t] = "pred"
  /\ data # <<>>
  /\ m' = NoThread
  /\ at' = [at EXCEPT ![t] = "out"]
  /\ UNCHANGED data

(* The second data.empty() test of poll(), after cv.wait, is part of this  *)
(* action: the predicate has just been true under the same lock, so poll() *)
(* never returns nullptr here.                                             *)
PollPop(t) ==
  /\ at[t] = "pred"
  /\ data # <<>>
  /\ data' = Tail(data)
  /\ m' = NoThread
  /\ at' = [at EXCEPT ![t] = "out"]

(* A condition variable may wake a waiter that nobody notified. *)
SpuriousWakeup(t) ==
  /\ at[t] = "wait"
  /\ at' = [at EXCEPT ![t] = "woken"]
  /\ UNCHANGED <<m, data>>

-----------------------------------------------------------------------------

QNext ==
  \E t \in Threads :
    \/ PutLock(t)
    \/ \E task \in Tasks : PutPush(t, task)
    \/ PutNotify(t)
    \/ PollLock(t)
    \/ PollWait(t)
    \/ PollPop(t)
    \/ SpuriousWakeup(t)

QSpec == QInit /\ [][QNext]_qvars

-----------------------------------------------------------------------------
(* Whoever is inside a critical section owns the mutex, and a mutex that is
   owned is owned by a thread inside one: put and poll exclude each other
   from the deque. *)
LockDiscipline ==
  \A t \in Threads : at[t] \in {"push", "pred"} <=> m = t

(* No lost wakeup.  While a consumer sleeps in cv.wait, every task in the
   deque is accounted for by a put that has still to notify or by a consumer
   that is awake inside poll: the notify_one that put() calls after it has
   released the mutex is enough, whatever happens in between. *)
WakeupsCoverTasks ==
  Waiting # {} =>
    Len(data) <= Cardinality(Awake)

(* What WakeupsCoverTasks is for: a deque that holds a task is never left to
   sleeping consumers alone. *)
NoSleepOverWork ==
  (data # <<>> /\ Waiting # {}) => Awake # {}

(* A step changes the deque by one push at the back or one pop at the front,
   and only a step of the mutex's owner changes it. *)
OwnerChangesData ==
  [][data' # data =>
       /\ m # NoThread /\ m' = NoThread
       /\ \/ \E task \in Tasks : data' = Append(data, task)
          \/ data # <<>> /\ data' = Tail(data)]_qvars
=============================================================================
