----------------------------- MODULE FutureCache -----------------------------
(***************************************************************************)
(* The program 03-concurrency/04_cache_integer_with_future.cpp: threads    *)
(* that ask a shared cache for the square of every key, each key in an     *)
(* order of its own.  The first to ask for a key registers a shared_future *)
(* and starts a detached worker that computes the value; the others wait   *)
(* for the same future.                                                    *)
(*                                                                         *)
(* std::shuffle fixes the order in which a thread asks; nothing else reads *)
(* the list, so the model lets a thread choose its next key when it needs  *)
(* one.  The worker's catch block is left out: expensiveCompute counts     *)
(* down and multiplies, and cannot throw.  std::thread's constructor can;  *)
(* nobody catches that, and the program is terminated.                     *)
(***************************************************************************)
EXTENDS Integers, FiniteSets, FiniteSetsExt

CONSTANTS
  Threads,   \* the threads that run a TaskImpl
  Keys,      \* 1 .. 100 in the program
  None       \* no owner, no future, no value

ASSUME KeysAreNumbers == Keys \subseteq Nat /\ IsFiniteSet(Keys) /\ Keys # {}
ASSUME NoneIsNoThread == Threads # {} /\ None \notin Threads

(* The future that thread t registers for key k, with its shared state and
   its worker. *)
Futures == Threads \X Keys

ASSUME NoneIsNoData == None \notin Futures /\ None \notin Int

VARIABLES
  start, startMutex,       \* the start gate
  cacheMutex, cacheMap,    \* cacheMap[k]: the future registered for k, or None
  value,                   \* value[f]: what the promise of f was given, or None
  worker,                  \* the detached threads: "none", "running", "leaving"
                           \* (the promise is kept) or "ended"
  pc, number, future,      \* where a TaskImpl is, its loop variable, its future
  remaining, result,       \* the keys it has still to ask for, and its sum
  main                     \* where main() is

gateVars == <<start, startMutex>>
cacheVars == <<cacheMutex, cacheMap, value, worker>>
taskVars == <<number, future, remaining, result>>
vars == <<start, startMutex, cacheMutex, cacheMap, value, worker,
          pc, number, future, remaining, result, main>>

Init ==
  /\ start = FALSE /\ startMutex = None
  /\ cacheMutex = None
  /\ cacheMap = [k \in Keys |-> None]
  /\ value = [f \in Futures |-> None]
  /\ worker = [f \in Futures |-> "none"]
  /\ pc = [t \in Threads |-> "start.lock"]
  /\ number = [t \in Threads |-> None]
  /\ future = [t \in Threads |-> None]
  /\ remaining = [t \in Threads |-> Keys]
  /\ result = [t \in Threads |-> 0]
  /\ main = "setStart"

Goto(t, label) == pc' = [pc EXCEPT ![t] = label]

-----------------------------------------------------------------------------
(* The start gate: startCv.wait(lock, start) in every thread *)

StartLock(t) ==
  /\ pc[t] \in {"start.lock", "start.woken"}
  /\ startMutex = None
  /\ startMutex' = t
  /\ Goto(t, "start.pred")
  /\ UNCHANGED <<start, cacheVars, taskVars, main>>

(* The predicate is read, and then acted upon: main() could come in between,
   had it not to take the same mutex. *)
StartPred(t) ==
  /\ pc[t] = "start.pred"
  /\ \/ start /\ startMutex' = None /\ Goto(t, "next")
     \/ ~start /\ Goto(t, "start.sleep") /\ UNCHANGED startMutex
  /\ UNCHANGED <<start, cacheVars, taskVars, main>>

StartSleep(t) ==
  /\ pc[t] = "start.sleep"
  /\ startMutex' = None
  /\ Goto(t, "start.wait")
  /\ UNCHANGED <<start, cacheVars, taskVars, main>>

Spurious ==
  /\ \E t \in Threads : pc[t] = "start.wait" /\ Goto(t, "start.woken")
  /\ UNCHANGED <<gateVars, cacheVars, taskVars, main>>

-----------------------------------------------------------------------------
(* TaskImpl's loop, and FutureCache::compute *)

Bug_CacheLock(t) ==   \* the lock_guard is missing
  /\ pc[t] = "next"
  /\ \E k \in remaining[t] : number' = [number EXCEPT ![t] = k]
  /\ cacheMutex' = t
  /\ Goto(t, "find")
  /\ UNCHANGED <<gateVars, cacheMap, value, worker, future, remaining, result, main>>

(* The next key of the list, and the lock_guard of compute. *)
CacheLock(t) ==
  /\ pc[t] = "next"
  /\ cacheMutex = None
  /\ \E k \in remaining[t] : number' = [number EXCEPT ![t] = k]
  /\ cacheMutex' = t
  /\ Goto(t, "find")
  /\ UNCHANGED <<gateVars, cacheMap, value, worker, future, remaining, result, main>>

(* cacheMap.find: a hit copies the future and releases the mutex. *)
Find(t) ==
  /\ pc[t] = "find"
  /\ \/ /\ cacheMap[number[t]] # None
        /\ future' = [future EXCEPT ![t] = cacheMap[number[t]]]
        /\ cacheMutex' = None
        /\ Goto(t, "get")
     \/ /\ cacheMap[number[t]] = None
        /\ Goto(t, "register")
        /\ UNCHANGED <<future, cacheMutex>>
  /\ UNCHANGED <<gateVars, cacheMap, value, worker, number, remaining, result, main>>

Bug_Register(t) ==   \* the worker is never started
  LET f == <<t, number[t]>>
  IN  /\ pc[t] = "register"
      /\ cacheMap' = [cacheMap EXCEPT ![number[t]] = f]
      /\ future' = [future EXCEPT ![t] = f]
      /\ cacheMutex' = None
      /\ Goto(t, "get")
      /\ UNCHANGED <<gateVars, value, worker, number, remaining, result, main>>

(* A miss: a promise and its shared future, emplace (which leaves an entry
   that is already there alone), a detached worker. *)
Register(t) ==
  LET f == <<t, number[t]>>
  IN  /\ pc[t] = "register"
      /\ cacheMap' = [cacheMap EXCEPT ![number[t]] = IF @ = None THEN f ELSE @]
      /\ worker' = [worker EXCEPT ![f] = "running"]
      /\ future' = [future EXCEPT ![t] = f]
      /\ cacheMutex' = None
      /\ Goto(t, "get")
      /\ UNCHANGED <<gateVars, value, number, remaining, result, main>>

(* The system cannot start another thread: std::system_error leaves compute
   and the thread's function. *)
SpawnFails(t) ==
  /\ pc[t] = "register"
  /\ main' = "terminated"
  /\ UNCHANGED <<gateVars, cacheVars, taskVars, pc>>

Bug_Get(t) ==   \* a future that is not ready counts as 0
  /\ pc[t] = "get"
  /\ result' = [result EXCEPT ![t] =
                  @ + IF value[future[t]] = None THEN 0 ELSE value[future[t]]]
  /\ remaining' = [remaining EXCEPT ![t] = @ \ {number[t]}]
  /\ Goto(t, IF remaining'[t] = {} THEN "exited" ELSE "next")
  /\ UNCHANGED <<gateVars, cacheVars, number, future, main>>

(* future.get(), the sum, and the loop's test. *)
Get(t) ==
  /\ pc[t] = "get"
  /\ value[future[t]] # None
  /\ result' = [result EXCEPT ![t] = @ + value[future[t]]]
  /\ remaining' = [remaining EXCEPT ![t] = @ \ {number[t]}]
  /\ Goto(t, IF remaining'[t] = {} THEN "exited" ELSE "next")
  /\ UNCHANGED <<gateVars, cacheVars, number, future, main>>

(* The lambda of a detached worker: expensiveCompute and set_value.  Whoever
   waits in get() goes on from here, and main() with it. *)
SetValue(f) ==
  /\ worker[f] = "running"
  /\ value' = [value EXCEPT ![f] = f[2] * f[2]]
  /\ worker' = [worker EXCEPT ![f] = "leaving"]
  /\ UNCHANGED <<gateVars, cacheMutex, cacheMap, taskVars, pc, main>>

(* The end of the lambda, of the promise it owns, and of the thread. *)
WorkerEnds(f) ==
  /\ worker[f] = "leaving"
  /\ worker' = [worker EXCEPT ![f] = "ended"]
  /\ UNCHANGED <<gateVars, cacheMutex, cacheMap, value, taskVars, pc, main>>

WorkerStep(f) == SetValue(f) \/ WorkerEnds(f)

ThreadStep(t) ==
  \/ StartLock(t)
  \/ StartPred(t)
  \/ StartSleep(t)
  \/ CacheLock(t)
  \/ Find(t)
  \/ Register(t)
  \/ Get(t)

-----------------------------------------------------------------------------
(* main() *)

Bug_SetStart ==   \* start is set without the mutex
  /\ main = "setStart"
  /\ start' = TRUE
  /\ main' = "notify"
  /\ UNCHANGED <<startMutex, cacheVars, taskVars, pc>>

SetStart ==
  /\ main = "setStart"
  /\ startMutex = None
  /\ start' = TRUE
  /\ main' = "notify"
  /\ UNCHANGED <<startMutex, cacheVars, taskVars, pc>>

NotifyAll ==
  /\ main = "notify"
  /\ pc' = [t \in Threads |-> IF pc[t] = "start.wait" THEN "start.woken" ELSE pc[t]]
  /\ main' = "join"
  /\ UNCHANGED <<gateVars, cacheVars, taskVars>>

Bug_JoinAll ==   \* the threads are detached, not joined
  /\ main = "join"
  /\ main' = "returned"
  /\ UNCHANGED <<gateVars, cacheVars, taskVars, pc>>

(* The joins, one after the other; cacheSize() then reads the map. *)
JoinAll ==
  /\ main = "join"
  /\ \A t \in Threads : pc[t] = "exited"
  /\ main' = "returned"
  /\ UNCHANGED <<gateVars, cacheVars, taskVars, pc>>

MainStep == SetStart \/ NotifyAll \/ JoinAll

(* The process is gone, and with it the workers that had still to leave. *)
Over == main \in {"returned", "terminated"}

Next ==
  \/ ~Over /\ \/ MainStep
              \/ \E t \in Threads : ThreadStep(t) \/ SpawnFails(t)
              \/ \E f \in Futures : WorkerStep(f)
              \/ Spurious
  \/ Over /\ UNCHANGED vars

Spec == Init /\ [][Next]_vars
FairSpec ==
  /\ Spec
  /\ WF_vars(~Over /\ MainStep)
  /\ \A t \in Threads : WF_vars(~Over /\ (ThreadStep(t) \/ SpawnFails(t)))
  /\ \A f \in Futures : WF_vars(~Over /\ WorkerStep(f))

-----------------------------------------------------------------------------
Labels == {"start.lock", "start.pred", "start.sleep", "start.wait",
           "start.woken", "next", "find", "register", "get", "exited"}

TypeOK ==
  /\ start \in BOOLEAN
  /\ startMutex \in Threads \cup {None}
  /\ cacheMutex \in Threads \cup {None}
  /\ cacheMap \in [Keys -> Futures \cup {None}]
  /\ value \in [Futures -> Int \cup {None}]
  /\ worker \in [Futures -> {"none", "running", "leaving", "ended"}]
  /\ pc \in [Threads -> Labels]
  /\ number \in [Threads -> Keys \cup {None}]
  /\ future \in [Threads -> Futures \cup {None}]
  /\ remaining \in [Threads -> SUBSET Keys]
  /\ result \in [Threads -> Int]
  /\ main \in {"setStart", "notify", "join", "returned", "terminated"}

(* Why the cache works.  A thread is between the lock_guard and the end of its
   scope exactly while it owns cacheMutex, so that the miss it has found is
   still one when it registers a future. *)
CriticalSection ==
  \A t \in Threads :
    /\ pc[t] \in {"find", "register"} <=> cacheMutex = t
    /\ pc[t] \in {"find", "register", "get"} => number[t] \in remaining[t]
    /\ pc[t] = "register" => cacheMap[number[t]] = None
    /\ pc[t] = "get" => /\ future[t] \in Futures
                        /\ future[t] = cacheMap[number[t]]

(* The map and the workers tell the same story: an entry is the future of its
   key, its worker was started, and its promise is kept from set_value on. *)
PromiseKept(f) == worker[f] \in {"leaving", "ended"}

EntriesHaveWorkers ==
  /\ \A k \in Keys : cacheMap[k] # None =>
       cacheMap[k][2] = k /\ worker[cacheMap[k]] # "none"
  /\ \A f \in Futures :
       /\ worker[f] # "none" => cacheMap[f[2]] = f
       /\ value[f] = IF PromiseKept(f) THEN f[2] * f[2] ELSE None

(* A thread is done with a key when the value of that key is ready. *)
ProgressIsReal ==
  /\ \A t \in Threads : \A k \in Keys \ remaining[t] :
       cacheMap[k] # None /\ PromiseKept(cacheMap[k])
  /\ \A t \in Threads : pc[t] = "exited" <=> remaining[t] = {}
  /\ main = "returned" => \A t \in Threads : pc[t] = "exited"

CacheInv == TypeOK /\ CriticalSection /\ EntriesHaveWorkers /\ ProgressIsReal

(* No key is computed twice, however many threads ask for it at once: this is
   what the futures are registered for. *)
OneComputationPerKey ==
  \A f, g \in Futures :
    worker[f] # "none" /\ worker[g] # "none" /\ f[2] = g[2] => f = g

(* Whoever waits in future.get() waits for a promise that a worker still has
   to keep or has kept, and the value it gets is the square of the key it
   asked for, whoever started the worker. *)
FuturesAreKept ==
  \A t \in Threads : pc[t] = "get" =>
    LET f == future[t]
    IN  /\ f \in Futures /\ f[2] = number[t]
        /\ \/ worker[f] = "running" /\ value[f] = None
           \/ PromiseKept(f) /\ value[f] = number[t] * number[t]

(* The check at the end of TaskImpl never prints "Wrong result!": the sum of
   all squares, 338350 in the program. *)
Square(k) == k * k
RightResult ==
  \A t \in Threads :
    pc[t] = "exited" => result[t] = MapThenSumSet(Square, Keys)

(* When main() prints the size of the cache it is the number of keys, every
   future in it is ready with the square of its key, and no detached worker is
   left that has still to compute.  A worker may be left that has set its value
   and not yet ended: get() returns at set_value, nobody joins the worker, and
   the end of main() ends it wherever it is. *)
CacheCompleteAtReturn ==
  main = "returned" =>
    /\ {k \in Keys : cacheMap[k] # None} = Keys
    /\ \A k \in Keys : value[cacheMap[k]] = Square(k)
    /\ \A f \in Futures : worker[f] # "running"

(* No thread is left asleep at the start gate, none waits for a future for
   ever: the program ends, unless condition variables wake up
   spuriously for ever. *)
Termination == (<>[][~Spurious]_vars) => <>Over
=============================================================================
