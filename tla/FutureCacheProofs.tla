-------------------------- MODULE FutureCacheProofs --------------------------
(***************************************************************************)
(* Theorems about the FutureCache program, for any number of threads and   *)
(* any keys.  The inductive invariant is CacheInv, and SumInv for the sums. *)
(***************************************************************************)
EXTENDS FutureCache, FiniteSetTheorems, WellFoundedInduction, TLAPS

LEMMA InitCacheInv == Init => CacheInv
<1> SUFFICES ASSUME Init PROVE CacheInv
  OBVIOUS
<1>1. TypeOK
  <2>1. /\ start \in BOOLEAN
        /\ startMutex \in Threads \cup {None}
        /\ cacheMutex \in Threads \cup {None}
        /\ main \in {"setStart", "notify", "join", "returned", "terminated"}
    BY DEF Init
  <2>2. /\ cacheMap \in [Keys -> Futures \cup {None}]
        /\ value \in [Futures -> Int \cup {None}]
        /\ worker \in [Futures -> {"none", "running", "leaving", "ended"}]
    BY DEF Init
  <2>3. /\ pc \in [Threads -> Labels]
        /\ number \in [Threads -> Keys \cup {None}]
        /\ future \in [Threads -> Futures \cup {None}]
    BY DEF Init, Labels
  <2>4. /\ remaining \in [Threads -> SUBSET Keys]
        /\ result \in [Threads -> Int]
    BY DEF Init
  <2> QED BY <2>1, <2>2, <2>3, <2>4 DEF TypeOK
<1>2. CriticalSection /\ EntriesHaveWorkers /\ ProgressIsReal
  BY KeysAreNumbers, NoneIsNoThread
     DEF Init, CriticalSection, EntriesHaveWorkers, ProgressIsReal,
         PromiseKept
<1> QED BY <1>1, <1>2 DEF CacheInv

(* A future is a pair of a thread and a key, and has a square to compute. *)
LEMMA FutureOfKey ==
  /\ \A f \in Futures : f[1] \in Threads /\ f[2] \in Keys /\ f[2] * f[2] \in Int
  /\ \A t \in Threads, k \in Keys : <<t, k>> \in Futures
<1>1. \A k \in Keys : k * k \in Int
  BY KeysAreNumbers
<1>2. \A f \in Futures : f[1] \in Threads /\ f[2] \in Keys
  BY DEF Futures
<1> QED BY <1>1, <1>2 DEF Futures

LEMMA StartLockStep ==
  ASSUME CacheInv, NEW t \in Threads, StartLock(t), ~Over PROVE CacheInv'
<1> USE FutureOfKey, KeysAreNumbers, NoneIsNoThread, NoneIsNoData
       DEF CacheInv, TypeOK, PromiseKept
<1>1. TypeOK'
  BY DEF StartLock, Goto, Labels, gateVars, cacheVars, taskVars
<1>2. CriticalSection'
  BY DEF StartLock, Goto, CriticalSection, gateVars, cacheVars, taskVars
<1>3. EntriesHaveWorkers'
  BY DEF StartLock, Goto, EntriesHaveWorkers, CriticalSection, gateVars, cacheVars, taskVars
<1>4. ProgressIsReal'
  BY DEF StartLock, Goto, ProgressIsReal, CriticalSection, EntriesHaveWorkers,
         gateVars, cacheVars, taskVars
<1> QED BY <1>1, <1>2, <1>3, <1>4

LEMMA StartPredStep ==
  ASSUME CacheInv, NEW t \in Threads, StartPred(t), ~Over PROVE CacheInv'
<1> USE FutureOfKey, KeysAreNumbers, NoneIsNoThread, NoneIsNoData
       DEF CacheInv, TypeOK, PromiseKept
<1>1. TypeOK'
  BY DEF StartPred, Goto, Labels, gateVars, cacheVars, taskVars
<1>2. CriticalSection'
  BY DEF StartPred, Goto, CriticalSection, gateVars, cacheVars, taskVars
<1>3. EntriesHaveWorkers'
  BY DEF StartPred, Goto, EntriesHaveWorkers, CriticalSection, gateVars, cacheVars, taskVars
<1>4. ProgressIsReal'
  BY DEF StartPred, Goto, ProgressIsReal, CriticalSection, EntriesHaveWorkers,
         gateVars, cacheVars, taskVars
<1> QED BY <1>1, <1>2, <1>3, <1>4

LEMMA StartSleepStep ==
  ASSUME CacheInv, NEW t \in Threads, StartSleep(t), ~Over PROVE CacheInv'
<1> USE FutureOfKey, KeysAreNumbers, NoneIsNoThread, NoneIsNoData
       DEF CacheInv, TypeOK, PromiseKept
<1>1. TypeOK'
  BY DEF StartSleep, Goto, Labels, gateVars, cacheVars, taskVars
<1>2. CriticalSection'
  BY DEF StartSleep, Goto, CriticalSection, gateVars, cacheVars, taskVars
<1>3. EntriesHaveWorkers'
  BY DEF StartSleep, Goto, EntriesHaveWorkers, CriticalSection, gateVars, cacheVars, taskVars
<1>4. ProgressIsReal'
  BY DEF StartSleep, Goto, ProgressIsReal, CriticalSection, EntriesHaveWorkers,
         gateVars, cacheVars, taskVars
<1> QED BY <1>1, <1>2, <1>3, <1>4

LEMMA CacheLockStep ==
  ASSUME CacheInv, NEW t \in Threads, CacheLock(t), ~Over PROVE CacheInv'
<1> USE FutureOfKey, KeysAreNumbers, NoneIsNoThread, NoneIsNoData
       DEF CacheInv, TypeOK, PromiseKept
<1>1. TypeOK'
  BY DEF CacheLock, Goto, Labels, gateVars, cacheVars, taskVars
<1>2. CriticalSection'
  BY DEF CacheLock, Goto, CriticalSection, gateVars, cacheVars, taskVars
<1>3. EntriesHaveWorkers'
  BY DEF CacheLock, Goto, EntriesHaveWorkers, CriticalSection, gateVars, cacheVars, taskVars
<1>4. ProgressIsReal'
  BY DEF CacheLock, Goto, ProgressIsReal, CriticalSection, EntriesHaveWorkers,
         gateVars, cacheVars, taskVars
<1> QED BY <1>1, <1>2, <1>3, <1>4

LEMMA FindStep ==
  ASSUME CacheInv, NEW t \in Threads, Find(t), ~Over PROVE CacheInv'
<1> USE FutureOfKey, KeysAreNumbers, NoneIsNoThread, NoneIsNoData
       DEF CacheInv, TypeOK, PromiseKept
<1>1. TypeOK'
  <2>1. number[t] \in Keys
    BY DEF Find, CriticalSection
  <2>2. /\ future' \in [Threads -> Futures \cup {None}]
        /\ cacheMutex' \in Threads \cup {None}
    BY <2>1 DEF Find
  <2>3. pc' \in [Threads -> Labels]
    BY DEF Find, Goto, Labels
  <2> QED BY <2>2, <2>3 DEF Find, gateVars
<1>2. CriticalSection'
  <2>1. cacheMutex = t /\ number[t] \in Keys /\ number[t] \in remaining[t]
    BY DEF Find, CriticalSection
  <2>2. CASE cacheMap[number[t]] # None
    <3>1. /\ future' = [future EXCEPT ![t] = cacheMap[number[t]]]
          /\ cacheMutex' = None /\ pc' = [pc EXCEPT ![t] = "get"]
          /\ UNCHANGED <<cacheMap, number, remaining>>
      BY <2>2 DEF Find, Goto
    <3> QED BY <2>1, <2>2, <3>1 DEF CriticalSection
  <2>3. CASE cacheMap[number[t]] = None
    <3>1. /\ pc' = [pc EXCEPT ![t] = "register"]
          /\ UNCHANGED <<cacheMap, number, remaining, future, cacheMutex>>
      BY <2>3 DEF Find, Goto
    <3> QED BY <2>1, <2>3, <3>1 DEF Find, CriticalSection
  <2> QED BY <2>2, <2>3
<1>3. EntriesHaveWorkers'
  BY DEF Find, Goto, EntriesHaveWorkers, CriticalSection, gateVars, cacheVars, taskVars
<1>4. ProgressIsReal'
  BY DEF Find, Goto, ProgressIsReal, CriticalSection, EntriesHaveWorkers,
         gateVars, cacheVars, taskVars
<1> QED BY <1>1, <1>2, <1>3, <1>4

LEMMA RegisterStep ==
  ASSUME CacheInv, NEW t \in Threads, Register(t), ~Over PROVE CacheInv'
<1> USE FutureOfKey, KeysAreNumbers, NoneIsNoThread, NoneIsNoData
       DEF CacheInv, TypeOK, PromiseKept
<1>1. TypeOK'
  <2>1. number[t] \in Keys /\ <<t, number[t]>> \in Futures
    BY DEF Register, CriticalSection
  <2>2. /\ cacheMap' \in [Keys -> Futures \cup {None}]
        /\ worker' \in [Futures -> {"none", "running", "leaving", "ended"}]
    BY <2>1 DEF Register
  <2>3. /\ future' \in [Threads -> Futures \cup {None}]
        /\ cacheMutex' \in Threads \cup {None}
        /\ pc' \in [Threads -> Labels]
    BY <2>1 DEF Register, Goto, Labels
  <2> QED BY <2>2, <2>3 DEF Register, gateVars
<1>2. CriticalSection'
  <2>1. /\ cacheMutex = t /\ number[t] \in Keys /\ <<t, number[t]>> \in Futures
        /\ cacheMap[number[t]] = None
    BY DEF Register, CriticalSection
  <2>2. /\ future' = [future EXCEPT ![t] = <<t, number[t]>>]
        /\ cacheMap' = [cacheMap EXCEPT ![number[t]] = <<t, number[t]>>]
    BY <2>1 DEF Register
  <2>3. ASSUME NEW u \in Threads, u # t
        PROVE  pc'[u] = "get" => /\ future'[u] \in Futures
                                 /\ future'[u] = cacheMap'[number'[u]]
    BY <2>1, <2>2, <2>3 DEF Register, Goto, CriticalSection
  <2>4. ASSUME NEW u \in Threads
        PROVE  /\ pc'[u] \in {"find", "register"} <=> cacheMutex' = u
               /\ pc'[u] \in {"find", "register", "get"} => number'[u] \in remaining'[u]
               /\ pc'[u] = "register" => cacheMap'[number'[u]] = None
    BY <2>1, <2>4 DEF Register, Goto, CriticalSection
  <2>5. future'[t] \in Futures /\ future'[t] = cacheMap'[number'[t]]
    BY <2>1, <2>2 DEF Register
  <2> QED BY <2>3, <2>4, <2>5 DEF CriticalSection
<1>3. EntriesHaveWorkers'
  BY DEF Register, Goto, EntriesHaveWorkers, CriticalSection, gateVars, cacheVars, taskVars
<1>4. ProgressIsReal'
  BY DEF Register, Goto, ProgressIsReal, CriticalSection, EntriesHaveWorkers,
         gateVars, cacheVars, taskVars
<1> QED BY <1>1, <1>2, <1>3, <1>4

LEMMA GetStep ==
  ASSUME CacheInv, NEW t \in Threads, Get(t), ~Over PROVE CacheInv'
<1> USE FutureOfKey, KeysAreNumbers, NoneIsNoThread, NoneIsNoData
       DEF CacheInv, TypeOK, PromiseKept
<1>1. TypeOK'
  <2>1. value[future[t]] \in Int
    BY DEF Get, CriticalSection
  <2>2. result' \in [Threads -> Int]
    BY <2>1 DEF Get
  <2>3. remaining' \in [Threads -> SUBSET Keys] /\ pc' \in [Threads -> Labels]
    BY DEF Get, Goto, Labels
  <2> QED BY <2>2, <2>3 DEF Get, gateVars, cacheVars
<1>2. CriticalSection'
  BY DEF Get, Goto, CriticalSection, gateVars, cacheVars, taskVars
<1>3. EntriesHaveWorkers'
  BY DEF Get, Goto, EntriesHaveWorkers, CriticalSection, gateVars, cacheVars, taskVars
<1>4. ProgressIsReal'
  BY DEF Get, Goto, ProgressIsReal, CriticalSection, EntriesHaveWorkers,
         gateVars, cacheVars, taskVars
<1> QED BY <1>1, <1>2, <1>3, <1>4

LEMMA SpawnFailsStep ==
  ASSUME CacheInv, NEW t \in Threads, SpawnFails(t), ~Over PROVE CacheInv'
<1> USE FutureOfKey, KeysAreNumbers, NoneIsNoThread, NoneIsNoData
       DEF CacheInv, TypeOK, PromiseKept
<1>1. TypeOK'
  BY DEF SpawnFails, Goto, Labels, gateVars, cacheVars, taskVars
<1>2. CriticalSection'
  BY DEF SpawnFails, Goto, CriticalSection, gateVars, cacheVars, taskVars
<1>3. EntriesHaveWorkers'
  BY DEF SpawnFails, Goto, EntriesHaveWorkers, CriticalSection, gateVars, cacheVars, taskVars
<1>4. ProgressIsReal'
  BY DEF SpawnFails, Goto, ProgressIsReal, CriticalSection, EntriesHaveWorkers,
         gateVars, cacheVars, taskVars
<1> QED BY <1>1, <1>2, <1>3, <1>4

LEMMA SetValueStep ==
  ASSUME CacheInv, NEW f \in Futures, SetValue(f), ~Over PROVE CacheInv'
<1> USE FutureOfKey, KeysAreNumbers, NoneIsNoThread, NoneIsNoData
       DEF CacheInv, TypeOK, PromiseKept
<1>1. TypeOK'
  BY DEF SetValue, Goto, Labels, gateVars, cacheVars, taskVars
<1>2. CriticalSection'
  BY DEF SetValue, Goto, CriticalSection, gateVars, cacheVars, taskVars
<1>3. EntriesHaveWorkers'
  BY DEF SetValue, Goto, EntriesHaveWorkers, CriticalSection, gateVars, cacheVars, taskVars
<1>4. ProgressIsReal'
  BY DEF SetValue, Goto, ProgressIsReal, CriticalSection, EntriesHaveWorkers,
         gateVars, cacheVars, taskVars
<1> QED BY <1>1, <1>2, <1>3, <1>4

LEMMA WorkerEndsStep ==
  ASSUME CacheInv, NEW f \in Futures, WorkerEnds(f), ~Over PROVE CacheInv'
<1> USE FutureOfKey, KeysAreNumbers, NoneIsNoThread, NoneIsNoData
       DEF CacheInv, TypeOK, PromiseKept
<1>1. TypeOK'
  BY DEF WorkerEnds, Goto, Labels, gateVars, cacheVars, taskVars
<1>2. CriticalSection'
  BY DEF WorkerEnds, Goto, CriticalSection, gateVars, cacheVars, taskVars
<1>3. EntriesHaveWorkers'
  BY DEF WorkerEnds, Goto, EntriesHaveWorkers, CriticalSection, gateVars, cacheVars, taskVars
<1>4. ProgressIsReal'
  BY DEF WorkerEnds, Goto, ProgressIsReal, CriticalSection, EntriesHaveWorkers,
         gateVars, cacheVars, taskVars
<1> QED BY <1>1, <1>2, <1>3, <1>4

LEMMA SpuriousStep ==
  ASSUME CacheInv, Spurious, ~Over PROVE CacheInv'
<1> USE FutureOfKey, KeysAreNumbers, NoneIsNoThread, NoneIsNoData
       DEF CacheInv, TypeOK, PromiseKept
<1>1. TypeOK'
  BY DEF Spurious, Goto, Labels, gateVars, cacheVars, taskVars
<1>2. CriticalSection'
  BY DEF Spurious, Goto, CriticalSection, gateVars, cacheVars, taskVars
<1>3. EntriesHaveWorkers'
  BY DEF Spurious, Goto, EntriesHaveWorkers, CriticalSection, gateVars, cacheVars, taskVars
<1>4. ProgressIsReal'
  BY DEF Spurious, Goto, ProgressIsReal, CriticalSection, EntriesHaveWorkers,
         gateVars, cacheVars, taskVars
<1> QED BY <1>1, <1>2, <1>3, <1>4

LEMMA SetStartStep ==
  ASSUME CacheInv, SetStart, ~Over PROVE CacheInv'
<1> USE FutureOfKey, KeysAreNumbers, NoneIsNoThread, NoneIsNoData
       DEF CacheInv, TypeOK, PromiseKept
<1>1. TypeOK'
  BY DEF SetStart, Goto, Labels, gateVars, cacheVars, taskVars
<1>2. CriticalSection'
  BY DEF SetStart, Goto, CriticalSection, gateVars, cacheVars, taskVars
<1>3. EntriesHaveWorkers'
  BY DEF SetStart, Goto, EntriesHaveWorkers, CriticalSection, gateVars, cacheVars, taskVars
<1>4. ProgressIsReal'
  BY DEF SetStart, Goto, ProgressIsReal, CriticalSection, EntriesHaveWorkers,
         gateVars, cacheVars, taskVars
<1> QED BY <1>1, <1>2, <1>3, <1>4

LEMMA NotifyAllStep ==
  ASSUME CacheInv, NotifyAll, ~Over PROVE CacheInv'
<1> USE FutureOfKey, KeysAreNumbers, NoneIsNoThread, NoneIsNoData
       DEF CacheInv, TypeOK, PromiseKept
<1>1. TypeOK'
  BY DEF NotifyAll, Goto, Labels, gateVars, cacheVars, taskVars
<1>2. CriticalSection'
  BY DEF NotifyAll, Goto, CriticalSection, gateVars, cacheVars, taskVars
<1>3. EntriesHaveWorkers'
  BY DEF NotifyAll, Goto, EntriesHaveWorkers, CriticalSection, gateVars, cacheVars, taskVars
<1>4. ProgressIsReal'
  BY DEF NotifyAll, Goto, ProgressIsReal, CriticalSection, EntriesHaveWorkers,
         gateVars, cacheVars, taskVars
<1> QED BY <1>1, <1>2, <1>3, <1>4

LEMMA JoinAllStep ==
  ASSUME CacheInv, JoinAll, ~Over PROVE CacheInv'
<1> USE FutureOfKey, KeysAreNumbers, NoneIsNoThread, NoneIsNoData
       DEF CacheInv, TypeOK, PromiseKept
<1>1. TypeOK'
  BY DEF JoinAll, Goto, Labels, gateVars, cacheVars, taskVars
<1>2. CriticalSection'
  BY DEF JoinAll, Goto, CriticalSection, gateVars, cacheVars, taskVars
<1>3. EntriesHaveWorkers'
  BY DEF JoinAll, Goto, EntriesHaveWorkers, CriticalSection, gateVars, cacheVars, taskVars
<1>4. ProgressIsReal'
  BY DEF JoinAll, Goto, ProgressIsReal, CriticalSection, EntriesHaveWorkers,
         gateVars, cacheVars, taskVars
<1> QED BY <1>1, <1>2, <1>3, <1>4

-----------------------------------------------------------------------------

(* CacheInv holds in every execution. *)
THEOREM CacheIsSound == Spec => []CacheInv
<1>1. CacheInv /\ [Next]_vars => CacheInv'
  <2> SUFFICES ASSUME CacheInv, [Next]_vars PROVE CacheInv'
    OBVIOUS
  <2>1. CASE UNCHANGED vars
    BY <2>1 DEF vars, CacheInv, TypeOK, CriticalSection, EntriesHaveWorkers,
                ProgressIsReal, PromiseKept
  <2>2. CASE ~Over /\ MainStep
    BY <2>2, SetStartStep, NotifyAllStep, JoinAllStep DEF MainStep
  <2>3. ASSUME ~Over, NEW t \in Threads, ThreadStep(t) PROVE CacheInv'
    BY <2>3, StartLockStep, StartPredStep, StartSleepStep, CacheLockStep, FindStep,
       RegisterStep, GetStep DEF ThreadStep
  <2>4. ASSUME ~Over, NEW t \in Threads, SpawnFails(t) PROVE CacheInv'
    BY <2>4, SpawnFailsStep
  <2>5. ASSUME ~Over, NEW f \in Futures, WorkerStep(f) PROVE CacheInv'
    BY <2>5, SetValueStep, WorkerEndsStep DEF WorkerStep
  <2>6. CASE ~Over /\ Spurious
    BY <2>6, SpuriousStep
  <2> QED
    BY <2>1, <2>2, <2>3, <2>4, <2>5, <2>6 DEF Next
<1> QED BY <1>1, InitCacheInv, PTL DEF Spec

(* No key is computed twice, however many threads ask for it at once. *)
THEOREM ComputedOnce == Spec => []OneComputationPerKey
<1>1. CacheInv => OneComputationPerKey
  BY DEF CacheInv, EntriesHaveWorkers, OneComputationPerKey
<1> QED BY <1>1, CacheIsSound, PTL

(* Whoever waits for a future waits for a promise that is kept, with the value
   of the key it asked for. *)
THEOREM PromisesKept == Spec => []FuturesAreKept
<1>1. CacheInv => FuturesAreKept
  <2> SUFFICES ASSUME CacheInv, NEW t \in Threads, pc[t] = "get"
               PROVE  LET f == future[t]
                      IN  /\ f \in Futures /\ f[2] = number[t]
                          /\ \/ worker[f] = "running" /\ value[f] = None
                             \/ PromiseKept(f) /\ value[f] = number[t] * number[t]
    BY DEF FuturesAreKept
  <2> DEFINE f == future[t]
  <2>1. /\ f \in Futures /\ f = cacheMap[number[t]] /\ number[t] \in Keys
        /\ f # None
    BY NoneIsNoData DEF CacheInv, TypeOK, CriticalSection
  <2>2. f[2] = number[t] /\ worker[f] \in {"running", "leaving", "ended"}
    BY <2>1 DEF CacheInv, TypeOK, EntriesHaveWorkers
  <2>3. value[f] = IF PromiseKept(f) THEN f[2] * f[2] ELSE None
    BY <2>1 DEF CacheInv, EntriesHaveWorkers
  <2> QED BY <2>1, <2>2, <2>3 DEF PromiseKept
<1> QED BY <1>1, CacheIsSound, PTL

(* main() returns only with every key in the cache, every future ready with the
   square of its key, and no detached worker that has still to compute; one that
   has set its value may not have ended yet. *)
THEOREM CompleteAtReturn == Spec => []CacheCompleteAtReturn
<1>1. CacheInv => CacheCompleteAtReturn
  <2> SUFFICES ASSUME CacheInv, main = "returned"
               PROVE  /\ {k \in Keys : cacheMap[k] # None} = Keys
                      /\ \A k \in Keys : value[cacheMap[k]] = Square(k)
                      /\ \A f \in Futures : worker[f] # "running"
    BY DEF CacheCompleteAtReturn
  <2>1. PICK t \in Threads : remaining[t] = {}
    BY NoneIsNoThread DEF CacheInv, ProgressIsReal
  <2>2. \A k \in Keys : cacheMap[k] # None /\ PromiseKept(cacheMap[k])
    BY <2>1 DEF CacheInv, ProgressIsReal
  <2>3. \A k \in Keys : cacheMap[k] \in Futures /\ cacheMap[k][2] = k
    BY <2>2 DEF CacheInv, TypeOK, EntriesHaveWorkers
  <2>4. \A k \in Keys : value[cacheMap[k]] = Square(k)
    BY <2>2, <2>3 DEF CacheInv, EntriesHaveWorkers, Square
  <2>5. \A f \in Futures : worker[f] # "none" => worker[f] \in {"leaving", "ended"}
    BY <2>2, FutureOfKey DEF CacheInv, EntriesHaveWorkers, PromiseKept
  <2> QED BY <2>2, <2>4, <2>5
<1> QED BY <1>1, CacheIsSound, PTL

-----------------------------------------------------------------------------

(* The sum of the squares.  The order in which a thread asks for its keys is
   its own, so the sum that RightResult compares with has to be known not to
   depend on the order: f adds up the squares of every set of keys in S,
   whichever key comes first. *)
AddsSquares(f, S) ==
  /\ f \in [SUBSET S -> Int]
  /\ f[{}] = 0
  /\ \A T \in SUBSET S : \A x \in T : f[T] = x * x + f[T \ {x}]

(* One more key: a sum over the subsets of S \ {a} becomes one over those
   of S. *)
LEMMA OneKeyMore ==
  ASSUME NEW S \in SUBSET Keys, NEW a \in S, NEW f, AddsSquares(f, S \ {a})
  PROVE  AddsSquares([T \in SUBSET S |-> IF a \in T THEN a * a + f[T \ {a}] ELSE f[T]], S)
<1> DEFINE g == [T \in SUBSET S |-> IF a \in T THEN a * a + f[T \ {a}] ELSE f[T]]
<1>1. \A x \in S : x * x \in Int
  BY KeysAreNumbers
<1>2. \A T \in SUBSET (S \ {a}) : f[T] \in Int
  BY DEF AddsSquares
<1>3. g \in [SUBSET S -> Int]
  <2>1. ASSUME NEW T \in SUBSET S PROVE g[T] \in Int
    <3>1. CASE a \in T
      <4>1. T \ {a} \in SUBSET (S \ {a})
        OBVIOUS
      <4> QED BY <4>1, <3>1, <1>1, <1>2
    <3>2. CASE a \notin T
      <4>1. T \in SUBSET (S \ {a})
        BY <3>2
      <4> QED BY <4>1, <3>2, <1>2
    <3> QED BY <3>1, <3>2
  <2> QED BY <2>1
<1>4. g[{}] = 0
  BY DEF AddsSquares
<1>5. ASSUME NEW T \in SUBSET S, NEW x \in T PROVE g[T] = x * x + g[T \ {x}]
  <2>1. CASE x = a
    <3>1. g[T] = a * a + f[T \ {a}] /\ g[T \ {a}] = f[T \ {a}]
      BY <2>1
    <3> QED BY <2>1, <3>1
  <2>2. CASE x # a /\ a \in T
    <3> DEFINE U == T \ {a}
    <3>1. U \in SUBSET (S \ {a}) /\ x \in U /\ U \ {x} \in SUBSET (S \ {a})
      BY <2>2
    <3>2. f[U] = x * x + f[U \ {x}]
      BY <3>1 DEF AddsSquares
    <3>3. g[T] = a * a + f[U]
      BY <2>2
    <3>4. g[T \ {x}] = a * a + f[U \ {x}]
      <4>1. (T \ {x}) \ {a} = U \ {x} /\ a \in T \ {x} /\ T \ {x} \in SUBSET S
        BY <2>2
      <4> QED BY <4>1
    <3>5. f[U \ {x}] \in Int /\ a * a \in Int /\ x * x \in Int
      BY <1>1, <1>2, <3>1
    <3> HIDE DEF g, U
    <3> QED BY <3>2, <3>3, <3>4, <3>5
  <2>3. CASE x # a /\ a \notin T
    <3>1. T \in SUBSET (S \ {a}) /\ T \ {x} \in SUBSET S /\ a \notin T \ {x}
      BY <2>3
    <3>2. f[T] = x * x + f[T \ {x}]
      BY <3>1 DEF AddsSquares
    <3> QED BY <2>3, <3>1, <3>2
  <2> QED BY <2>1, <2>2, <2>3
<1> HIDE DEF g
<1>6. AddsSquares(g, S)
  BY <1>3, <1>4, <1>5 DEF AddsSquares
<1> QED BY <1>6 DEF g

(* Among sets of keys there is always a smallest one. *)
LEMMA SmallestSet ==
  ASSUME NEW Sets, Sets \subseteq SUBSET Keys, Sets # {}
  PROVE  \E S \in Sets : \A a \in S : S \ {a} \notin Sets
<1> DEFINE R == StrictSubsetOrdering(Keys)
<1>1. IsWellFoundedOn(R, SUBSET Keys)
  BY KeysAreNumbers, FS_StrictSubsetOrderingWellFounded, FS_FiniteSubsetsOfFinite
<1>2. PICK S \in Sets : \A T \in Sets : ~ (<<T, S>> \in R)
  <2> HIDE DEF R
  <2> QED BY <1>1, WFMin
<1>3. ASSUME NEW a \in S, S \ {a} \in Sets PROVE FALSE
  <2>1. <<S \ {a}, S>> \in R
    BY <1>3 DEF StrictSubsetOrdering
  <2> QED BY <1>2, <1>3, <2>1
<1> QED BY <1>3

(* There is such a sum: a smallest set of keys without one would have one. *)
LEMMA SquaresAddUp == \E f : AddsSquares(f, Keys)
<1> DEFINE Bad == {S \in SUBSET Keys : ~ \E f : AddsSquares(f, S)}
<1>1. ASSUME Bad # {} PROVE FALSE
  <2>1. PICK S \in Bad : \A a \in S : S \ {a} \notin Bad
    BY <1>1, SmallestSet
  <2>2. CASE S = {}
    <3>1. AddsSquares([T \in SUBSET {} |-> 0], {})
      BY DEF AddsSquares
    <3> QED BY <2>2, <3>1
  <2>3. CASE S # {}
    <3>1. PICK a \in S : TRUE
      BY <2>3
    <3>2. PICK f : AddsSquares(f, S \ {a})
      BY <2>1
    <3>3. \E g : AddsSquares(g, S)
      BY <3>2, OneKeyMore
    <3> QED BY <3>3
  <2> QED BY <2>2, <2>3
<1>2. Keys \notin Bad
  BY <1>1
<1> QED BY <1>2

(* What is still to be added when the keys of a set are to be asked for *)
Total == CHOOSE f : AddsSquares(f, Keys)

LEMMA TotalAddsUp == AddsSquares(Total, Keys)
BY SquaresAddUp DEF Total

(* The order in which MapThenSumSet takes the keys is one of them. *)
LEMMA SumOfAllSquares == MapThenSumSet(Square, Keys) = Total[Keys]
<1> DEFINE first(s) == CHOOSE x \in s : TRUE
           body(f) == [s \in SUBSET Keys |->
                         IF s = {} THEN 0 ELSE Square(first(s)) + f[s \ {first(s)}]]
           sum == CHOOSE f : f = body(f)
<1>1. MapThenSumSet(Square, Keys) = sum[Keys]
  BY DEF MapThenSumSet, MapThenFoldSet
<1>2. Total = body(Total)
  <2>1. Total = [s \in SUBSET Keys |-> Total[s]]
    BY TotalAddsUp DEF AddsSquares
  <2>2. ASSUME NEW s \in SUBSET Keys
        PROVE  Total[s] = IF s = {} THEN 0 ELSE Square(first(s)) + Total[s \ {first(s)}]
    BY TotalAddsUp DEF AddsSquares, Square
  <2> QED BY <2>1, <2>2
<1>3. sum = body(sum)
  <2> HIDE DEF body
  <2> QED BY <1>2
<1>4. ASSUME sum[Keys] # Total[Keys] PROVE FALSE
  <2> DEFINE Differ == {s \in SUBSET Keys : sum[s] # Total[s]}
  <2>1. PICK s \in Differ : \A a \in s : s \ {a} \notin Differ
    BY <1>4, SmallestSet
  <2>2. /\ sum[s] = IF s = {} THEN 0 ELSE Square(first(s)) + sum[s \ {first(s)}]
        /\ Total[s] = IF s = {} THEN 0 ELSE Square(first(s)) + Total[s \ {first(s)}]
    <3> HIDE DEF sum, first
    <3>1. sum[s] = body(sum)[s] /\ Total[s] = body(Total)[s]
      BY <1>2, <1>3
    <3> QED BY <3>1
  <2>3. ASSUME s # {} PROVE sum[s \ {first(s)}] = Total[s \ {first(s)}]
    BY <2>1, <2>3
  <2> QED BY <2>1, <2>2, <2>3
<1> QED BY <1>1, <1>4

(* What a thread has added up and what it has still to add make the whole sum. *)
SumInv ==
  \A t \in Threads :
    /\ remaining[t] \in SUBSET Keys
    /\ result[t] \in Int
    /\ result[t] + Total[remaining[t]] = Total[Keys]

LEMMA InitSum == Init => SumInv
BY TotalAddsUp DEF Init, SumInv, AddsSquares

LEMMA NextSum == CacheInv /\ FuturesAreKept /\ SumInv /\ [Next]_vars => SumInv'
<1> SUFFICES ASSUME CacheInv, FuturesAreKept, SumInv, [Next]_vars PROVE SumInv'
  OBVIOUS
<1>1. CASE UNCHANGED <<remaining, result>>
  BY <1>1 DEF SumInv
<1>2. ASSUME NEW t \in Threads, Get(t) PROVE SumInv'
  <2> DEFINE k == number[t]
             sq == k * k
  <2>1. k \in remaining[t] /\ k \in Keys /\ k * k \in Int /\ value[future[t]] = k * k
    BY <1>2, KeysAreNumbers DEF Get, CacheInv, TypeOK, CriticalSection, FuturesAreKept
  <2>2. /\ result' = [result EXCEPT ![t] = @ + k * k]
        /\ remaining' = [remaining EXCEPT ![t] = @ \ {k}]
    BY <1>2, <2>1 DEF Get
  <2>3. ASSUME NEW u \in Threads
        PROVE  /\ result'[u] = IF u = t THEN result[u] + k * k ELSE result[u]
               /\ remaining'[u] = IF u = t THEN remaining[u] \ {k} ELSE remaining[u]
    BY <2>2 DEF CacheInv, TypeOK
  <2>4. /\ Total[remaining[t]] = k * k + Total[remaining[t] \ {k}]
        /\ Total[remaining[t] \ {k}] \in Int
    BY <2>1, TotalAddsUp DEF AddsSquares, SumInv
  <2>5. ASSUME NEW u \in Threads
        PROVE  /\ remaining'[u] \in SUBSET Keys
               /\ result'[u] \in Int
               /\ result'[u] + Total[remaining'[u]] = Total[Keys]
    <3>1. /\ remaining[u] \in SUBSET Keys /\ result[u] \in Int
          /\ result[u] + Total[remaining[u]] = Total[Keys]
      BY DEF SumInv
    <3>2. CASE u = t
      <4>1. result'[t] = result[t] + sq /\ remaining'[t] = remaining[t] \ {k}
        BY <2>3
      <4>2. sq \in Int /\ Total[remaining[t]] = sq + Total[remaining[t] \ {k}]
        BY <2>1, <2>4
      <4> HIDE DEF sq, k
      <4> QED BY <3>1, <3>2, <2>4, <4>1, <4>2
    <3>3. CASE u # t
      BY <3>1, <3>3, <2>3
    <3> QED BY <3>2, <3>3
  <2> QED BY <2>5 DEF SumInv
<1>3. ASSUME NEW t \in Threads, ThreadStep(t), ~Get(t) PROVE UNCHANGED <<remaining, result>>
  BY <1>3 DEF ThreadStep, StartLock, StartPred, StartSleep, CacheLock, Find, Register, taskVars
<1>4. ASSUME NEW t \in Threads, SpawnFails(t) PROVE UNCHANGED <<remaining, result>>
  BY <1>4 DEF SpawnFails, taskVars
<1>5. ASSUME NEW f \in Futures, WorkerStep(f) PROVE UNCHANGED <<remaining, result>>
  BY <1>5 DEF WorkerStep, SetValue, WorkerEnds, taskVars
<1>6. ASSUME MainStep \/ Spurious \/ UNCHANGED vars PROVE UNCHANGED <<remaining, result>>
  BY <1>6 DEF MainStep, SetStart, NotifyAll, JoinAll, Spurious, vars, taskVars
<1> QED BY <1>1, <1>2, <1>3, <1>4, <1>5, <1>6 DEF Next

(* "Wrong result!" is never printed: a thread that has asked for all keys has
   the sum of all squares, in whatever order it asked and whoever computed
   them. *)
THEOREM ResultIsRight == Spec => []RightResult
<1>1. CacheInv /\ SumInv => RightResult
  <2> SUFFICES ASSUME CacheInv, SumInv, NEW t \in Threads, pc[t] = "exited"
               PROVE  result[t] = MapThenSumSet(Square, Keys)
    BY DEF RightResult
  <2>1. remaining[t] = {}
    BY DEF CacheInv, ProgressIsReal
  <2>2. result[t] = Total[Keys]
    <3>1. Total[{}] = 0
      BY TotalAddsUp DEF AddsSquares
    <3>2. result[t] \in Int /\ result[t] + Total[remaining[t]] = Total[Keys]
      BY DEF SumInv
    <3> QED BY <2>1, <3>1, <3>2
  <2> QED BY <2>2, SumOfAllSquares
<1>2. CacheInv /\ FuturesAreKept /\ SumInv /\ [Next]_vars => SumInv'
  BY NextSum
<1> QED BY <1>1, <1>2, InitSum, CacheIsSound, PromisesKept, PTL DEF Spec
=============================================================================
