---------------------------- MODULE FillPrograms ----------------------------
(***************************************************************************)
(* The programs 01_fill_array, 02_fill_map and 03_fill_map_no_mutex of     *)
(* 03-concurrency: N keys are filled in, CHUNK of them by each of          *)
(* THREAD_COUNT lambdas, into one array (01), into one unordered_map under *)
(* a mutex (02), or each into an unordered_map of its own (03).            *)
(*                                                                         *)
(* The lambdas of 01 are threads that wait at a gate; those of 02 and 03   *)
(* are posted to a thread_pool of THREAD_COUNT threads, which is external  *)
(* and may start each as soon as it is posted.  A lambda is known by its   *)
(* startIdx.  Writing an element takes two steps, since emplace() is       *)
(* anything but atomic.                                                    *)
(*                                                                         *)
(* writes is a history: it counts how often each key was written, which    *)
(* neither the array nor a map remembers, and no action reads it.          *)
(***************************************************************************)
EXTENDS Integers, FiniteSets

CONSTANTS CHUNK, THREAD_COUNT

N == THREAD_COUNT * CHUNK   \* TOTAL in 02 and 03
Keys == 0 .. N - 1
Lambdas == {k \in Keys : k % CHUNK = 0}

(* No entry of a map, an element of the array that new int[N] has left as it
   found it, no lambda, nothing printed yet. *)
Nothing == -1

VARIABLES
  program,   \* which of the three it is
  at, i,     \* where each lambda is, and its loop variable
  mutex,     \* the lambda that holds the mutex of 02, or Nothing
  content,   \* content[c][k]: the value of key k in container c, or Nothing
  writes,    \* how often each key was written, wherever to
  startIdx,  \* the loop variable of the main thread
  main,      \* where the main thread is
  reported   \* what it prints: the last value (01) or the size (02, 03)

vars == <<program, at, i, mutex, content, writes, startIdx, main, reported>>

Init ==
  /\ program \in {"01", "02", "03"}
  /\ at = [s \in Lambdas |-> "none"] /\ i = [s \in Lambdas |-> s]
  /\ mutex = Nothing
  /\ content = [c \in 0 .. THREAD_COUNT - 1 |-> [k \in Keys |-> Nothing]]
  /\ writes = [k \in Keys |-> 0]
  /\ startIdx = 0 /\ main = "start" /\ reported = Nothing

(* localMaps[startIdx / CHUNK] in 03; arr2 and concurrentMap are container 0. *)
Container(s) == IF program = "03" THEN s \div CHUNK ELSE 0

-----------------------------------------------------------------------------
(* The lambdas *)

Bug_BeginWrite(s) ==   \* the lock_guard is missing
  /\ at[s] = "loop" /\ i[s] < s + CHUNK
  /\ program = "01" => main # "start" /\ main # "openGate"
  /\ at' = [at EXCEPT ![s] = "writing"]
  /\ UNCHANGED <<program, i, mutex, content, writes, startIdx, main, reported>>

Bug_EndIdx(s) ==   \* i <= endIdx, and an endIdx that is not less by one
  /\ at[s] = "loop" /\ i[s] <= s + CHUNK
  /\ program = "01" => main # "start" /\ main # "openGate"
  /\ IF program = "02" THEN mutex = Nothing /\ mutex' = s ELSE UNCHANGED mutex
  /\ at' = [at EXCEPT ![s] = "writing"]
  /\ UNCHANGED <<program, i, content, writes, startIdx, main, reported>>

(* i < endIdx in 01, i <= endIdx with an endIdx less by one in 02 and 03 *)
BeginWrite(s) ==
  /\ at[s] = "loop" /\ i[s] < s + CHUNK
  /\ program = "01" => main # "start" /\ main # "openGate"
  /\ IF program = "02" THEN mutex = Nothing /\ mutex' = s ELSE UNCHANGED mutex
  /\ at' = [at EXCEPT ![s] = "writing"]
  /\ UNCHANGED <<program, i, content, writes, startIdx, main, reported>>

(* arr2[i] = i in 01; emplace(i, i), which leaves a key that is already there
   alone, in 02 and 03 *)
EndWrite(s) ==
  /\ at[s] = "writing"
  /\ content' = [content EXCEPT ![Container(s)][i[s]] =
                   IF program = "01" \/ @ = Nothing THEN i[s] ELSE @]
  /\ writes' = [writes EXCEPT ![i[s]] = @ + 1]
  /\ i' = [i EXCEPT ![s] = @ + 1]
  /\ at' = [at EXCEPT ![s] = "loop"]
  /\ mutex' = IF program = "02" THEN Nothing ELSE mutex
  /\ UNCHANGED <<program, startIdx, main, reported>>

(* endGate.count_down() in 01; the lambda's return in 02 and 03 *)
Finish(s) ==
  /\ at[s] = "loop" /\ i[s] = s + CHUNK
  /\ at' = [at EXCEPT ![s] = "finished"]
  /\ UNCHANGED <<program, i, mutex, content, writes, startIdx, main, reported>>

Exit(s) ==
  /\ at[s] = "finished"
  /\ at' = [at EXCEPT ![s] = "exited"]
  /\ UNCHANGED <<program, i, mutex, content, writes, startIdx, main, reported>>

LambdaStep(s) == BeginWrite(s) \/ EndWrite(s) \/ Finish(s) \/ Exit(s)

-----------------------------------------------------------------------------
(* run(), in the main thread *)

Start ==
  /\ main = "start"
  /\ at' = [at EXCEPT ![startIdx] = "loop"]
  /\ startIdx' = startIdx + CHUNK
  /\ main' = IF startIdx + CHUNK < N THEN "start"
             ELSE IF program = "01" THEN "openGate" ELSE "wait"
  /\ UNCHANGED <<program, i, mutex, content, writes, reported>>

OpenGate ==
  /\ main = "openGate"
  /\ main' = "wait"
  /\ UNCHANGED <<program, at, i, mutex, content, writes, startIdx, reported>>

(* endGate.wait(); threadPool.join() also waits for its threads' end *)
Wait ==
  /\ main = "wait"
  /\ \A s \in Lambdas : at[s] \in (IF program = "01" THEN {"finished", "exited"} ELSE {"exited"})
  /\ main' = "read"
  /\ UNCHANGED <<program, at, i, mutex, content, writes, startIdx, reported>>

(* arr2[N - 1], which may be anything if it was not written; the size of the
   map, or the sum of the sizes *)
Entries == {e \in (DOMAIN content) \X Keys : content[e[1]][e[2]] # Nothing}
LastValues == IF content[0][N - 1] = Nothing THEN 0 .. N - 1 ELSE {content[0][N - 1]}

Read ==
  /\ main = "read"
  /\ reported' \in IF program = "01" THEN LastValues ELSE {Cardinality(Entries)}
  /\ main' = "join"
  /\ UNCHANGED <<program, at, i, mutex, content, writes, startIdx>>

(* join() of the threads, and the end of arrays, gates, mutex and maps *)
JoinAndFree ==
  /\ main = "join"
  /\ \A s \in Lambdas : at[s] = "exited"
  /\ main' = "returned"
  /\ UNCHANGED <<program, at, i, mutex, content, writes, startIdx, reported>>

MainStep == Start \/ OpenGate \/ Wait \/ Read \/ JoinAndFree

Returned == main = "returned" /\ UNCHANGED vars

Next == (\E s \in Lambdas : LambdaStep(s)) \/ MainStep \/ Returned

Spec == Init /\ [][Next]_vars

-----------------------------------------------------------------------------
(* The place a lambda writes to: an element of the array, but all of a map *)
Written(s) == <<Container(s), IF program = "01" THEN i[s] ELSE 0>>

(* 03_fill_map_no_mutex.cpp needs no mutex, 01_fill_array.cpp needs none
   (its line 53), and 02 needs its own: no two lambdas are ever at the same
   place, and none is at work on what the main thread reads or frees. *)
NoRace ==
  LET writing == {s \in Lambdas : at[s] = "writing"}
  IN  /\ \A s, t \in writing : Written(s) = Written(t) => s = t
      /\ main \in {"read", "join", "returned"} => writing = {}

(* Each key is written once, by whichever lambda and into whichever container,
   and with its own value; what run() reports is the whole: N - 1 at the end of
   the array, N keys in the maps. *)
Values(k) == {content[c][k] : c \in DOMAIN content} \ {Nothing}
Stored == [k \in Keys |-> Values(k)]
Whole == IF program = "01" THEN N - 1 ELSE N
Result ==
  IF reported = Nothing THEN "nothing" ELSE IF reported = Whole THEN "all" ELSE "less"

Abstract == INSTANCE ParallelFill WITH stored <- Stored, reported <- Result
ImplementsFill == Abstract!PFSpec
=============================================================================
