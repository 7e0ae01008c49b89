----------------------------- MODULE AsyncTasks -----------------------------
(***************************************************************************)
(* The program 03-concurrency/05_exception_in_async.cpp: main() starts     *)
(* tasks with std::async, each of which draws a number and returns it if   *)
(* it is even; a task that has drawn an odd one notes its thread's id in a *)
(* vector that all share, under a mutex, and throws.  main() gets every    *)
(* future, catching, and then reads the vector, without the mutex.         *)
(***************************************************************************)
EXTENDS Integers, Sequences

CONSTANT count   \* 10 in the program

Tasks == 1 .. count

VARIABLES
  at,      \* where each task is; "even" and "thrown": its future is ready
  mutex,   \* the task that holds the mutex, or 0
  ids,     \* exception_thread_ids; a task stands for its thread's id
  got,     \* the futures main() has got, and
  caught,  \* how many of them have thrown
  main     \* where main() is

vars == <<at, mutex, ids, got, caught, main>>

Init ==
  /\ at = [t \in Tasks |-> "none"]
  /\ mutex = 0 /\ ids = <<>> /\ got = 0 /\ caught = 0
  /\ main = "start"

-----------------------------------------------------------------------------
(* threadWork() *)

Goto(t, place) == at' = [at EXCEPT ![t] = place]

Draw(t) ==
  /\ at[t] = "draw"
  /\ Goto(t, "even") \/ Goto(t, "lock")
  /\ UNCHANGED <<mutex, ids, got, caught, main>>

Lock(t) ==
  /\ at[t] = "lock" /\ mutex = 0
  /\ mutex' = t
  /\ Goto(t, "push")
  /\ UNCHANGED <<ids, got, caught, main>>

Bug_Push(t) ==   \* throws first, and leaves the note to whoever catches
  /\ at[t] = "push"
  /\ mutex' = 0
  /\ Goto(t, "throw")
  /\ UNCHANGED <<ids, got, caught, main>>

Push(t) ==
  /\ at[t] = "push"
  /\ ids' = Append(ids, t)
  /\ mutex' = 0
  /\ Goto(t, "throw")
  /\ UNCHANGED <<got, caught, main>>

(* The exception leaves threadWork() and goes into the future. *)
Throw(t) ==
  /\ at[t] = "throw"
  /\ Goto(t, "thrown")
  /\ UNCHANGED <<mutex, ids, got, caught, main>>

TaskStep(t) == main # "terminated" /\ (Draw(t) \/ Lock(t) \/ Push(t) \/ Throw(t))

-----------------------------------------------------------------------------
(* main() *)

(* The next std::async, or the end of the loop *)
Start ==
  /\ main = "start"
  /\ IF \A t \in Tasks : at[t] # "none"
     THEN main' = "get" /\ UNCHANGED at
     ELSE Goto(CHOOSE t \in Tasks : at[t] = "none" /\ \A u \in 1 .. t - 1 : at[u] # "none", "draw")
          /\ UNCHANGED main
  /\ UNCHANGED <<mutex, ids, got, caught>>

(* std::async cannot start a thread, and nobody catches that. *)
StartFails ==
  /\ main = "start"
  /\ \E t \in Tasks : at[t] = "none"
  /\ main' = "terminated"
  /\ UNCHANGED <<at, mutex, ids, got, caught>>

Bug_Get ==   \* only looks whether the future is ready
  /\ main = "get" /\ got < count
  /\ got' = got + 1
  /\ caught' = IF at[got + 1] = "thrown" THEN caught + 1 ELSE caught
  /\ UNCHANGED <<at, mutex, ids, main>>

Get ==
  /\ main = "get" /\ got < count
  /\ at[got + 1] \in {"even", "thrown"}
  /\ got' = got + 1
  /\ caught' = IF at[got + 1] = "thrown" THEN caught + 1 ELSE caught
  /\ UNCHANGED <<at, mutex, ids, main>>

(* The loop over exception_thread_ids begins, and ends. *)
Read ==
  /\ \/ main = "get" /\ got = count /\ main' = "read"
     \/ main = "read" /\ main' = "returned"
  /\ UNCHANGED <<at, mutex, ids, got, caught>>

MainStep == Start \/ Get \/ Read

Over == main \in {"returned", "terminated"} /\ UNCHANGED vars

Next == (\E t \in Tasks : TaskStep(t)) \/ MainStep \/ StartFails \/ Over

Spec == Init /\ [][Next]_vars

-----------------------------------------------------------------------------
(* No two tasks push at once, and none does while main() reads. *)
NoRace ==
  /\ \A t, u \in Tasks : at[t] = "push" /\ at[u] = "push" => t = u
  /\ main = "read" => \A t \in Tasks : at[t] # "push"

(* Every exception has reached main() once, and its thread's id is there to be
   read by the time main() does so without the mutex: "예외를 던지 스레드의
   아이디를 별도의 vertor에 기록한다" (05_exception_in_async.cpp:8). *)
ExceptionsAccounted ==
  main \in {"read", "returned"} =>
    /\ Len(ids) = caught
    /\ \A t \in Tasks : at[t] = "thrown" <=> \E n \in DOMAIN ids : ids[n] = t
=============================================================================
