------------------------- MODULE JoinedThreadsProofs -------------------------
(***************************************************************************)
(* Theorems about the programs of MCJoinedThreads: the stop request of 08  *)
(* is prompt, 01, 02 and 03 fill in every key once and without a race, and *)
(* no exception of 05 is lost.  They hold for every bound of the queue,    *)
(* every number and size of chunks, and every number of tasks.  Each       *)
(* program has an invariant of its own; what joins them comes at the end.  *)
(***************************************************************************)
EXTENDS MCJoinedThreads, Sequences, FiniteSetTheorems, TLAPS

-----------------------------------------------------------------------------
(* 08, the stop token *)

(* Inside the wait's lock the room that the predicate has seen is still there:
   the one thread that pushes is the one that looks.  A push that is on its way
   when the stop is requested is the one lastAllowed counts. *)
PromptInv ==
  /\ TypeOK
  /\ pc = "check" /\ ~stopRequested => size < MAX_SIZE
  /\ pc = "push" => size < MAX_SIZE
  /\ stopRequested => p <= lastAllowed
  /\ stopRequested /\ pc = "push" => p + 1 <= lastAllowed

(* The bound is a number, and there is room in an empty queue. *)
LEMMA BoundIsNat == MAX_SIZE \in Nat /\ 0 < MAX_SIZE
BY MaxSize

(* PromptInv holds at first. *)
LEMMA InitPrompt == Init => PromptInv
<1> SUFFICES ASSUME Init PROVE PromptInv
  OBVIOUS
<1>1. 0 \in 0 .. MAX_SIZE /\ 0 \in Nat
  BY BoundIsNat
<1>2. TypeOK
  BY <1>1, Zenon DEF Init, TypeOK
<1>3. ~stopRequested /\ pc = "while"
  BY Zenon DEF Init
<1>4. pc # "check" /\ pc # "push"
  BY <1>3
<1> QED BY <1>2, <1>3, <1>4, Zenon DEF PromptInv

(* A step of run() keeps it: only Push makes p and size greater. *)
LEMMA RunKeepsPrompt == PromptInv /\ (RunStep \/ Spurious) => PromptInv'
<1> SUFFICES ASSUME PromptInv, RunStep \/ Spurious PROVE PromptInv'
  OBVIOUS
<1> USE BoundIsNat DEF PromptInv, TypeOK
<1>1. CASE WhileTest BY <1>1 DEF WhileTest
<1>2. CASE Lock BY <1>2 DEF Lock
<1>3. CASE WaitReturns BY <1>3 DEF WaitReturns
<1>4. CASE WaitSleeps BY <1>4 DEF WaitSleeps
<1>5. CASE WaitWakes BY <1>5 DEF WaitWakes
<1>6. CASE CheckStop BY <1>6 DEF CheckStop
<1>7. CASE Push
  <2>1. /\ pc = "push" /\ pc' = "while" /\ locked' = FALSE
        /\ p' = p + 1 /\ size' = size + 1
        /\ stopRequested' = stopRequested /\ main' = main
        /\ lastAllowed' = lastAllowed
    BY <1>7, Zenon DEF Push
  <2>2. size' \in 0 .. MAX_SIZE /\ p' \in Nat
    BY <2>1
  <2>3. TypeOK'
    BY <2>1, <2>2, Zenon
  <2>4. stopRequested => p + 1 <= lastAllowed
    BY <2>1, Zenon
  <2>5. stopRequested' => p' <= lastAllowed'
    BY <2>1, <2>4, Zenon
  <2>6. pc' # "check" /\ pc' # "push"
    BY <2>1
  <2> QED BY <2>3, <2>5, <2>6, Zenon DEF PromptInv
<1>8. CASE Spurious BY <1>8 DEF Spurious
<1> QED BY <1>1, <1>2, <1>3, <1>4, <1>5, <1>6, <1>7, <1>8 DEF RunStep

(* So does a step of main(): the request finds the thread anywhere. *)
LEMMA MainKeepsPrompt == PromptInv /\ (RequestStop \/ Join \/ Returned) => PromptInv'
<1> SUFFICES ASSUME PromptInv, RequestStop \/ Join \/ Returned PROVE PromptInv'
  OBVIOUS
<1> USE BoundIsNat DEF PromptInv, TypeOK
<1>1. CASE RequestStop BY <1>1 DEF RequestStop
<1>2. CASE Join BY <1>2 DEF Join
<1>3. CASE Returned BY <1>3 DEF Returned, vars
<1> QED BY <1>1, <1>2, <1>3

LEMMA NextPrompt == PromptInv /\ [Next]_vars => PromptInv'
<1>1. PromptInv /\ UNCHANGED vars => PromptInv'
  BY DEF PromptInv, TypeOK, vars
<1> QED BY <1>1, RunKeepsPrompt, MainKeepsPrompt DEF Next

-----------------------------------------------------------------------------
(* 01, 02 and 03, the fills *)

(* The lambda that fills in key k *)
Block(k) == CHUNK * (k \div CHUNK)

LEMMA Division ==
  ASSUME NEW k \in Nat, NEW C \in Nat \ {0}
  PROVE  /\ k \div C \in Nat /\ (k % C) \in 0 .. C - 1
         /\ k = C * (k \div C) + (k % C) /\ C * (k \div C) \in Nat
OBVIOUS

LEMMA Quotient ==
  ASSUME NEW q \in Nat, NEW C \in Nat \ {0}, NEW d \in 0 .. C - 1
  PROVE  /\ (C * q + d) \div C = q /\ ((C * q + d) % C) = d
         /\ C * q \in Nat /\ C * q + d \in Nat
OBVIOUS

LEMMA NextMultiple ==
  ASSUME NEW q \in Nat, NEW r \in Nat, NEW C \in Nat \ {0}, q < r
  PROVE  C * q + C <= C * r
OBVIOUS

LEMMA SmallerQuotient ==
  ASSUME NEW q \in Nat, NEW r \in Nat, NEW C \in Nat \ {0}, C * q < C * r
  PROVE  q < r
OBVIOUS

LEMMA Sizes == Fill!N \in Nat /\ Fill!N = CHUNK * THREAD_COUNT /\ Fill!N > 0
BY FillSizes DEF Fill!N

(* The lambdas start at the multiples of CHUNK, *)
LEMMA LambdaStarts ==
  ASSUME NEW s \in Fill!Lambdas
  PROVE  /\ s \in Nat /\ s < Fill!N /\ s = CHUNK * (s \div CHUNK)
         /\ s \div CHUNK \in 0 .. THREAD_COUNT - 1
         /\ s + CHUNK <= Fill!N
<1>1. s \in Nat /\ s < Fill!N /\ (s % CHUNK) = 0
  BY Sizes DEF Fill!Lambdas, Fill!Keys
<1> DEFINE q == s \div CHUNK
<1>2. q \in Nat /\ s = CHUNK * q
  <2>1. q \in Nat /\ s = CHUNK * q + 0 /\ CHUNK * q \in Nat
    BY <1>1, FillSizes, Division
  <2> HIDE DEF q
  <2> QED BY <2>1
<1>3. q < THREAD_COUNT
  <2> HIDE DEF q
  <2> QED BY <1>1, <1>2, Sizes, FillSizes, SmallerQuotient
<1>4. CHUNK * q + CHUNK <= CHUNK * THREAD_COUNT
  <2> HIDE DEF q
  <2> QED BY <1>2, <1>3, FillSizes, NextMultiple
<1> HIDE DEF q
<1>5. s + CHUNK <= Fill!N /\ q \in 0 .. THREAD_COUNT - 1
  BY <1>2, <1>3, <1>4, Sizes, FillSizes
<1> QED BY <1>1, <1>2, <1>5 DEF q

LEMMA MultipleIsStart ==
  ASSUME NEW q \in Nat, CHUNK * q < Fill!N
  PROVE  CHUNK * q \in Fill!Lambdas /\ (CHUNK * q) \div CHUNK = q
<1>1. 0 \in 0 .. CHUNK - 1 /\ CHUNK * q + 0 = CHUNK * q
  BY FillSizes
<1>2. (CHUNK * q) \div CHUNK = q /\ ((CHUNK * q) % CHUNK) = 0 /\ CHUNK * q \in Nat
  BY <1>1, FillSizes, Quotient
<1> QED BY <1>2, Sizes DEF Fill!Lambdas, Fill!Keys

(* and what each fills in is its own. *)
LEMMA BlockOfKey ==
  ASSUME NEW k \in Fill!Keys
  PROVE  /\ Block(k) \in Fill!Lambdas
         /\ Block(k) <= k /\ k < Block(k) + CHUNK
<1> DEFINE q == k \div CHUNK
           d == k % CHUNK
<1>1. k \in Nat /\ k < Fill!N
  BY Sizes DEF Fill!Keys
<1>2. q \in Nat /\ d \in 0 .. CHUNK - 1 /\ k = CHUNK * q + d /\ CHUNK * q \in Nat
  BY <1>1, FillSizes, Division
<1> HIDE DEF q, d
<1>3. CHUNK * q < Fill!N /\ CHUNK * q <= k /\ k < CHUNK * q + CHUNK
  BY <1>1, <1>2, Sizes, FillSizes
<1>4. CHUNK * q \in Fill!Lambdas
  BY <1>2, <1>3, MultipleIsStart
<1> QED BY <1>3, <1>4 DEF Block, q

LEMMA KeyOfBlock ==
  ASSUME NEW s \in Fill!Lambdas, NEW k \in Nat, s <= k, k < s + CHUNK
  PROVE  k \in Fill!Keys /\ Block(k) = s
<1> DEFINE q == s \div CHUNK
           d == k - s
<1>1. /\ s \in Nat /\ s = CHUNK * q /\ q \in Nat /\ s + CHUNK <= Fill!N
  BY LambdaStarts, FillSizes
<1>2. d \in 0 .. CHUNK - 1 /\ k = CHUNK * q + d /\ k < Fill!N
  BY <1>1, FillSizes, Sizes
<1> HIDE DEF q, d
<1>3. k \div CHUNK = q
  BY <1>1, <1>2, FillSizes, Quotient
<1> QED BY <1>1, <1>2, <1>3, Sizes DEF Block, Fill!Keys

LEMMA StartsDiffer ==
  ASSUME NEW s \in Fill!Lambdas, NEW t \in Fill!Lambdas
  PROVE  /\ s \div CHUNK = t \div CHUNK => s = t
         /\ s < t => s + CHUNK <= t
<1>1. s = CHUNK * (s \div CHUNK) /\ t = CHUNK * (t \div CHUNK) /\ s \in Nat /\ t \in Nat
  BY LambdaStarts
<1>2. ASSUME s < t PROVE s + CHUNK <= t
  <2> DEFINE q == s \div CHUNK
             r == t \div CHUNK
  <2>1. q \in Nat /\ r \in Nat /\ s = CHUNK * q /\ t = CHUNK * r
    BY <1>1, LambdaStarts, FillSizes
  <2> HIDE DEF q, r
  <2>2. q < r
    BY <1>2, <2>1, FillSizes, SmallerQuotient
  <2> QED BY <2>1, <2>2, FillSizes, NextMultiple
<1> QED BY <1>1, <1>2

-----------------------------------------------------------------------------
(* Where the threads and the contents of the containers stand.  A container
   holds what the lambdas that write to it have come past, each key with its own
   value and written once, for no lambda is in another one's keys; the main
   thread reads when all have finished. *)
FillTypeOK ==
  /\ program \in {"01", "02", "03"}
  /\ fillAt \in [Fill!Lambdas -> {"none", "loop", "writing", "finished", "exited"}]
  /\ i \in [Fill!Lambdas -> Nat]
  /\ content \in [0 .. THREAD_COUNT - 1 -> [Fill!Keys -> Int]]
  /\ writes \in [Fill!Keys -> Nat]
  /\ startIdx \in Nat
  /\ fillMain \in {"start", "openGate", "wait", "read", "join", "returned"}

LambdasInv ==
  \A s \in Fill!Lambdas :
    /\ s <= i[s] /\ i[s] <= s + CHUNK
    /\ fillAt[s] = "writing" => i[s] < s + CHUNK
    /\ fillAt[s] \in {"finished", "exited"} => i[s] = s + CHUNK
    /\ program = "02" /\ fillAt[s] = "writing" => mutex = s

ContentInv ==
  \A k \in Fill!Keys :
    /\ writes[k] = IF k < i[Block(k)] THEN 1 ELSE 0
    /\ \A c \in 0 .. THREAD_COUNT - 1 :
         content[c][k] = IF c = Fill!Container(Block(k)) /\ k < i[Block(k)] THEN k ELSE -1

MainInv ==
  /\ fillMain = "start" => startIdx \in Fill!Lambdas
  /\ \A s \in Fill!Lambdas : fillAt[s] = "none" <=> fillMain = "start" /\ startIdx <= s
  /\ fillMain \in {"read", "join", "returned"} =>
       \A s \in Fill!Lambdas : fillAt[s] \in {"finished", "exited"}
  /\ reported = IF fillMain \in {"join", "returned"}
                THEN (IF program = "01" THEN Fill!N - 1 ELSE Fill!N) ELSE -1

FillInv == FillTypeOK /\ LambdasInv /\ ContentInv /\ MainInv

LEMMA InitFill == Fill!Init => FillInv
<1> SUFFICES ASSUME Fill!Init PROVE FillInv
  OBVIOUS
<1>1. 0 \in Fill!Lambdas
  <2>1. CHUNK * 0 = 0
    BY FillSizes
  <2> QED BY <2>1, Sizes, MultipleIsStart
<1>2. FillTypeOK
  BY LambdaStarts DEF Fill!Init, FillTypeOK, Fill!Nothing
<1>3. LambdasInv
  BY LambdaStarts, FillSizes DEF Fill!Init, LambdasInv
<1>4. ContentInv
  <2>1. ASSUME NEW k \in Fill!Keys PROVE ~(k < i[Block(k)])
    <3>1. Block(k) \in Fill!Lambdas /\ Block(k) <= k /\ i[Block(k)] = Block(k)
      BY BlockOfKey DEF Fill!Init
    <3>2. k \in Nat /\ Block(k) \in Nat
      BY <3>1, LambdaStarts, Sizes DEF Fill!Keys
    <3> QED BY <3>1, <3>2
  <2> QED BY <2>1 DEF Fill!Init, ContentInv, Fill!Nothing
<1>5. MainInv
  BY <1>1, LambdaStarts DEF Fill!Init, MainInv, Fill!Nothing
<1> QED BY <1>2, <1>3, <1>4, <1>5 DEF FillInv

LEMMA ContainerOfLambda ==
  ASSUME NEW s \in Fill!Lambdas
  PROVE  Fill!Container(s) \in 0 .. THREAD_COUNT - 1
BY LambdaStarts, FillSizes DEF Fill!Container

LEMMA BeginWriteStep ==
  ASSUME FillInv, NEW s \in Fill!Lambdas, Fill!BeginWrite(s) PROVE FillInv'
<1> USE DEF FillInv, FillTypeOK
<1>1. FillTypeOK'
  BY DEF Fill!BeginWrite
<1>2. LambdasInv'
  BY LambdaStarts DEF Fill!BeginWrite, LambdasInv, Fill!Nothing
<1>3. ContentInv'
  BY DEF Fill!BeginWrite, ContentInv, Fill!Container
<1>4. MainInv'
  BY DEF Fill!BeginWrite, MainInv
<1> QED BY <1>1, <1>2, <1>3, <1>4

LEMMA FinishStep ==
  ASSUME FillInv, NEW s \in Fill!Lambdas, Fill!Finish(s) \/ Fill!Exit(s) PROVE FillInv'
<1> USE DEF FillInv, FillTypeOK, Fill!Finish, Fill!Exit
<1>1. FillTypeOK'
  OBVIOUS
<1>2. LambdasInv'
  BY DEF LambdasInv
<1>3. ContentInv'
  BY DEF ContentInv, Fill!Container
<1>4. MainInv'
  BY DEF MainInv
<1> QED BY <1>1, <1>2, <1>3, <1>4

(* A key is added to the one container it belongs to. *)
LEMMA EndWriteStep ==
  ASSUME FillInv, NEW s \in Fill!Lambdas, Fill!EndWrite(s) PROVE FillInv'
<1> USE DEF FillInv, FillTypeOK
<1>1. /\ s \in Nat /\ i[s] \in Nat /\ s <= i[s] /\ i[s] < s + CHUNK
      /\ i[s] \in Fill!Keys /\ Block(i[s]) = s
      /\ Fill!Container(s) \in 0 .. THREAD_COUNT - 1
  <2>1. s \in Nat /\ i[s] \in Nat /\ s <= i[s] /\ i[s] < s + CHUNK
    BY LambdaStarts DEF Fill!EndWrite, LambdasInv
  <2> QED BY <2>1, KeyOfBlock, ContainerOfLambda
<1>2. /\ content' = [content EXCEPT ![Fill!Container(s)][i[s]] = i[s]]
      /\ writes' = [writes EXCEPT ![i[s]] = @ + 1]
      /\ i' = [i EXCEPT ![s] = i[s] + 1]
      /\ fillAt[s] = "writing" /\ fillAt' = [fillAt EXCEPT ![s] = "loop"]
      /\ UNCHANGED <<program, startIdx, fillMain, reported>>
  <2>1. content[Fill!Container(s)][i[s]] = Fill!Nothing
    BY <1>1 DEF ContentInv, Fill!Nothing
  <2> QED BY <1>1, <2>1 DEF Fill!EndWrite
<1>3. FillTypeOK'
  <2>1. content' \in [0 .. THREAD_COUNT - 1 -> [Fill!Keys -> Int]]
    BY <1>1, <1>2
  <2>2. writes' \in [Fill!Keys -> Nat]
    BY <1>1, <1>2
  <2>3. /\ i' \in [Fill!Lambdas -> Nat]
        /\ fillAt' \in [Fill!Lambdas -> {"none", "loop", "writing", "finished", "exited"}]
    BY <1>1, <1>2
  <2> QED BY <1>2, <2>1, <2>2, <2>3
<1>4. LambdasInv'
  <2>1. ASSUME NEW u \in Fill!Lambdas
        PROVE  /\ u <= i'[u] /\ i'[u] <= u + CHUNK
               /\ fillAt'[u] = "writing" => i'[u] < u + CHUNK
               /\ fillAt'[u] \in {"finished", "exited"} => i'[u] = u + CHUNK
    BY <1>1, <1>2, LambdaStarts, FillSizes DEF LambdasInv
  <2>2. ASSUME NEW u \in Fill!Lambdas, program' = "02", fillAt'[u] = "writing"
        PROVE  mutex' = u
    <3>1. u # s /\ fillAt[u] = "writing" /\ program = "02"
      BY <1>2, <2>2
    <3>2. mutex = u /\ mutex = s
      BY <1>2, <3>1 DEF LambdasInv
    <3> QED BY <3>1, <3>2
  <2> QED BY <2>1, <2>2 DEF LambdasInv
<1>5. ContentInv'
  <2> SUFFICES ASSUME NEW k \in Fill!Keys
               PROVE  /\ writes'[k] = IF k < i'[Block(k)] THEN 1 ELSE 0
                      /\ \A c \in 0 .. THREAD_COUNT - 1 :
                           content'[c][k] = IF c = Fill!Container(Block(k))' /\ k < i'[Block(k)]
                                            THEN k ELSE -1
    BY DEF ContentInv
  <2>1. Block(k) \in Fill!Lambdas /\ Block(k) <= k /\ k < Block(k) + CHUNK
    BY BlockOfKey
  <2>2. k \in Nat /\ Block(k) \in Nat
    BY <2>1, LambdaStarts, Sizes DEF Fill!Keys
  <2>3. Fill!Container(Block(k))' = Fill!Container(Block(k))
    BY <1>2 DEF Fill!Container
  <2>4. /\ writes[k] = IF k < i[Block(k)] THEN 1 ELSE 0
        /\ \A c \in 0 .. THREAD_COUNT - 1 :
             content[c][k] = IF c = Fill!Container(Block(k)) /\ k < i[Block(k)] THEN k ELSE -1
    BY DEF ContentInv
  <2>5. CASE k = i[s]
    <3>1. Block(k) = s /\ i'[Block(k)] = i[s] + 1 /\ k < i'[Block(k)] /\ ~(k < i[Block(k)])
      BY <1>1, <1>2, <2>5
    <3>2. writes'[k] = 1
      BY <1>2, <2>4, <2>5, <3>1
    <3>3. ASSUME NEW c \in 0 .. THREAD_COUNT - 1
          PROVE  content'[c][k] = IF c = Fill!Container(s) THEN k ELSE content[c][k]
      BY <1>1, <1>2, <2>5
    <3> QED BY <2>3, <2>4, <3>1, <3>2, <3>3
  <2>6. CASE k # i[s]
    <3>1. writes'[k] = writes[k]
      BY <1>1, <1>2, <2>6
    <3>2. ASSUME NEW c \in 0 .. THREAD_COUNT - 1 PROVE content'[c][k] = content[c][k]
      BY <1>1, <1>2, <2>6
    <3>3. k < i'[Block(k)] <=> k < i[Block(k)]
      BY <1>1, <1>2, <2>1, <2>2, <2>6
    <3> QED BY <2>3, <2>4, <3>1, <3>2, <3>3
  <2> QED BY <2>5, <2>6
<1>6. MainInv'
  BY <1>2 DEF MainInv
<1> QED BY <1>3, <1>4, <1>5, <1>6

LEMMA StartStep ==
  ASSUME FillInv, Fill!Start PROVE FillInv'
<1> USE DEF FillInv, FillTypeOK
<1>1. /\ startIdx \in Fill!Lambdas /\ fillMain = "start"
      /\ fillAt' = [fillAt EXCEPT ![startIdx] = "loop"]
      /\ startIdx' = startIdx + CHUNK
      /\ fillMain' = IF startIdx + CHUNK < Fill!N THEN "start"
                     ELSE IF program = "01" THEN "openGate" ELSE "wait"
      /\ UNCHANGED <<program, i, mutex, content, writes, reported>>
  BY DEF Fill!Start, MainInv
<1>2. startIdx \in Nat /\ startIdx + CHUNK \in Nat
  BY <1>1, LambdaStarts, FillSizes
<1>3. FillTypeOK'
  BY <1>1, <1>2
<1>4. LambdasInv'
  BY <1>1 DEF LambdasInv
<1>5. ContentInv'
  BY <1>1 DEF ContentInv, Fill!Container
<1>6. MainInv'
  <2>1. ASSUME startIdx + CHUNK < Fill!N PROVE startIdx + CHUNK \in Fill!Lambdas
    <3> DEFINE q == startIdx \div CHUNK
    <3>1. q \in Nat /\ startIdx = CHUNK * q
      BY <1>1, LambdaStarts, FillSizes
    <3> HIDE DEF q
    <3>2. startIdx + CHUNK = CHUNK * (q + 1) /\ q + 1 \in Nat
      BY <3>1, FillSizes
    <3> QED BY <2>1, <3>2, MultipleIsStart
  <2>2. ASSUME NEW s \in Fill!Lambdas
        PROVE  fillAt'[s] = "none" <=> fillMain' = "start" /\ startIdx' <= s
    <3>1. s \in Nat /\ s + CHUNK <= Fill!N /\ s < Fill!N
      BY LambdaStarts
    <3>2. fillAt[s] = "none" <=> startIdx <= s
      BY <1>1 DEF MainInv
    <3>3. CASE s = startIdx
      BY <1>1, <1>2, <3>1, <3>3, FillSizes
    <3>4. CASE s < startIdx
      BY <1>1, <1>2, <3>1, <3>2, <3>4, FillSizes
    <3>5. CASE startIdx < s
      <4>1. startIdx + CHUNK <= s
        BY <1>1, <3>5, StartsDiffer
      <4> QED BY <1>1, <1>2, <3>1, <3>2, <3>5, <4>1, FillSizes, Sizes
    <3> QED BY <1>2, <3>1, <3>3, <3>4, <3>5
  <2>3. fillMain' \notin {"read", "join", "returned"} /\ reported' = -1
    BY <1>1 DEF MainInv
  <2> QED BY <1>1, <2>1, <2>2, <2>3 DEF MainInv
<1> QED BY <1>3, <1>4, <1>5, <1>6

LEMMA WaitStep ==
  ASSUME FillInv, Fill!OpenGate \/ Fill!Wait \/ Fill!JoinAndFree PROVE FillInv'
<1> USE DEF FillInv, FillTypeOK, Fill!OpenGate, Fill!Wait, Fill!JoinAndFree
<1>1. FillTypeOK'
  OBVIOUS
<1>2. LambdasInv'
  BY DEF LambdasInv
<1>3. ContentInv'
  BY DEF ContentInv, Fill!Container
<1>4. MainInv'
  BY DEF MainInv
<1> QED BY <1>1, <1>2, <1>3, <1>4

(* When all lambdas have finished every key is in its container. *)
LEMMA AllFilled ==
  ASSUME FillInv, \A s \in Fill!Lambdas : fillAt[s] \in {"finished", "exited"}
  PROVE  /\ \A c \in 0 .. THREAD_COUNT - 1 : \A k \in Fill!Keys :
              content[c][k] = IF c = Fill!Container(Block(k)) THEN k ELSE -1
         /\ \A k \in Fill!Keys : writes[k] = 1
         /\ \A k \in Fill!Keys : Fill!Container(Block(k)) \in 0 .. THREAD_COUNT - 1
<1>1. ASSUME NEW k \in Fill!Keys
      PROVE  k < i[Block(k)] /\ Fill!Container(Block(k)) \in 0 .. THREAD_COUNT - 1
  <2>1. Block(k) \in Fill!Lambdas /\ k < Block(k) + CHUNK
    BY BlockOfKey
  <2>2. i[Block(k)] = Block(k) + CHUNK
    BY <2>1 DEF FillInv, LambdasInv
  <2> QED BY <2>1, <2>2, ContainerOfLambda
<1> QED BY <1>1 DEF FillInv, ContentInv

LEMMA SameCardinality == \A S : Fill!Cardinality(S) = Cardinality(S)
BY DEF Fill!Cardinality, Cardinality

LEMMA ReadStep ==
  ASSUME FillInv, Fill!Read PROVE FillInv'
<1> USE DEF FillInv, FillTypeOK
<1>1. /\ \A s \in Fill!Lambdas : fillAt[s] \in {"finished", "exited"}
      /\ fillMain = "read" /\ fillMain' = "join"
      /\ UNCHANGED <<program, fillAt, i, mutex, content, writes, startIdx>>
  BY DEF Fill!Read, MainInv
<1>2. /\ \A c \in 0 .. THREAD_COUNT - 1 : \A k \in Fill!Keys :
           content[c][k] = IF c = Fill!Container(Block(k)) THEN k ELSE -1
      /\ \A k \in Fill!Keys : Fill!Container(Block(k)) \in 0 .. THREAD_COUNT - 1
  BY <1>1, AllFilled
<1>3. ASSUME program = "01" PROVE reported' = Fill!N - 1
  <2>1. Fill!N - 1 \in Fill!Keys /\ 0 \in 0 .. THREAD_COUNT - 1
    <3> HIDE DEF FillInv, FillTypeOK
    <3> QED BY Sizes, FillSizes DEF Fill!Keys
  <2>2. content[0][Fill!N - 1] = Fill!N - 1 /\ Fill!N - 1 # -1
    BY <1>2, <1>3, <2>1, Sizes DEF Fill!Container
  <2> QED BY <1>3, <2>2 DEF Fill!Read, Fill!LastValues, Fill!Nothing
<1>4. ASSUME program # "01" PROVE reported' = Fill!N
  <2> DEFINE K == Fill!Keys
             E == {e \in (DOMAIN content) \X K : content[e[1]][e[2]] # -1}
             f == [k \in K |-> <<Fill!Container(Block(k)), k>>]
  <2>1. IsFiniteSet(K) /\ Cardinality(K) = Fill!N
    <3>1. K = 0 .. Fill!N - 1
      BY DEF Fill!Keys
    <3>2. IsFiniteSet(0 .. Fill!N - 1) /\ Cardinality(0 .. Fill!N - 1) = Fill!N
      <4> DEFINE n == Fill!N - 1
                 J == 0 .. n
      <4>1. n \in Int /\ n + 1 = Fill!N /\ ~(0 > n)
        BY Sizes
      <4> HIDE DEF n
      <4>2. IsFiniteSet(J) /\ Cardinality(J) = n + 1
        BY <4>1, FS_Interval
      <4> QED BY <4>1, <4>2 DEF n
    <3> HIDE DEF K
    <3> QED BY <3>1, <3>2
  <2>2. ASSUME NEW k \in K PROVE f[k] \in E
    <3>1. k # -1
      BY Sizes DEF Fill!Keys
    <3> QED BY <1>2, <3>1
  <2>3. ASSUME NEW e \in E PROVE e[2] \in K /\ f[e[2]] = e
    BY <1>2
  <2>4. ASSUME NEW k \in K, NEW l \in K, f[k] = f[l] PROVE k = l
    BY <2>4
  <2>5. f \in [K -> E]
    BY <2>2
  <2>6. Cardinality(E) = Cardinality(K)
    <3> HIDE DEF K, E, f
    <3>1. f \in Bijection(K, E)
      BY <2>3, <2>4, <2>5 DEF Bijection, Injection, Surjection, IsInjective
    <3> QED BY <2>1, <3>1, FS_Bijection DEF ExistsBijection
  <2>7. reported' = Cardinality(E)
    BY <1>4, SameCardinality DEF Fill!Read, Fill!Entries, Fill!Nothing
  <2> QED BY <2>1, <2>6, <2>7
<1>5. FillTypeOK'
  BY <1>1
<1>6. LambdasInv'
  BY <1>1 DEF LambdasInv
<1>7. ContentInv'
  BY <1>1 DEF ContentInv, Fill!Container
<1>8. MainInv'
  BY <1>1, <1>3, <1>4 DEF MainInv
<1> QED BY <1>5, <1>6, <1>7, <1>8

LEMMA NextFill == FillInv /\ (Fill!Next \/ UNCHANGED fillVars) => FillInv'
<1> SUFFICES ASSUME FillInv, Fill!Next \/ UNCHANGED fillVars PROVE FillInv'
  OBVIOUS
<1>1. ASSUME UNCHANGED fillVars PROVE FillInv'
  BY <1>1 DEF fillVars, FillInv, FillTypeOK, LambdasInv, ContentInv, MainInv, Fill!Container
<1>2. ASSUME NEW s \in Fill!Lambdas, Fill!LambdaStep(s) PROVE FillInv'
  BY <1>2, BeginWriteStep, EndWriteStep, FinishStep DEF Fill!LambdaStep
<1>3. ASSUME Fill!MainStep PROVE FillInv'
  BY <1>3, StartStep, WaitStep, ReadStep DEF Fill!MainStep
<1>4. Fill!Returned => UNCHANGED fillVars
  BY DEF Fill!Returned, Fill!vars, fillVars
<1> QED BY <1>1, <1>2, <1>3, <1>4 DEF Fill!Next

(* Of two lambdas that write to the same place one holds the mutex (02), or
   they have no key (01) or no container (03) in common. *)
LEMMA FillsDoNotRace == FillInv => Fill!NoRace
<1> SUFFICES ASSUME FillInv PROVE Fill!NoRace
  OBVIOUS
<1>1. ASSUME NEW s \in Fill!Lambdas, NEW t \in Fill!Lambdas, fillAt[s] = "writing",
             fillAt[t] = "writing", Fill!Written(s) = Fill!Written(t)
      PROVE  s = t
  <2>1. CASE program = "02"
    BY <1>1, <2>1 DEF FillInv, LambdasInv
  <2>2. CASE program = "01"
    <3>1. i[s] = i[t]
      BY <1>1, <2>2 DEF Fill!Written
    <3>2. /\ i[s] \in Nat /\ s <= i[s] /\ i[s] < s + CHUNK
          /\ i[t] \in Nat /\ t <= i[t] /\ i[t] < t + CHUNK
      BY <1>1 DEF FillInv, FillTypeOK, LambdasInv
    <3>3. Block(i[s]) = s /\ Block(i[t]) = t
      BY <3>2, KeyOfBlock
    <3> QED BY <3>1, <3>3
  <2>3. CASE program = "03"
    BY <1>1, <2>3, StartsDiffer DEF Fill!Written, Fill!Container
  <2> QED BY <2>1, <2>2, <2>3 DEF FillInv, FillTypeOK
<1>2. ASSUME fillMain \in {"read", "join", "returned"}
      PROVE  \A s \in Fill!Lambdas : fillAt[s] # "writing"
  BY <1>2 DEF FillInv, MainInv
<1> QED BY <1>1, <1>2 DEF Fill!NoRace

(* A program's first state is one of the promise, *)
LEMMA InitRefines == Fill!Init => Fill!Abstract!PFInit
<1> SUFFICES ASSUME Fill!Init PROVE Fill!Abstract!PFInit
  OBVIOUS
<1>1. ASSUME NEW k \in Fill!Keys PROVE Fill!Values(k) = {}
  BY FillSizes DEF Fill!Init, Fill!Values
<1>2. Fill!Stored = [k \in Fill!Keys |-> {}]
  BY <1>1 DEF Fill!Stored
<1>3. Fill!Result = "nothing" /\ writes = [k \in Fill!Keys |-> 0]
  BY DEF Fill!Init, Fill!Result
<1> QED BY <1>2, <1>3 DEF Fill!Abstract!PFInit

(* and a step of it one that fills in a key, reports, or is none. *)
LEMMA EndWriteFills ==
  ASSUME FillInv, NEW s \in Fill!Lambdas, Fill!EndWrite(s)
  PROVE  Fill!Abstract!Fill(i[s]) /\ i[s] \in Fill!Keys
<1>1. /\ s <= i[s] /\ i[s] < s + CHUNK /\ i[s] \in Nat
      /\ Fill!Container(s) \in 0 .. THREAD_COUNT - 1
      /\ content \in [0 .. THREAD_COUNT - 1 -> [Fill!Keys -> Int]]
      /\ writes \in [Fill!Keys -> Nat]
  BY ContainerOfLambda DEF Fill!EndWrite, FillInv, FillTypeOK, LambdasInv
<1>2. i[s] \in Fill!Keys /\ Block(i[s]) = s
  BY <1>1, KeyOfBlock
<1>3. PICK n \in Fill!Keys : n = i[s]
  BY <1>2
<1>4. PICK c \in 0 .. THREAD_COUNT - 1 : c = Fill!Container(s)
  BY <1>1
<1>5. n \in Nat /\ n # -1
  BY <1>1, <1>3
<1>6. writes[n] = 0 /\ \A d \in 0 .. THREAD_COUNT - 1 : content[d][n] = -1
  BY <1>1, <1>2, <1>3 DEF FillInv, ContentInv
<1>7. writes' = [writes EXCEPT ![n] = 1]
  <2>1. writes' = [writes EXCEPT ![n] = @ + 1]
    BY <1>3 DEF Fill!EndWrite
  <2> QED BY <1>1, <1>6, <2>1
<1>8. content' = [content EXCEPT ![c][n] = n]
  <2>1. content' = [content EXCEPT ![c][n] =
                      IF program = "01" \/ @ = -1 THEN n ELSE @]
    BY <1>3, <1>4 DEF Fill!EndWrite, Fill!Nothing
  <2> QED BY <1>1, <1>6, <2>1
<1>9. /\ DOMAIN content = 0 .. THREAD_COUNT - 1 /\ DOMAIN content' = 0 .. THREAD_COUNT - 1
      /\ \A d \in 0 .. THREAD_COUNT - 1 : content'[d][n] = IF d = c THEN n ELSE -1
      /\ \A d \in 0 .. THREAD_COUNT - 1 : \A k \in Fill!Keys \ {n} :
           content'[d][k] = content[d][k]
  BY <1>1, <1>6, <1>8
<1>10. Fill!Values(n)' = {n}
  BY <1>5, <1>9 DEF Fill!Values, Fill!Nothing
<1>11. ASSUME NEW k \in Fill!Keys, k # n PROVE Fill!Values(k)' = Fill!Values(k)
  BY <1>9, <1>11 DEF Fill!Values, Fill!Nothing
<1>12. Fill!Stored' = [Fill!Stored EXCEPT ![n] = {n}]
  BY <1>10, <1>11 DEF Fill!Stored
<1>13. Fill!Result' = Fill!Result
  BY DEF Fill!EndWrite, Fill!Result, Fill!Whole
<1> QED BY <1>3, <1>6, <1>7, <1>12, <1>13 DEF Fill!Abstract!Fill

LEMMA ReadReports ==
  ASSUME FillInv, Fill!Read PROVE Fill!Abstract!Report
<1>1. /\ \A s \in Fill!Lambdas : fillAt[s] \in {"finished", "exited"}
      /\ fillMain' = "join" /\ UNCHANGED <<program, content, writes>>
      /\ DOMAIN content = 0 .. THREAD_COUNT - 1
  BY DEF Fill!Read, FillInv, FillTypeOK, MainInv
<1>2. \A k \in Fill!Keys : writes[k] = 1 /\ Fill!Stored[k] = {k}
  <2>1. ASSUME NEW k \in Fill!Keys PROVE Fill!Values(k) = {k}
    <3>1. /\ \A c \in 0 .. THREAD_COUNT - 1 :
               content[c][k] = IF c = Fill!Container(Block(k)) THEN k ELSE -1
          /\ Fill!Container(Block(k)) \in 0 .. THREAD_COUNT - 1
      BY <1>1, AllFilled
    <3>2. k # -1
      BY Sizes DEF Fill!Keys
    <3> QED BY <1>1, <3>1, <3>2 DEF Fill!Values, Fill!Nothing
  <2> QED BY <1>1, <2>1, AllFilled DEF Fill!Stored
<1>3. Fill!Result' = "all"
  <2>1. reported' = Fill!Whole' /\ Fill!Whole' # -1
    BY <1>1, ReadStep, Sizes DEF FillInv, MainInv, Fill!Whole
  <2> QED BY <2>1 DEF Fill!Result, Fill!Nothing
<1>4. Fill!Stored' = Fill!Stored
  BY <1>1 DEF Fill!Stored, Fill!Values
<1> QED BY <1>1, <1>2, <1>3, <1>4 DEF Fill!Abstract!Report

LEMMA NextRefines ==
  FillInv /\ (Fill!Next \/ UNCHANGED fillVars) =>
    [Fill!Abstract!PFNext]_<<Fill!Stored, writes, Fill!Result>>
<1> SUFFICES ASSUME FillInv, Fill!Next \/ UNCHANGED fillVars
             PROVE  Fill!Abstract!PFNext \/ UNCHANGED <<Fill!Stored, writes, Fill!Result>>
  OBVIOUS
<1>1. ASSUME UNCHANGED <<program, content, writes, reported>>
      PROVE  UNCHANGED <<Fill!Stored, writes, Fill!Result>>
  BY <1>1 DEF Fill!Stored, Fill!Values, Fill!Result, Fill!Whole
<1>2. ASSUME NEW s \in Fill!Lambdas, Fill!LambdaStep(s)
      PROVE  Fill!Abstract!PFNext \/ UNCHANGED <<program, content, writes, reported>>
  BY <1>2, EndWriteFills
     DEF Fill!LambdaStep, Fill!BeginWrite, Fill!Finish, Fill!Exit, Fill!Abstract!PFNext
<1>3. ASSUME Fill!MainStep
      PROVE  Fill!Abstract!PFNext \/ UNCHANGED <<program, content, writes, reported>>
  BY <1>3, ReadReports
     DEF Fill!MainStep, Fill!Start, Fill!OpenGate, Fill!Wait, Fill!JoinAndFree,
         Fill!Abstract!PFNext
<1>4. Fill!Returned \/ UNCHANGED fillVars => UNCHANGED <<program, content, writes, reported>>
  BY DEF Fill!Returned, Fill!vars, fillVars
<1> QED BY <1>1, <1>2, <1>3, <1>4 DEF Fill!Next

-----------------------------------------------------------------------------
(* 05, the tasks that throw *)

(* What a task that has not returned has left behind, and what main() has of
   it: a task that throws has noted itself once, and main() has caught those of
   the futures it has got that hold an exception.  Tasks are started in order. *)
Caught == {t \in 1 .. got : taskAt[t] = "thrown"}

AsyncTypeOK ==
  /\ taskAt \in [Async!Tasks -> {"none", "draw", "even", "lock", "push", "throw", "thrown"}]
  /\ ids \in Seq(Async!Tasks)
  /\ got \in 0 .. count
  /\ taskMain \in {"start", "get", "read", "returned", "terminated"}

NotesInv ==
  /\ \A t \in Async!Tasks : taskAt[t] = "push" => taskMutex = t
  /\ \A t \in Async!Tasks :
       taskAt[t] \in {"throw", "thrown"} <=> \E n \in 1 .. Len(ids) : ids[n] = t
  /\ \A m, n \in 1 .. Len(ids) : ids[m] = ids[n] => m = n

FuturesInv ==
  /\ \A t \in 1 .. got : taskAt[t] \in {"even", "thrown"}
  /\ caught = Cardinality(Caught)
  /\ taskMain \in {"read", "returned"} => got = count

StartedInv ==
  \E n \in 0 .. count : \A t \in Async!Tasks : taskAt[t] = "none" <=> n < t

AsyncInv == AsyncTypeOK /\ NotesInv /\ FuturesInv /\ StartedInv

LEMMA InitAsync == Async!Init => AsyncInv
<1> SUFFICES ASSUME Async!Init PROVE AsyncInv
  OBVIOUS
<1>1. AsyncTypeOK /\ NotesInv
  BY TaskCount DEF Async!Init, AsyncTypeOK, NotesInv
<1>2. Caught = {}
  BY DEF Async!Init, Caught
<1>3. FuturesInv
  BY <1>2, FS_EmptySet DEF Async!Init, FuturesInv
<1>4. StartedInv
  BY TaskCount DEF Async!Init, StartedInv, Async!Tasks
<1> QED BY <1>1, <1>3, <1>4 DEF AsyncInv

(* A step of a task whose future main() has not got keeps what main() has
   caught. *)
LEMMA CaughtKept ==
  ASSUME AsyncInv, NEW t \in Async!Tasks, taskAt[t] \notin {"even", "thrown"},
         NEW place, taskAt' = [taskAt EXCEPT ![t] = place],
         taskAt[t] # "none" /\ place # "none", UNCHANGED <<got, caught>>,
         taskMain' \in {"read", "returned"} => taskMain \in {"read", "returned"}
  PROVE  FuturesInv' /\ StartedInv'
<1>1. \A u \in 1 .. got : u \in Async!Tasks /\ u # t /\ taskAt'[u] = taskAt[u]
  BY TaskCount DEF AsyncInv, AsyncTypeOK, FuturesInv, Async!Tasks
<1>2. Caught' = Caught
  BY <1>1 DEF Caught
<1>3. \A u \in Async!Tasks : taskAt'[u] = "none" <=> taskAt[u] = "none"
  BY DEF AsyncInv, AsyncTypeOK
<1> QED BY <1>1, <1>2, <1>3 DEF AsyncInv, FuturesInv, StartedInv

LEMMA TaskStepKeeps ==
  ASSUME AsyncInv, NEW t \in Async!Tasks, Async!TaskStep(t) PROVE AsyncInv'
<1> USE DEF AsyncInv, AsyncTypeOK, Async!Goto
<1>1. CASE Async!Draw(t)
  <2>1. FuturesInv' /\ StartedInv'
    BY <1>1, CaughtKept DEF Async!Draw
  <2> QED BY <1>1, <2>1 DEF Async!Draw, NotesInv
<1>2. CASE Async!Lock(t)
  <2>1. FuturesInv' /\ StartedInv'
    BY <1>2, CaughtKept DEF Async!Lock
  <2>2. t # 0 /\ \A u \in Async!Tasks : u # 0
    BY DEF Async!Tasks
  <2> QED BY <1>2, <2>1, <2>2 DEF Async!Lock, NotesInv
<1>3. CASE Async!Push(t)
  <2>1. FuturesInv' /\ StartedInv'
    BY <1>3, CaughtKept DEF Async!Push
  <2>2. /\ taskAt[t] = "push" /\ ids' = Append(ids, t)
        /\ taskAt' = [taskAt EXCEPT ![t] = "throw"]
        /\ UNCHANGED <<got, taskMain>>
    BY <1>3 DEF Async!Push
  <2>3. /\ Len(ids') = Len(ids) + 1 /\ ids' \in Seq(Async!Tasks) /\ Len(ids) \in Nat
        /\ \A n \in 1 .. Len(ids) : ids'[n] = ids[n]
        /\ ids'[Len(ids) + 1] = t
    BY <2>2
  <2>4. \A n \in 1 .. Len(ids) : ids[n] # t
    BY <2>2 DEF NotesInv
  <2>5. \A m, n \in 1 .. Len(ids') : ids'[m] = ids'[n] => m = n
    BY <2>3, <2>4 DEF NotesInv
  <2>6. \A u \in Async!Tasks : taskAt'[u] = "push" => taskMutex' = u
    BY <2>2 DEF NotesInv
  <2>7. ASSUME NEW u \in Async!Tasks
        PROVE  taskAt'[u] \in {"throw", "thrown"} <=> \E n \in 1 .. Len(ids') : ids'[n] = u
    <3>1. CASE u = t
      BY <2>2, <2>3, <3>1
    <3>2. CASE u # t
      <4>1. taskAt'[u] = taskAt[u]
        BY <2>2, <3>2
      <4>2. (\E n \in 1 .. Len(ids') : ids'[n] = u) <=> (\E n \in 1 .. Len(ids) : ids[n] = u)
        BY <2>3, <3>2
      <4> QED BY <4>1, <4>2 DEF NotesInv
    <3> QED BY <3>1, <3>2
  <2>8. NotesInv'
    BY <2>5, <2>6, <2>7 DEF NotesInv
  <2> QED BY <2>1, <2>2, <2>3, <2>8
<1>4. CASE Async!Throw(t)
  <2>1. FuturesInv' /\ StartedInv'
    BY <1>4, CaughtKept DEF Async!Throw
  <2> QED BY <1>4, <2>1 DEF Async!Throw, NotesInv
<1> QED BY <1>1, <1>2, <1>3, <1>4 DEF Async!TaskStep

(* The next task to be started is there, as long as one has not been, and tasks
   are started in order. *)
LEMMA StartKeepsOrder ==
  ASSUME AsyncInv, Async!Start, \E t \in Async!Tasks : taskAt[t] = "none"
  PROVE  /\ StartedInv'
         /\ \E t \in Async!Tasks :
              /\ taskAt[t] = "none" /\ taskAt' = [taskAt EXCEPT ![t] = "draw"]
              /\ UNCHANGED <<taskMutex, ids, got, caught, taskMain>>
<1>1. PICK n \in 0 .. count : \A t \in Async!Tasks : taskAt[t] = "none" <=> n < t
  BY DEF AsyncInv, StartedInv
<1>2. n + 1 \in Async!Tasks /\ \A u \in 1 .. n : u \in Async!Tasks /\ u # n + 1
  BY <1>1, TaskCount DEF Async!Tasks
<1> DEFINE First(t) == taskAt[t] = "none" /\ \A u \in 1 .. t - 1 : taskAt[u] # "none"
<1>3. First(n + 1)
  BY <1>1, <1>2, TaskCount DEF Async!Tasks
<1>4. ASSUME NEW t \in Async!Tasks, First(t) PROVE t = n + 1
  BY <1>1, <1>2, <1>4, TaskCount DEF Async!Tasks
<1>5. (CHOOSE t \in Async!Tasks : First(t)) = n + 1
  <2> HIDE DEF First
  <2> QED BY <1>2, <1>3, <1>4
<1>6. /\ taskAt' = [taskAt EXCEPT ![n + 1] = "draw"]
      /\ UNCHANGED <<taskMutex, ids, got, caught, taskMain>>
  BY <1>5 DEF Async!Start, Async!Goto
<1>7. StartedInv'
  <2>1. n + 1 \in 0 .. count
    BY <1>2, TaskCount DEF Async!Tasks
  <2>2. ASSUME NEW t \in Async!Tasks PROVE taskAt'[t] = "none" <=> n + 1 < t
    BY <1>1, <1>2, <1>6, TaskCount DEF AsyncInv, AsyncTypeOK, Async!Tasks
  <2> QED BY <2>1, <2>2 DEF StartedInv
<1> QED BY <1>2, <1>3, <1>6, <1>7

LEMMA MainStepKeeps ==
  ASSUME AsyncInv, Async!MainStep \/ Async!StartFails PROVE AsyncInv'
<1> USE DEF AsyncInv, AsyncTypeOK, Async!Goto
<1>1. CASE Async!Start
  <2>1. CASE \A t \in Async!Tasks : taskAt[t] # "none"
    <3>1. taskMain' = "get" /\ UNCHANGED <<taskAt, taskMutex, ids, got, caught>>
      BY <1>1, <2>1 DEF Async!Start
    <3>2. Caught' = Caught
      BY <3>1 DEF Caught
    <3> QED BY <3>1, <3>2 DEF NotesInv, FuturesInv, StartedInv
  <2>2. CASE \E t \in Async!Tasks : taskAt[t] = "none"
    <3>1. PICK t \in Async!Tasks :
            /\ taskAt[t] = "none"
            /\ taskAt' = [taskAt EXCEPT ![t] = "draw"]
            /\ UNCHANGED <<taskMutex, ids, got, caught, taskMain>>
      BY <1>1, <2>2, StartKeepsOrder
    <3>2. FuturesInv'
      <4>1. \A u \in 1 .. got : u \in Async!Tasks /\ u # t /\ taskAt'[u] = taskAt[u]
        BY <3>1, TaskCount DEF FuturesInv, Async!Tasks
      <4>2. Caught' = Caught
        BY <3>1, <4>1 DEF Caught
      <4> QED BY <3>1, <4>1, <4>2 DEF FuturesInv
    <3>3. StartedInv'
      BY <1>1, <2>2, StartKeepsOrder
    <3> QED BY <3>1, <3>2, <3>3 DEF NotesInv
  <2> QED BY <2>1, <2>2
<1>2. CASE Async!Get
  <2>1. /\ got < count /\ got' = got + 1 /\ got + 1 \in Async!Tasks
        /\ taskAt[got + 1] \in {"even", "thrown"}
        /\ caught' = IF taskAt[got + 1] = "thrown" THEN caught + 1 ELSE caught
        /\ taskMain = "get" /\ UNCHANGED <<taskAt, taskMutex, ids, taskMain>>
    BY <1>2, TaskCount DEF Async!Get, Async!Tasks
  <2>2. got \in Nat /\ IsFiniteSet(Caught) /\ got + 1 \notin Caught
    <3> DEFINE G == 1 .. got
    <3>1. IsFiniteSet(G) /\ got \in Nat
      BY TaskCount, FS_Interval
    <3>2. Caught \in SUBSET G
      BY DEF Caught
    <3>3. got + 1 \notin G
      BY <3>1
    <3> HIDE DEF G
    <3> QED BY <3>1, <3>2, <3>3, FS_Subset
  <2>3. Caught' = IF taskAt[got + 1] = "thrown" THEN Caught \union {got + 1} ELSE Caught
    <3>1. \A t : t \in 1 .. got + 1 <=> t \in 1 .. got \/ t = got + 1
      BY <2>2
    <3> QED BY <2>1, <3>1 DEF Caught
  <2>4. caught' = Cardinality(Caught')
    <3>1. caught = Cardinality(Caught)
      BY DEF FuturesInv
    <3>2. Cardinality(Caught \union {got + 1}) = Cardinality(Caught) + 1
      BY <2>2, FS_AddElement
    <3> QED BY <2>1, <2>3, <3>1, <3>2
  <2>5. \A t \in 1 .. got' : taskAt'[t] \in {"even", "thrown"}
    BY <2>1, <2>2 DEF FuturesInv
  <2>6. got' \in 0 .. count
    BY <2>1, TaskCount
  <2> QED BY <2>1, <2>4, <2>5, <2>6 DEF NotesInv, FuturesInv, StartedInv
<1>3. CASE Async!Read \/ Async!StartFails
  <2>1. /\ UNCHANGED <<taskAt, taskMutex, ids, got, caught>>
        /\ taskMain' \in {"read", "returned", "terminated"}
        /\ taskMain' \in {"read", "returned"} => got = count
    BY <1>3 DEF Async!Read, Async!StartFails, FuturesInv
  <2>2. Caught' = Caught
    BY <2>1 DEF Caught
  <2> QED BY <2>1, <2>2 DEF NotesInv, FuturesInv, StartedInv
<1> QED BY <1>1, <1>2, <1>3 DEF Async!MainStep

LEMMA NextAsync == AsyncInv /\ (Async!Next \/ UNCHANGED taskVars) => AsyncInv'
<1> SUFFICES ASSUME AsyncInv, Async!Next \/ UNCHANGED taskVars PROVE AsyncInv'
  OBVIOUS
<1>1. ASSUME UNCHANGED taskVars PROVE AsyncInv'
  BY <1>1 DEF taskVars, AsyncInv, AsyncTypeOK, NotesInv, FuturesInv, StartedInv, Caught
<1>2. Async!Over => UNCHANGED taskVars
  BY DEF Async!Over, Async!vars, taskVars
<1> QED BY <1>1, <1>2, TaskStepKeeps, MainStepKeeps DEF Async!Next

LEMMA AsyncDoesNotRace == AsyncInv => Async!NoRace
<1> SUFFICES ASSUME AsyncInv PROVE Async!NoRace
  OBVIOUS
<1>1. \A t, u \in Async!Tasks : taskAt[t] = "push" /\ taskAt[u] = "push" => t = u
  BY DEF AsyncInv, NotesInv
<1>2. ASSUME taskMain = "read", NEW t \in Async!Tasks PROVE taskAt[t] # "push"
  BY <1>2 DEF AsyncInv, FuturesInv, Async!Tasks
<1> QED BY <1>1, <1>2 DEF Async!NoRace

(* At the end the notes are a list of the tasks that main() has caught. *)
LEMMA NotesAreComplete == AsyncInv => ExceptionsAccounted
<1> SUFFICES ASSUME AsyncInv, taskMain \in {"read", "returned"}
             PROVE  /\ Len(ids) = caught
                    /\ \A t \in Async!Tasks :
                         taskAt[t] = "thrown" <=> \E n \in DOMAIN ids : ids[n] = t
  BY DEF ExceptionsAccounted, Async!ExceptionsAccounted
<1>1. \A t \in Async!Tasks : taskAt[t] \in {"even", "thrown"}
  BY DEF AsyncInv, FuturesInv, Async!Tasks
<1>2. Caught = {t \in Async!Tasks : taskAt[t] = "thrown"}
  BY DEF AsyncInv, FuturesInv, Async!Tasks, Caught
<1>3. /\ ids \in Seq(Async!Tasks) /\ DOMAIN ids = 1 .. Len(ids) /\ Len(ids) \in Nat
      /\ ids \in [1 .. Len(ids) -> Async!Tasks]
  BY DEF AsyncInv, AsyncTypeOK
<1>4. \A t \in Async!Tasks : t \in Caught <=> \E n \in 1 .. Len(ids) : ids[n] = t
  BY <1>1, <1>2 DEF AsyncInv, NotesInv
<1>5. Cardinality(Caught) = Len(ids)
  <2> DEFINE D == 1 .. Len(ids)
  <2>1. IsFiniteSet(D) /\ Cardinality(D) = Len(ids)
    BY <1>3, FS_Interval
  <2>2. \A m, n \in D : ids[m] = ids[n] => m = n
    BY DEF AsyncInv, NotesInv
  <2>3. ids \in [D -> Caught]
    BY <1>3, <1>4
  <2>4. \A t \in Caught : \E n \in D : ids[n] = t
    BY <1>2, <1>4
  <2> HIDE DEF D
  <2>5. ids \in Bijection(D, Caught)
    BY <2>2, <2>3, <2>4 DEF Bijection, Injection, Surjection, IsInjective
  <2> QED BY <2>1, <2>5, FS_Bijection DEF ExistsBijection
<1> QED BY <1>2, <1>3, <1>4, <1>5 DEF AsyncInv, FuturesInv

-----------------------------------------------------------------------------
(* The programs side by side: a step of all is a step of one of them, and
   leaves the others alone. *)
LEMMA EachTakesItsSteps ==
  [MCNext]_<<which, vars, fillVars, taskVars>> =>
    /\ [Next]_vars
    /\ Fill!Next \/ UNCHANGED fillVars
    /\ Async!Next \/ UNCHANGED taskVars
BY DEF MCNext

LEMMA FillIsSound == MCSpec => []FillInv
<1>1. MCInit => FillInv
  BY InitFill DEF MCInit
<1>2. FillInv /\ [MCNext]_<<which, vars, fillVars, taskVars>> => FillInv'
  BY NextFill, EachTakesItsSteps
<1> QED BY <1>1, <1>2, PTL DEF MCSpec

LEMMA AsyncIsSound == MCSpec => []AsyncInv
<1>1. MCInit => AsyncInv
  BY InitAsync DEF MCInit
<1>2. AsyncInv /\ [MCNext]_<<which, vars, fillVars, taskVars>> => AsyncInv'
  BY NextAsync, EachTakesItsSteps
<1> QED BY <1>1, <1>2, PTL DEF MCSpec

(* After a stop request at most the number whose push had passed the test of the
   token is pushed, and the queue never holds more than its bound. *)
THEOREM StopsPromptly == MCSpec => []StopIsPrompt
<1>1. MCInit => PromptInv
  BY InitPrompt DEF MCInit
<1>2. PromptInv /\ [MCNext]_<<which, vars, fillVars, taskVars>> => PromptInv'
  BY NextPrompt, EachTakesItsSteps
<1>3. PromptInv => StopIsPrompt
  BY BoundIsNat DEF PromptInv, TypeOK, StopIsPrompt
<1> QED BY <1>1, <1>2, <1>3, PTL DEF MCSpec

(* No two threads of 01, 02, 03 or 05 are at work on the same place, and none
   on what main() reads or frees: 01 and 03 need no mutex, 02 and 05 use theirs
   where they need it. *)
THEOREM NobodyRaces == MCSpec => []NoRace
<1>1. FillInv /\ AsyncInv => NoRace
  BY FillsDoNotRace, AsyncDoesNotRace DEF NoRace
<1> QED BY <1>1, FillIsSound, AsyncIsSound, PTL

(* Every exception of 05 is caught once and its thread noted before main() reads
   the notes. *)
THEOREM NoExceptionIsLost == MCSpec => []ExceptionsAccounted
BY NotesAreComplete, AsyncIsSound, PTL

(* 01, 02 and 03 write every key once and with its own value, whichever lambda
   does it and into whichever container, and report when all are written. *)
THEOREM FillsAsPromised == MCSpec => ImplementsFill
<1>1. MCInit => Fill!Abstract!PFInit
  BY InitRefines DEF MCInit
<1>2. FillInv /\ [MCNext]_<<which, vars, fillVars, taskVars>> =>
        [Fill!Abstract!PFNext]_<<Fill!Stored, writes, Fill!Result>>
  BY NextRefines, EachTakesItsSteps
<1> QED BY <1>1, <1>2, FillIsSound, PTL
     DEF MCSpec, ImplementsFill, Fill!ImplementsFill, Fill!Abstract!PFSpec
=============================================================================
