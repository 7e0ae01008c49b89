-------------------------- MODULE MCJoinedThreads --------------------------
(***************************************************************************)
(* The programs of 03-concurrency that start threads and wait for their    *)
(* end: the stop token (08), the three fills (01, 02, 03) and the tasks    *)
(* that throw (05).  They share nothing: a behaviour is that of one.       *)
(***************************************************************************)
EXTENDS StopToken

CONSTANTS CHUNK, THREAD_COUNT, count

ASSUME FillSizes == CHUNK \in Nat \ {0} /\ THREAD_COUNT \in Nat \ {0}
ASSUME TaskCount == count \in Nat

VARIABLES which, program, fillAt, i, mutex, content, writes, startIdx, fillMain, reported,
          taskAt, taskMutex, ids, got, caught, taskMain

fillVars == <<program, fillAt, i, mutex, content, writes, startIdx, fillMain, reported>>
taskVars == <<taskAt, taskMutex, ids, got, caught, taskMain>>

Fill == INSTANCE FillPrograms WITH at <- fillAt, main <- fillMain
Async == INSTANCE AsyncTasks WITH at <- taskAt, mutex <- taskMutex, main <- taskMain

MCInit == Init /\ Fill!Init /\ Async!Init /\ which \in {"08", "fill", "05"}

MCNext ==
  \/ which = "08" /\ Next /\ UNCHANGED <<which, fillVars, taskVars>>
  \/ which = "fill" /\ Fill!Next /\ UNCHANGED <<which, vars, taskVars>>
  \/ which = "05" /\ Async!Next /\ UNCHANGED <<which, vars, fillVars>>

(* All threads are scheduled, and the sleep in 08's main() ends. *)
MCSpec ==
  /\ MCInit /\ [][MCNext]_<<which, vars, fillVars, taskVars>>
  /\ WF_vars(which = "08" /\ RunStep)
  /\ WF_vars(which = "08" /\ (RequestStop \/ Join))
  /\ \A s \in Fill!Lambdas : WF_fillVars(which = "fill" /\ Fill!LambdaStep(s))
  /\ WF_fillVars(which = "fill" /\ Fill!MainStep)
  /\ \A t \in Async!Tasks : WF_taskVars(which = "05" /\ Async!TaskStep(t))
  /\ WF_taskVars(which = "05" /\ Async!MainStep)

-----------------------------------------------------------------------------
(* What is stated in FillPrograms and AsyncTasks, of the programs here *)
NoRace == Fill!NoRace /\ Async!NoRace
ImplementsFill == Fill!ImplementsFill
ExceptionsAccounted == Async!ExceptionsAccounted

(* Every program ends: each join, get and gate waits for what does come. 05
   may also be terminated, by a std::async that cannot start a thread. *)
AllReturn ==
  <>CASE which = "08" -> main = "returned"
      [] which = "fill" -> fillMain = "returned"
      [] which = "05" -> taskMain \in {"returned", "terminated"}
=============================================================================
