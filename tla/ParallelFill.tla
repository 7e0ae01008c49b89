---------------------------- MODULE ParallelFill ----------------------------
(***************************************************************************)
(* What the three filling programs of 03-concurrency promise: every key is *)
(* written once and with its own value, in any order, and the result is    *)
(* reported when all are, as the single thread does it that each of them   *)
(* times first.                                                            *)
(***************************************************************************)
EXTENDS Naturals

CONSTANT Keys

VARIABLES
  stored,    \* the values found under each key
  writes,    \* how often each key was written
  reported   \* "nothing" or "all"

PFInit ==
  /\ stored = [k \in Keys |-> {}]
  /\ writes = [k \in Keys |-> 0]
  /\ reported = "nothing"

(* A second write of a key, be it of the same value, is a step that is not
   allowed. *)
Fill(k) ==
  /\ k \in Keys /\ writes[k] = 0
  /\ writes' = [writes EXCEPT ![k] = 1]
  /\ stored' = [stored EXCEPT ![k] = {k}]
  /\ UNCHANGED reported

Report ==
  /\ \A k \in Keys : writes[k] = 1 /\ stored[k] = {k}
  /\ reported' = "all"
  /\ UNCHANGED <<stored, writes>>

PFNext == (\E k \in Keys : Fill(k)) \/ Report

PFSpec == PFInit /\ [][PFNext]_<<stored, writes, reported>>
=============================================================================
