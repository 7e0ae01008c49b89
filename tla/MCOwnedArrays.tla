---------------------------- MODULE MCOwnedArrays ----------------------------
(***************************************************************************)
(* The six classes that hold an array, on a small heap.                    *)
(***************************************************************************)
EXTENDS Naturals, TLC

CONSTANTS Owners, Blocks, NoBlock, MaxCapacity, Payloads

ASSUME NoBlockIsNone == NoBlock \notin Blocks
ASSUME MaxCapacityIsNat == MaxCapacity \in Nat
ASSUME GarbageIsNoPayload == "garbage" \notin Payloads

VARIABLES class, constructed, arrayOf, capacityOf, live, len, val, call, spoilt, fault

Arrays == INSTANCE OwnedArrays WITH
  Objects <- Owners, Null <- NoBlock, Values <- Payloads,
  alive <- constructed, data <- arrayOf, capacity <- capacityOf

ArraysSpec == Arrays!Spec

(* Objects, addresses and contents are told apart by nothing but their names. *)
ArraysSymmetry ==
  Permutations(Owners) \cup Permutations(Blocks) \cup Permutations(Payloads)

-----------------------------------------------------------------------------
(* The properties, stated and explained in OwnedArrays *)
EveryArrayHasOneOwner == Arrays!EveryArrayHasOneOwner
CapacityIsReal == Arrays!CapacityIsReal
FailedAssignmentChangesNothing == Arrays!FailedAssignmentChangesNothing
CallsDoTheirWork == Arrays!CallsDoTheirWork
=============================================================================
