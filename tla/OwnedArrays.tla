----------------------------- MODULE OwnedArrays -----------------------------
(***************************************************************************)
(* Who owns which array, in the six classes of 02-datastructure that hold  *)
(* one: Stack, Queue, FixedDeque, and MyArray in three versions (array.cpp,*)
(* array_cpp14_style.cpp and array_generic_cpp14_style.cpp).               *)
(*                                                                         *)
(* Each of their constructors and assignments is the sequence of its       *)
(* statements, in the order of the code, because an exception out of one   *)
(* of them leaves behind what the ones before it did.  Allocation may      *)
(* throw, and so may the copy of an element of a class template.  The      *)
(* elements of an array are known as one value; the counters of its        *)
(* elements, which move with its capacity, are left out.                   *)
(***************************************************************************)
EXTENDS Naturals, Sequences, FiniteSets

CONSTANTS
  Objects,      \* the variables of the program
  Blocks,       \* the heap's room for arrays
  MaxCapacity,  \* bound: the longest array that is asked for
  Values,       \* the contents of an array
  Null

Garbage == "garbage"   \* what an array holds before it was filled, or in the
                       \* middle of a copy

VARIABLES
  class,          \* the class the program uses
  alive,          \* the objects that are constructed and not destroyed
  data, capacity, \* the members
  live,           \* the arrays that are allocated and not deleted
  len, val,       \* their length and contents
  call,           \* the member function that runs or ran last
  spoilt,         \* a history variable: an exception has left a call that is
                  \* not safe against it
  fault           \* "delete": an array was deleted twice, "access": an array
                  \* was read or written that is not there or too short

heap == <<live, len, val>>
objects == <<alive, data, capacity>>
vars == <<class, objects, heap, call, spoilt, fault>>

-----------------------------------------------------------------------------
(* The classes.  new allocates n elements, take makes the new array the
   object's, members copies the rest of the members, copy the elements; local
   is the Stack of five that the copy constructor of Stack makes and drops. *)

Bug_Stack == [   \* the earlier copy assignment: it deletes first
  construct     |-> <<"test", "new", "take", "members">>,
  copyConstruct |-> <<"new", "take", "members", "copy", "local">>,
  moveConstruct |-> <<"steal", "members", "null other", "empty other">>,
  copyAssign    |-> <<"delete", "new", "take", "members", "copy">>,
  moveAssign    |-> <<"delete", "steal", "members", "null other", "empty other">>]

Stack == [
  construct     |-> <<"test", "new", "take", "members">>,
  copyConstruct |-> <<"new", "take", "members", "copy", "local">>,
  moveConstruct |-> <<"steal", "members", "null other", "empty other">>,
  copyAssign    |-> <<"new", "copy", "delete", "take", "members">>,
  moveAssign    |-> <<"delete", "steal", "members", "null other", "empty other">>]

Queue == [
  construct     |-> <<"new", "take", "members">>,
  copyConstruct |-> <<"new", "take", "members", "copy">>,
  moveConstruct |-> <<"steal", "members", "null other">>,
  copyAssign    |-> <<"delete", "new", "take", "members", "copy">>,
  moveAssign    |-> <<"delete", "steal", "members", "null other">>]

Bug_FixedDeque == [   \* an assignment that does not copy the members
  construct     |-> <<"new", "take", "members", "test">>,
  copyConstruct |-> <<"new", "take", "members", "copy">>,
  moveConstruct |-> <<"steal", "members", "null other", "empty other">>,
  copyAssign    |-> <<"delete", "new", "take", "copy">>,
  moveAssign    |-> <<"delete", "steal", "members", "null other", "empty other">>]

FixedDeque == [
  construct     |-> <<"new", "take", "members", "test">>,
  copyConstruct |-> <<"new", "take", "members", "copy">>,
  moveConstruct |-> <<"steal", "members", "null other", "empty other">>,
  copyAssign    |-> <<"delete", "new", "take", "members", "copy">>,
  moveAssign    |-> <<"delete", "steal", "members", "null other", "empty other">>]

Bug_MyArray == [   \* swapped before it is copied
  construct     |-> <<"new", "take", "members">>,
  copyConstruct |-> <<"new", "take", "members", "copy">>,
  moveConstruct |-> <<"steal", "members", "null other", "empty other">>,
  copyAssign    |-> <<"members", "new", "copy", "swap", "delete temp">>,
  moveAssign    |-> <<"delete", "steal", "members", "null other", "empty other">>]

(* array.cpp: the copy assignment copies and swaps. *)
MyArray == [
  construct     |-> <<"new", "take", "members">>,
  copyConstruct |-> <<"new", "take", "members", "copy">>,
  moveConstruct |-> <<"steal", "members", "null other", "empty other">>,
  copyAssign    |-> <<"new", "copy", "swap", "delete temp">>,
  moveAssign    |-> <<"delete", "steal", "members", "null other", "empty other">>]

(* array_cpp14_style.cpp: data is a unique_ptr; the copy assignment sets size
   before it allocates. *)
MyArray14 == [
  construct     |-> <<"new", "take", "members">>,
  copyConstruct |-> <<"new", "take", "members", "copy">>,
  moveConstruct |-> <<"steal", "members", "empty other">>,
  copyAssign    |-> <<"members", "new", "take", "copy">>,
  moveAssign    |-> <<"members", "steal", "empty other">>]

Bug_my_arr == [   \* the moved-from array keeps its size
  construct     |-> <<"new", "take", "members">>,
  copyConstruct |-> <<"new", "take", "members", "copy">>,
  moveConstruct |-> <<"steal", "members">>,
  copyAssign    |-> <<"new", "take", "members", "copy">>,
  moveAssign    |-> <<"steal", "members">>]

(* array_generic_cpp14_style.cpp: data is a unique_ptr. *)
my_arr == [
  construct     |-> <<"new", "take", "members">>,
  copyConstruct |-> <<"new", "take", "members", "copy">>,
  moveConstruct |-> <<"steal", "members", "empty other">>,
  copyAssign    |-> <<"new", "take", "members", "copy">>,
  moveAssign    |-> <<"steal", "members", "empty other">>]

Classes == [Stack |-> Stack, Queue |-> Queue, FixedDeque |-> FixedDeque,
            MyArray |-> MyArray, MyArray14 |-> MyArray14, my_arr |-> my_arr]

(* data is a unique_ptr: what it pointed at is deleted when it is assigned to,
   moved from it is null, and it is destroyed with a half constructed object. *)
Smart == class \in {"MyArray14", "my_arr"}
(* The classes are templates: the copy of an element may throw. *)
ElementsMayThrow == class \in {"Queue", "FixedDeque", "my_arr"}

(* The calls that do not survive an exception: it comes after an allocation
   that nobody will delete, or after a member was changed. *)
NotSafe == [Stack |-> {"copyConstruct"},
            Queue |-> {"copyConstruct", "copyAssign"},
            FixedDeque |-> {"construct", "copyConstruct", "copyAssign"},
            MyArray |-> {},
            MyArray14 |-> {"copyAssign"},
            my_arr |-> {}]

Constructors == {"construct", "copyConstruct", "moveConstruct"}
Copies == {"copyConstruct", "copyAssign"}
Moves == {"moveConstruct", "moveAssign"}

Init ==
  /\ class \in DOMAIN Classes
  /\ alive = {}
  /\ data = [o \in Objects |-> Null]
  /\ capacity = [o \in Objects |-> 0]
  /\ live = {}
  /\ len = [b \in Blocks |-> 0]
  /\ val = [b \in Blocks |-> Garbage]
  /\ call = [status |-> "none"]
  /\ spoilt = FALSE
  /\ fault = "none"

-----------------------------------------------------------------------------
(* Calls *)

Between == call.status # "running" /\ fault = "none"
Running == call.status = "running" /\ fault = "none"

ContentsOf(b) == IF b \in live THEN val[b] ELSE Null

(* temp is a local variable that holds a new array; before is the history of
   what the object and the other held when the call began. *)
Called(op, self, other, n) ==
  [status |-> "running", op |-> op, self |-> self, other |-> other, n |-> n,
   next |-> 1, temp |-> Null,
   before |-> <<data[self], capacity[self], ContentsOf(data[self])>>,
   source |-> <<data[other], capacity[other], ContentsOf(data[other])>>]

Construct(o, n) ==
  /\ Between
  /\ o \notin alive
  /\ call' = Called("construct", o, o, n)
  /\ data' = [data EXCEPT ![o] = Null]
  /\ capacity' = [capacity EXCEPT ![o] = 0]
  /\ UNCHANGED <<class, alive, heap, spoilt, fault>>

ConstructFrom(op, o, other) ==
  /\ Between
  /\ o \notin alive /\ other \in alive
  /\ call' = Called(op, o, other, capacity[other])
  /\ data' = [data EXCEPT ![o] = Null]
  /\ capacity' = [capacity EXCEPT ![o] = 0]
  /\ UNCHANGED <<class, alive, heap, spoilt, fault>>

(* An assignment to itself changes nothing: every class tests for it, though
   my_arr goes on to copy its elements onto themselves. *)
AssignFrom(op, o, other) ==
  /\ Between
  /\ o \in alive /\ other \in alive \ {o}
  /\ call' = Called(op, o, other, capacity[other])
  /\ UNCHANGED <<class, objects, heap, spoilt, fault>>

(* push, inQueue, offerFirst, operator[]: an element is written at an index the
   class takes for one of its array. *)
Write(o, idx, v) ==
  /\ Between
  /\ o \in alive
  /\ idx < capacity[o]
  /\ IF data[o] \in live /\ idx < len[data[o]]
     THEN val' = [val EXCEPT ![data[o]] = v] /\ UNCHANGED fault
     ELSE fault' = "access" /\ UNCHANGED val
  /\ call' = [status |-> "none"]
  /\ UNCHANGED <<class, objects, live, len, spoilt>>

(* delete[] b *)
Free(b) ==
  IF b \in live \cup {Null} THEN live' = live \ {b} /\ UNCHANGED fault
  ELSE fault' = "delete" /\ UNCHANGED live

Destroy(o) ==
  /\ Between
  /\ o \in alive
  /\ Free(data[o])
  /\ alive' = alive \ {o}
  /\ call' = [status |-> "none"]
  /\ UNCHANGED <<class, data, capacity, len, val, spoilt>>

-----------------------------------------------------------------------------
(* Statements *)

Statements == Classes[class][call.op]
At(statement) == Running /\ Statements[call.next] = statement

(* The end of a statement, with what it leaves in temp and n. *)
GoesOn(temp, n) ==
  IF call.next < Len(Statements)
  THEN /\ call' = [call EXCEPT !.next = @ + 1, !.temp = temp, !.n = n]
       /\ UNCHANGED alive
  ELSE /\ call' = [call EXCEPT !.status = "returned", !.temp = temp, !.n = n]
       /\ alive' = alive \cup {call.self}

(* An exception leaves the function. A constructor's object was never alive:
   only its members are destroyed, and of these only a unique_ptr deletes. *)
Throws ==
  /\ call' = [call EXCEPT !.status = "threw"]
  /\ spoilt' = (spoilt \/ call.op \in NotSafe[class])
  /\ live' = IF Smart /\ call.op \in Constructors
             THEN live \ {data[call.self]} ELSE live
  /\ UNCHANGED alive

Test ==
  /\ At("test")
  /\ \/ call.n = 0 /\ Throws
     \/ call.n > 0 /\ GoesOn(call.temp, call.n) /\ UNCHANGED <<live, spoilt>>
  /\ UNCHANGED <<class, data, capacity, len, val, fault>>

New ==
  /\ At("new")
  /\ \/ \E b \in Blocks \ live :
          /\ live' = live \cup {b}
          /\ len' = [len EXCEPT ![b] = call.n]
          /\ val' = [val EXCEPT ![b] = Garbage]
          /\ GoesOn(b, call.n)
          /\ UNCHANGED spoilt
     \/ Throws /\ UNCHANGED <<len, val>>
  /\ UNCHANGED <<class, data, capacity, fault>>

Take ==
  /\ At("take")
  /\ data' = [data EXCEPT ![call.self] = call.temp]
  /\ IF Smart THEN Free(data[call.self]) ELSE UNCHANGED <<live, fault>>
  /\ GoesOn(Null, call.n)
  /\ UNCHANGED <<class, capacity, len, val, spoilt>>

Local ==
  /\ At("local")
  /\ \/ Throws
     \/ GoesOn(call.temp, call.n) /\ UNCHANGED <<live, spoilt>>
  /\ UNCHANGED <<class, data, capacity, len, val, fault>>

Members ==
  /\ At("members")
  /\ capacity' = [capacity EXCEPT ![call.self] = call.n]
  /\ GoesOn(call.temp, call.n)
  /\ UNCHANGED <<class, data, heap, spoilt, fault>>

(* n elements of the other's array are copied to the new one. *)
Copy ==
  /\ At("copy")
  /\ LET from == data[call.other]
         to == IF call.temp # Null THEN call.temp ELSE data[call.self]
     IN  IF call.n = 0 \/ ({from, to} \subseteq live /\ call.n <= len[from])
         THEN \/ /\ GoesOn(call.temp, call.n)
                 /\ val' = IF call.n = 0 THEN val ELSE [val EXCEPT ![to] = val[from]]
                 /\ UNCHANGED <<live, spoilt, fault>>
              \/ /\ ElementsMayThrow /\ call.n > 0
                 /\ Throws
                 /\ val' = [val EXCEPT ![to] = Garbage]
                 /\ UNCHANGED fault
         ELSE fault' = "access" /\ UNCHANGED <<call, alive, live, val, spoilt>>
  /\ UNCHANGED <<class, data, capacity, len>>

Delete ==
  /\ At("delete")
  /\ Free(data[call.self])
  /\ GoesOn(call.temp, call.n)
  /\ UNCHANGED <<class, data, capacity, len, val, spoilt>>

Swap ==
  /\ At("swap")
  /\ data' = [data EXCEPT ![call.self] = call.temp]
  /\ capacity' = [capacity EXCEPT ![call.self] = call.n]
  /\ GoesOn(data[call.self], capacity[call.self])
  /\ UNCHANGED <<class, heap, spoilt, fault>>

DeleteTemp ==
  /\ At("delete temp")
  /\ Free(call.temp)
  /\ GoesOn(Null, call.n)
  /\ UNCHANGED <<class, data, capacity, len, val, spoilt>>

Steal ==
  /\ At("steal")
  /\ data' = IF Smart
             THEN [data EXCEPT ![call.self] = data[call.other], ![call.other] = Null]
             ELSE [data EXCEPT ![call.self] = data[call.other]]
  /\ IF Smart THEN Free(data[call.self]) ELSE UNCHANGED <<live, fault>>
  /\ GoesOn(call.temp, call.n)
  /\ UNCHANGED <<class, capacity, len, val, spoilt>>

NullOther ==
  /\ At("null other")
  /\ data' = [data EXCEPT ![call.other] = Null]
  /\ GoesOn(call.temp, call.n)
  /\ UNCHANGED <<class, capacity, heap, spoilt, fault>>

EmptyOther ==
  /\ At("empty other")
  /\ capacity' = [capacity EXCEPT ![call.other] = 0]
  /\ GoesOn(call.temp, call.n)
  /\ UNCHANGED <<class, data, heap, spoilt, fault>>

Statement ==
  \/ Test \/ New \/ Take \/ Local \/ Members \/ Copy \/ Delete
  \/ Swap \/ DeleteTemp \/ Steal \/ NullOther \/ EmptyOther

(* Nothing is claimed of the program after undefined behaviour. *)
Faulted == fault # "none" /\ UNCHANGED vars

Next ==
  \/ \E o \in Objects :
       \/ \E n \in 0 .. MaxCapacity : Construct(o, n)
       \/ \E other \in Objects :
            \/ ConstructFrom("copyConstruct", o, other)
            \/ ConstructFrom("moveConstruct", o, other)
            \/ AssignFrom("copyAssign", o, other)
            \/ AssignFrom("moveAssign", o, other)
       \/ \E idx \in 0 .. MaxCapacity - 1, v \in Values : Write(o, idx, v)
       \/ Destroy(o)
  \/ Statement
  \/ Faulted

Spec == Init /\ [][Next]_vars

-----------------------------------------------------------------------------
(* Every array has one owner: no two objects share one, none is forgotten, and
   none is deleted twice, as long as no exception has left a call of NotSafe. *)
EveryArrayHasOneOwner ==
  ~spoilt =>
    /\ fault # "delete"
    /\ call.status # "running" =>
         /\ \A o \in alive : data[o] \in live \cup {Null}
         /\ \A o, p \in alive : data[o] = data[p] => o = p \/ data[o] = Null
         /\ live = {data[o] : o \in alive} \ {Null}

(* An object's capacity is the length of its array, and that of an object that
   was moved from is zero: what the class takes for an index of its array is
   one.  A Queue keeps its capa when its array is taken away. *)
CapacityIsReal ==
  ~spoilt =>
    /\ fault = "access" => class = "Queue"
    /\ call.status # "running" => \A o \in alive :
         IF data[o] # Null THEN capacity[o] = len[data[o]]
         ELSE capacity[o] = 0 \/ class = "Queue"

(* stack.cpp:60 and array.cpp:54: a copy assignment that throws leaves the
   object as it was. *)
FailedAssignmentChangesNothing ==
  /\ class \in {"Stack", "MyArray"}
  /\ call.status = "threw" /\ call.op = "copyAssign"
  => LET o == call.self
     IN  call.before = <<data[o], capacity[o], ContentsOf(data[o])>>

(* A copy holds what the other held, in an array of its own, and a move the
   other's array itself. *)
CallsDoTheirWork ==
  ~spoilt /\ call.status = "returned" /\ call.op # "construct" =>
    LET o == call.self
        other == call.other
    IN  /\ capacity[o] = call.source[2]
        /\ capacity[o] > 0 /\ data[o] # Null => ContentsOf(data[o]) = call.source[3]
        /\ call.op \in Copies =>
             call.source = <<data[other], capacity[other], ContentsOf(data[other])>>
        /\ call.op \in Moves => data[o] = call.source[1] /\ data[other] = Null
=============================================================================
