--------------------------- MODULE SerialGenerator ---------------------------
(***************************************************************************)
(* class SimpleSerialGenerator of 05-coroutine/04_cpp20_serial.cpp and its *)
(* coroutine count_to: objects that own the frame of a suspended coroutine *)
(* through a handle, pass it on by moves and resume it for the next value, *)
(* and an iterator, which points to its generator.  One thread.            *)
(*                                                                         *)
(* Undefined behaviour (a handle that is null or a current_value that is   *)
(* not set, an overflow, an object that is gone) is recorded, and the      *)
(* model goes no further.                                                  *)
(***************************************************************************)
EXTENDS Integers, Sequences, FiniteSets

CONSTANTS
  Objects,   \* the generators a program has room for
  Frames,    \* the frames the heap has room for
  INT_MAX,
  Null       \* no frame, no object

VARIABLES
  handle,    \* each object's handle; of those that exist
  frame,     \* of each frame in use: its place, n, i and current_value
  iterator,  \* the last iterator: its generator and finished
  defined,   \* nothing undefined has happened
  careful,   \* history: the caller has seen to what the class does not see to
  shown      \* history: the values each frame has suspended with

vars == <<handle, frame, iterator, defined, careful, shown>>

Init ==
  /\ handle = <<>> /\ frame = <<>> /\ shown = <<>>
  /\ iterator = [generator |-> Null, finished |-> TRUE]
  /\ defined = TRUE /\ careful = TRUE

Exists(o) == o \in DOMAIN handle
Undefined == defined' = FALSE /\ UNCHANGED <<handle, frame, iterator, shown>>
With(f, x, y) == [z \in DOMAIN f \cup {x} |-> IF z = x THEN y ELSE f[z]]
Without(f, x) == [z \in DOMAIN f \ {x} |-> f[z]]

-----------------------------------------------------------------------------
(* count_to(n): the frame is made, suspends at once, and is handed over. *)
count_to(o, n) ==
  /\ defined /\ ~Exists(o)
  /\ \E f \in Frames \ DOMAIN frame :
       /\ frame' = With(frame, f, [place |-> "initial", n |-> n, i |-> 1, current_value |-> 0])
       /\ handle' = With(handle, o, f)
       /\ shown' = With(shown, f, <<>>)
  /\ careful' = (careful /\ n < INT_MAX)
  /\ UNCHANGED <<iterator, defined>>

Bug_Move(o, other) ==   \* other keeps its handle
  /\ defined /\ ~Exists(o) /\ Exists(other)
  /\ handle' = With(handle, o, handle[other])
  /\ UNCHANGED <<frame, iterator, defined, careful, shown>>

(* The move constructor; copying and assigning are deleted. *)
Move(o, other) ==
  /\ defined /\ ~Exists(o) /\ Exists(other)
  /\ handle' = [With(handle, o, handle[other]) EXCEPT ![other] = Null]
  /\ UNCHANGED <<frame, iterator, defined, careful, shown>>

Destroy(o) ==
  /\ defined /\ Exists(o)
  /\ handle' = Without(handle, o)
  /\ frame' = Without(frame, handle[o])
  /\ shown' = Without(shown, handle[o])
  /\ UNCHANGED <<iterator, defined, careful>>

CanGoOn(o) == Exists(o) /\ handle[o] # Null /\ frame[handle[o]].place # "final"
Overflows(o) ==
  CanGoOn(o) /\ frame[handle[o]].place = "yield" /\ frame[handle[o]].i = INT_MAX

(* handle.resume(): the loop of count_to() up to its co_yield or its end *)
Resumed(r) ==
  LET k == IF r.place = "initial" THEN 1 ELSE r.i + 1
  IN  IF k <= r.n THEN [r EXCEPT !.place = "yield", !.i = k, !.current_value = k]
      ELSE [r EXCEPT !.place = "final", !.i = k]

Bug_Advance(o, more) ==   \* done() is asked for before the resumption only
  LET f == handle[o]
  IN  IF CanGoOn(o)
      THEN /\ frame' = [frame EXCEPT ![f] = Resumed(@)]
           /\ more = TRUE
           /\ shown' = [shown EXCEPT ![f] = Append(@, frame'[f].current_value)]
      ELSE more = FALSE /\ UNCHANGED <<frame, shown>>

(* next() returns more. *)
Advance(o, more) ==
  LET f == handle[o]
  IN  IF CanGoOn(o)
      THEN /\ frame' = [frame EXCEPT ![f] = Resumed(@)]
           /\ more = (frame'[f].place # "final")
           /\ shown' = IF more THEN [shown EXCEPT ![f] = Append(@, frame'[f].current_value)]
                       ELSE shown
      ELSE more = FALSE /\ UNCHANGED <<frame, shown>>

next(o) ==
  /\ defined /\ Exists(o)
  /\ UNCHANGED careful
  /\ \/ Overflows(o) /\ Undefined
     \/ ~Overflows(o) /\ (\E more \in BOOLEAN : Advance(o, more)) /\ UNCHANGED <<handle, iterator, defined>>

(* begin(): the first value is made ready. *)
begin(o) ==
  /\ defined /\ Exists(o)
  /\ UNCHANGED careful
  /\ \/ Overflows(o) /\ Undefined
     \/ /\ ~Overflows(o)
        /\ \E more \in BOOLEAN :
             Advance(o, more) /\ iterator' = [generator |-> o, finished |-> ~more]
        /\ UNCHANGED <<handle, defined>>

(* ++iterator, of a generator that may be gone *)
Increment ==
  LET o == iterator.generator
  IN  /\ defined /\ o # Null
      /\ careful' = (careful /\ Exists(o))
      /\ \/ ~Exists(o) /\ Undefined
         \/ Overflows(o) /\ Undefined
         \/ /\ Exists(o) /\ ~Overflows(o)
            /\ \E more \in BOOLEAN : Advance(o, more) /\ iterator' = [iterator EXCEPT !.finished = ~more]
            /\ UNCHANGED <<handle, defined>>

HasValue(o) == Exists(o) /\ handle[o] # Null /\ frame[handle[o]].current_value # 0

(* value(), or *iterator: the caller asks only when it was told there is one. *)
value(o) ==
  /\ defined /\ (Exists(o) \/ iterator.generator = o)
  /\ careful' = (careful /\ HasValue(o))
  /\ IF HasValue(o) THEN UNCHANGED <<handle, frame, iterator, defined, shown>> ELSE Undefined

Crashed == ~defined /\ UNCHANGED vars

Next ==
  \/ \E o \in Objects :
       \/ \E n \in 0 .. INT_MAX : count_to(o, n)
       \/ \E other \in Objects : Move(o, other)
       \/ Destroy(o) \/ next(o) \/ begin(o) \/ value(o)
  \/ Increment
  \/ Crashed

Spec == Init /\ [][Next]_vars

-----------------------------------------------------------------------------
(* Every frame in use has one owner, which will destroy it, and no handle leads
   to a frame that is gone; and whoever reads values only where there is one,
   keeps the generator as long as its iterator, and counts to less than INT_MAX
   never meets undefined behaviour. *)
FramesHaveOneOwner ==
  /\ \A o \in DOMAIN handle : handle[o] \in DOMAIN frame \cup {Null}
  /\ \A f \in DOMAIN frame : Cardinality({o \in DOMAIN handle : handle[o] = f}) = 1
  /\ careful => defined

(* A frame gives out 1, 2, 3, ..., whichever objects it passes through, none
   twice, and is at its end just when it has given out all: a range-for visits
   each number up to n once. *)
CountsToN ==
  \A f \in DOMAIN frame :
    /\ shown[f] = [k \in 1 .. Len(shown[f]) |-> k]
    /\ Len(shown[f]) <= frame[f].n
    /\ frame[f].place = "final" => Len(shown[f]) = frame[f].n
    /\ frame[f].place = "yield" => Len(shown[f]) = frame[f].current_value
=============================================================================
