-------------------------- MODULE AsioProgramsProofs --------------------------
(***************************************************************************)
(* Theorems about the programs of 04-boost_asio and 06-boost-redis, those that   *)
(* run on an io_context of their own and those that talk to others.  The   *)
(* two groups share no variable, and neither do their proofs share more    *)
(* than the lemmas on sequences.                                           *)
(***************************************************************************)
EXTENDS MCAsioPrograms, MCNetwork, SequenceTheorems, FiniteSetTheorems, TLAPS

(* What is in a sequence, and that it is there once *)
Contains(s, x) == \E n \in 1 .. Len(s) : s[n] = x
Distinct(s) == \A m, n \in 1 .. Len(s) : s[m] = s[n] => m = n

LEMMA AtTheBack ==
  ASSUME NEW S, NEW s \in Seq(S), NEW x \in S
  PROVE  /\ Append(s, x) \in Seq(S) /\ Append(s, x) # <<>>
         /\ \A y : Contains(Append(s, x), y) <=> Contains(s, y) \/ y = x
         /\ Distinct(s) /\ ~Contains(s, x) => Distinct(Append(s, x))
<1> DEFINE a == Append(s, x)
<1>1. /\ a \in Seq(S) /\ Len(a) = Len(s) + 1 /\ a[Len(s) + 1] = x
      /\ \A n \in 1 .. Len(s) : a[n] = s[n]
  BY AppendProperties
<1>2. Len(s) \in Nat /\ a # <<>>
  BY <1>1, LenProperties, EmptySeq
<1> HIDE DEF a
<1>3. \A n \in 1 .. Len(a) : n = Len(s) + 1 \/ n \in 1 .. Len(s)
  BY <1>1, <1>2
<1>4. Len(s) + 1 \in 1 .. Len(a) /\ \A n \in 1 .. Len(s) : n \in 1 .. Len(a)
  BY <1>1, <1>2
<1>5. \A y : Contains(a, y) <=> Contains(s, y) \/ y = x
  BY <1>1, <1>3, <1>4 DEF Contains
<1>6. Distinct(s) /\ ~Contains(s, x) => Distinct(a)
  BY <1>1, <1>3 DEF Contains, Distinct
<1> QED BY <1>1, <1>2, <1>5, <1>6 DEF a

LEMMA FromTheFront ==
  ASSUME NEW S, NEW s \in Seq(S), s # <<>>
  PROVE  /\ Head(s) \in S /\ Tail(s) \in Seq(S) /\ Contains(s, Head(s))
         /\ \A y : Contains(s, y) <=> Contains(Tail(s), y) \/ y = Head(s)
         /\ Distinct(s) => Distinct(Tail(s)) /\ ~Contains(Tail(s), Head(s))
<1> DEFINE r == Tail(s)
<1>1. /\ Head(s) = s[1] /\ r \in Seq(S) /\ Len(r) = Len(s) - 1
      /\ \A n \in 1 .. Len(r) : r[n] = s[n + 1]
  BY HeadTailProperties
<1>2. Len(s) \in Nat \ {0} /\ s[1] \in S
  BY LenProperties, EmptySeq, ElementOfSeq
<1> HIDE DEF r
<1>3. /\ \A n \in 1 .. Len(s) : n = 1 \/ n - 1 \in 1 .. Len(r)
      /\ \A n \in 1 .. Len(r) : n + 1 \in 1 .. Len(s) /\ n + 1 # 1 /\ n \in Int
      /\ 1 \in 1 .. Len(s)
  BY <1>1, <1>2
<1>4. \A n \in 1 .. Len(s) : n # 1 => r[n - 1] = s[n]
  BY <1>1, <1>2
<1>5. \A y : Contains(s, y) <=> Contains(r, y) \/ y = Head(s)
  BY <1>1, <1>3, <1>4 DEF Contains
<1>6. Distinct(s) => ~Contains(r, Head(s))
  BY <1>1, <1>3 DEF Contains, Distinct
<1>7. Distinct(s) => Distinct(r)
  <2> SUFFICES ASSUME Distinct(s), NEW m \in 1 .. Len(r), NEW n \in 1 .. Len(r), r[m] = r[n]
               PROVE  m = n
    BY DEF Distinct
  <2>1. m + 1 = n + 1
    BY <1>1, <1>3 DEF Distinct
  <2> QED BY <1>3, <2>1
<1> QED BY <1>1, <1>2, <1>5, <1>6, <1>7 DEF r

LEMMA NothingInEmpty ==
  Distinct(<<>>) /\ \A x : ~Contains(<<>>, x)
  BY DEF Contains, Distinct

LEMMA SomethingInOther ==
  ASSUME NEW S, NEW s \in Seq(S), \A x \in S : ~Contains(s, x)
  PROVE  s = <<>>
<1>1. ASSUME s # <<>> PROVE FALSE
  BY <1>1, FromTheFront
<1> QED BY <1>1

-----------------------------------------------------------------------------
(* handler_with_multithread.cpp: the strand.  It is held by the one runner that
   is inside a handler, or by the completion that goes on with its queue. *)
ContextTypes ==
  /\ ready \in Seq(Handlers \union {Strand}) /\ strandQueue \in Seq(Handlers)
  /\ locked \in BOOLEAN /\ stopped \in BOOLEAN
  /\ at \in [Runners -> {"out", "run", "dispatch", "handler", "returned"}]
  /\ DOMAIN holds = Runners

StrandHeld ==
  /\ \A t, u \in Runners : at[t] = "handler" /\ at[u] = "handler" => t = u
  /\ \A t \in Runners : at[t] = "handler" => locked /\ ~Contains(ready, Strand)
  /\ Contains(ready, Strand) => locked /\ strandQueue # <<>>
  /\ locked => Contains(ready, Strand) \/ \E t \in Runners : at[t] = "handler"
  /\ strandQueue # <<>> => locked

(* A handler is ready, in the strand's queue or held by a runner, and in no
   two of these places. *)
Held(t, h) == at[t] \in {"dispatch", "handler"} /\ holds[t] = h
OnePlaceInContext ==
  /\ Distinct(ready) /\ Distinct(strandQueue)
  /\ \A t \in Runners : at[t] \in {"dispatch", "handler"} => holds[t] \in Handlers
  /\ \A h \in Handlers : Contains(ready, h) => ~Contains(strandQueue, h)
  /\ \A h \in Handlers, t \in Runners :
       Held(t, h) => ~Contains(ready, h) /\ ~Contains(strandQueue, h)
  /\ \A h \in Handlers, t, u \in Runners : Held(t, h) /\ Held(u, h) => t = u

InContext(h) ==
  Contains(ready, h) \/ Contains(strandQueue, h) \/ \E t \in Runners : Held(t, h)

(* No handler comes in or goes after the context has stopped. *)
Stopped ==
  /\ stopped => ready = <<>> /\ \A t \in Runners : at[t] \notin {"dispatch", "handler"}
  /\ \A t \in Runners : at[t] = "returned" => stopped

ContextInv == ContextTypes /\ StrandHeld /\ OnePlaceInContext /\ Stopped

(* Each timer is waited for by its own handler, but for the first waits. *)
WaitsFor(h) ==
  \/ h = "print1" /\ waits["timer1_"] # <<>>
  \/ h = "print2" /\ (waits["timer2_"] # <<>> \/ waits["timer1_"] = <<"print1", "print2">>)

TimersInv ==
  /\ DOMAIN waits = Timers
  /\ waits["timer1_"] \in {<<>>, <<"print1">>, <<"print1", "print2">>}
  /\ waits["timer2_"] \in {<<>>, <<"print2">>}
  /\ waits["timer1_"] = <<"print1", "print2">> => waits["timer2_"] = <<>>
  /\ \A h \in Handlers : WaitsFor(h) => ~InContext(h)
  /\ \A h \in Handlers : ~WaitsFor(h) /\ ~InContext(h) => count_ >= limit
  /\ stopped => \A h \in Handlers : ~WaitsFor(h)

(* The counter and the vector change inside a handler only, one after the other. *)
CountingInv ==
  /\ count_ \in 0 .. limit /\ vec \in Seq(Int)
  /\ step \in [Runners -> {"test", "push", "increment", "wait"}]
  /\ \A t \in Runners : at[t] # "handler" => step[t] = "test"
  /\ \A t \in Runners : step[t] \in {"push", "increment"} => count_ < limit
  /\ SquaresInOrder
  /\ main \in {"join", "returned"}
  /\ main = "returned" => \A t \in Runners : at[t] = "returned"

TwoTimersInv == ContextInv /\ TimersInv /\ CountingInv

LEMMA NoStrandHandler == Strand \notin Handlers /\ \A h \in Handlers : h # Strand
  BY StrandIsNoHandler DEF Handlers

(* run() takes a handler to dispatch, or the strand to go on with its queue. *)
LEMMA TakeMoves ==
  ASSUME ContextInv, NEW t \in Runners, IO!Take(t)
  PROVE  /\ ContextInv'
         /\ \A h \in Handlers : InContext(h)' <=> InContext(h)
         /\ \A u \in Runners : u # t => at'[u] = at[u]
         /\ at[t] = "run" /\ ~stopped /\ UNCHANGED stopped
<1> USE DEF ContextInv
<1>1. /\ at[t] = "run" /\ ~stopped /\ ready # <<>> /\ ready' = Tail(ready)
      /\ UNCHANGED <<locked, stopped>>
  BY DEF IO!Take
<1>2. /\ Head(ready) \in Handlers \union {Strand} /\ ready' \in Seq(Handlers \union {Strand})
      /\ Contains(ready, Head(ready))
      /\ \A y : Contains(ready, y) <=> Contains(ready', y) \/ y = Head(ready)
      /\ Distinct(ready') /\ ~Contains(ready', Head(ready))
  BY <1>1, FromTheFront DEF ContextTypes, OnePlaceInContext
<1>3. CASE Head(ready) = Strand
  <2> DEFINE g == Head(strandQueue)
  <2>1. /\ at' = [at EXCEPT ![t] = "handler"] /\ holds' = [holds EXCEPT ![t] = g]
        /\ strandQueue' = Tail(strandQueue)
    BY <1>3 DEF IO!Take
  <2>2. strandQueue # <<>> /\ locked /\ \A u \in Runners : at[u] # "handler"
    BY <1>2, <1>3 DEF StrandHeld
  <2>3. /\ g \in Handlers /\ strandQueue' \in Seq(Handlers) /\ Contains(strandQueue, g)
        /\ \A y : Contains(strandQueue, y) <=> Contains(strandQueue', y) \/ y = g
        /\ Distinct(strandQueue') /\ ~Contains(strandQueue', g)
    BY <2>1, <2>2, FromTheFront DEF ContextTypes, OnePlaceInContext
  <2> HIDE DEF g
  <2>4. ContextTypes'
    BY <1>1, <1>2, <2>1, <2>3 DEF ContextTypes
  <2>5. /\ at'[t] = "handler" /\ holds'[t] = g
        /\ \A u \in Runners \ {t} : at'[u] = at[u] /\ holds'[u] = holds[u]
    BY <2>1 DEF ContextTypes
  <2>6. StrandHeld'
    BY <1>1, <1>2, <1>3, <2>2, <2>5 DEF StrandHeld
  <2>7. \A h \in Handlers : /\ Contains(ready', h) <=> Contains(ready, h)
                            /\ Contains(strandQueue', h) <=> Contains(strandQueue, h) /\ h # g
                            /\ Held(t, h)' <=> h = g
                            /\ ~Held(t, h)
                            /\ \A u \in Runners \ {t} : Held(u, h)' <=> Held(u, h)
    BY <1>1, <1>2, <1>3, <2>3, <2>5, NoStrandHandler DEF Held
  <2>8. OnePlaceInContext'
    BY <1>2, <2>3, <2>5, <2>7 DEF OnePlaceInContext
  <2>9. Stopped'
    BY <1>1, <2>5 DEF Stopped
  <2>10. \A h \in Handlers : InContext(h)' <=> InContext(h)
    BY <2>3, <2>7 DEF InContext
  <2> QED BY <1>1, <2>4, <2>5, <2>6, <2>8, <2>9, <2>10
<1>4. CASE Head(ready) # Strand
  <2> DEFINE g == Head(ready)
  <2>1. /\ at' = [at EXCEPT ![t] = "dispatch"] /\ holds' = [holds EXCEPT ![t] = g]
        /\ strandQueue' = strandQueue
    BY <1>4 DEF IO!Take
  <2>2. g \in Handlers
    BY <1>2, <1>4
  <2> HIDE DEF g
  <2>3. ContextTypes'
    BY <1>1, <1>2, <2>1 DEF ContextTypes
  <2>4. /\ at'[t] = "dispatch" /\ holds'[t] = g
        /\ \A u \in Runners \ {t} : at'[u] = at[u] /\ holds'[u] = holds[u]
    BY <2>1 DEF ContextTypes
  <2>5. Contains(ready', Strand) <=> Contains(ready, Strand)
    BY <1>2, <1>4
  <2>6. StrandHeld'
    BY <1>1, <2>1, <2>4, <2>5 DEF StrandHeld
  <2>7. \A h \in Handlers : /\ Contains(ready', h) <=> Contains(ready, h) /\ h # g
                            /\ Held(t, h)' <=> h = g
                            /\ ~Held(t, h)
                            /\ \A u \in Runners \ {t} : Held(u, h)' <=> Held(u, h)
    BY <1>1, <1>2, <2>4 DEF Held, g
  <2>8. Contains(ready, g)
    BY <1>2 DEF g
  <2>9. OnePlaceInContext'
    BY <1>2, <2>1, <2>2, <2>4, <2>7, <2>8 DEF OnePlaceInContext
  <2>10. Stopped'
    BY <1>1, <2>4 DEF Stopped
  <2>11. \A h \in Handlers : InContext(h)' <=> InContext(h)
    BY <2>1, <2>2, <2>7, <2>8 DEF InContext
  <2> QED BY <1>1, <2>3, <2>4, <2>6, <2>9, <2>10, <2>11
<1> QED BY <1>3, <1>4

(* A handler bound to the strand runs, or waits in the strand's queue. *)
LEMMA DispatchMoves ==
  ASSUME ContextInv, NEW t \in Runners, IO!DispatchToStrand(t)
  PROVE  /\ ContextInv'
         /\ \A h \in Handlers : InContext(h)' <=> InContext(h)
         /\ \A u \in Runners : u # t => at'[u] = at[u]
         /\ at[t] = "dispatch" /\ UNCHANGED stopped
<1> USE DEF ContextInv
<1> DEFINE g == holds[t]
<1>1. at[t] = "dispatch" /\ g \in Handlers /\ UNCHANGED <<ready, stopped>>
  BY DEF IO!DispatchToStrand, OnePlaceInContext
<1>2. CASE locked
  <2>1. /\ strandQueue' = Append(strandQueue, g) /\ locked' = locked
        /\ at' = [at EXCEPT ![t] = "run"] /\ holds' = [holds EXCEPT ![t] = NoHandler]
    BY <1>2 DEF IO!DispatchToStrand
  <2>2. ~Contains(strandQueue, g)
    BY <1>1 DEF OnePlaceInContext, Held
  <2>3. /\ strandQueue' \in Seq(Handlers) /\ strandQueue' # <<>> /\ Distinct(strandQueue')
        /\ \A y : Contains(strandQueue', y) <=> Contains(strandQueue, y) \/ y = g
    BY <1>1, <2>1, <2>2, AtTheBack DEF ContextTypes, OnePlaceInContext
  <2>4. at'[t] = "run" /\ \A u \in Runners \ {t} : at'[u] = at[u] /\ holds'[u] = holds[u]
    BY <2>1 DEF ContextTypes
  <2>5. ContextTypes'
    BY <1>1, <2>1, <2>3 DEF ContextTypes
  <2>6. StrandHeld'
    BY <1>1, <1>2, <2>1, <2>3, <2>4 DEF StrandHeld
  <2>7. \A h \in Handlers : /\ Held(t, h) <=> h = g
                            /\ ~Held(t, h)'
                            /\ \A u \in Runners \ {t} : Held(u, h)' <=> Held(u, h)
    BY <1>1, <2>4 DEF Held
  <2> HIDE DEF g
  <2>8. OnePlaceInContext'
    BY <1>1, <2>3, <2>4, <2>7 DEF OnePlaceInContext
  <2>9. Stopped'
    BY <1>1, <2>4 DEF Stopped
  <2>10. \A h \in Handlers : InContext(h)' <=> InContext(h)
    BY <1>1, <2>3, <2>7 DEF InContext
  <2> QED BY <1>1, <2>4, <2>5, <2>6, <2>8, <2>9, <2>10
<1>3. CASE ~locked
  <2>1. locked' = TRUE /\ at' = [at EXCEPT ![t] = "handler"] /\ UNCHANGED <<strandQueue, holds>>
    BY <1>3 DEF IO!DispatchToStrand
  <2>2. at'[t] = "handler" /\ \A u \in Runners \ {t} : at'[u] = at[u]
    BY <2>1 DEF ContextTypes
  <2>3. ContextTypes'
    BY <1>1, <2>1 DEF ContextTypes
  <2>4. ~Contains(ready, Strand) /\ \A u \in Runners : at[u] # "handler"
    BY <1>3 DEF StrandHeld
  <2>5. StrandHeld'
    BY <1>1, <2>1, <2>2, <2>4 DEF StrandHeld
  <2>6. \A h \in Handlers, u \in Runners : Held(u, h)' <=> Held(u, h)
    BY <1>1, <2>1, <2>2 DEF Held
  <2>7. OnePlaceInContext'
    BY <1>1, <2>1, <2>2, <2>6 DEF OnePlaceInContext
  <2>8. Stopped'
    BY <1>1, <2>2 DEF Stopped
  <2>9. \A h \in Handlers : InContext(h)' <=> InContext(h)
    BY <1>1, <2>1, <2>6 DEF InContext
  <2> QED BY <1>1, <2>2, <2>3, <2>5, <2>7, <2>8, <2>9
<1> QED BY <1>2, <1>3 DEF ContextTypes

(* The end of a handler, which leaves the context; the next one of the strand
   goes on in the same thread, or in whichever takes the strand. *)
LEMMA ReturnLeaves ==
  ASSUME ContextInv, NEW t \in Runners, at[t] = "handler", IO!HandlerReturns(t, <<>>)
  PROVE  /\ ContextInv'
         /\ \A h \in Handlers : InContext(h)' <=> InContext(h) /\ h # holds[t]
         /\ \A u \in Runners : u # t => at'[u] = at[u]
         /\ at'[t] \in {"run", "handler"} /\ UNCHANGED stopped
<1> USE DEF ContextInv
<1> DEFINE g == holds[t]
<1>1. /\ g \in Handlers /\ locked /\ ~Contains(ready, Strand)
      /\ \A u \in Runners \ {t} : at[u] # "handler"
  BY DEF OnePlaceInContext, StrandHeld
<1>2. stopped' = stopped /\ ~stopped
  BY DEF IO!HandlerReturns, Stopped
<1>3. ready \o <<>> = ready
  BY ConcatEmptySeq DEF ContextTypes
<1>4. \A h \in Handlers : Held(t, h) <=> h = g
  BY DEF Held
<1>5. CASE /\ strandQueue = <<>> /\ locked' = FALSE /\ at' = [at EXCEPT ![t] = "run"]
           /\ holds' = [holds EXCEPT ![t] = NoHandler] /\ UNCHANGED <<ready, strandQueue>>
  <2>1. at'[t] = "run" /\ \A u \in Runners \ {t} : at'[u] = at[u] /\ holds'[u] = holds[u]
    BY <1>5 DEF ContextTypes
  <2>2. \A h \in Handlers : /\ ~Held(t, h)'
                            /\ \A u \in Runners \ {t} : Held(u, h)' <=> Held(u, h)
    BY <2>1 DEF Held
  <2> HIDE DEF g
  <2>3. ContextTypes'
    BY <1>2, <1>5 DEF ContextTypes
  <2>4. StrandHeld'
    BY <1>1, <1>5, <2>1 DEF StrandHeld
  <2>5. OnePlaceInContext'
    BY <1>5, <2>1, <2>2 DEF OnePlaceInContext
  <2>6. Stopped'
    BY <1>2, <2>1 DEF Stopped
  <2>7. \A h \in Handlers : InContext(h)' <=> InContext(h) /\ h # g
    BY <1>1, <1>4, <1>5, <2>2 DEF InContext, OnePlaceInContext
  <2> QED BY <1>2, <2>1, <2>3, <2>4, <2>5, <2>6, <2>7 DEF g
<1>6. CASE /\ strandQueue # <<>> /\ holds' = [holds EXCEPT ![t] = Head(strandQueue)]
           /\ strandQueue' = Tail(strandQueue) /\ UNCHANGED <<ready, locked, at>>
  <2> DEFINE n == Head(strandQueue)
  <2>1. /\ n \in Handlers /\ strandQueue' \in Seq(Handlers) /\ Contains(strandQueue, n)
        /\ \A y : Contains(strandQueue, y) <=> Contains(strandQueue', y) \/ y = n
        /\ Distinct(strandQueue') /\ ~Contains(strandQueue', n)
    BY <1>6, FromTheFront DEF ContextTypes, OnePlaceInContext
  <2>2. holds'[t] = n /\ at' = at /\ \A u \in Runners \ {t} : holds'[u] = holds[u]
    BY <1>6 DEF ContextTypes
  <2> HIDE DEF n, g
  <2>3. \A h \in Handlers : /\ Held(t, h)' <=> h = n
                            /\ \A u \in Runners \ {t} : Held(u, h)' <=> Held(u, h)
    BY <2>2 DEF Held
  <2>4. ContextTypes'
    BY <1>2, <1>6, <2>1 DEF ContextTypes
  <2>5. StrandHeld'
    BY <1>1, <1>6, <2>2 DEF StrandHeld
  <2>6. OnePlaceInContext'
    BY <1>4, <1>6, <2>1, <2>2, <2>3 DEF OnePlaceInContext
  <2>7. Stopped'
    BY <1>2, <2>2 DEF Stopped
  <2>8. \A h \in Handlers : InContext(h)' <=> InContext(h) /\ h # g
    BY <1>1, <1>4, <1>6, <2>1, <2>3 DEF InContext, OnePlaceInContext
  <2> QED BY <1>2, <2>2, <2>4, <2>5, <2>6, <2>7, <2>8 DEF g
<1>7. CASE /\ strandQueue # <<>> /\ at' = [at EXCEPT ![t] = "run"]
           /\ holds' = [holds EXCEPT ![t] = NoHandler] /\ ready' = Append(ready, Strand)
           /\ UNCHANGED <<locked, strandQueue>>
  <2>1. at'[t] = "run" /\ \A u \in Runners \ {t} : at'[u] = at[u] /\ holds'[u] = holds[u]
    BY <1>7 DEF ContextTypes
  <2>2. \A h \in Handlers : /\ ~Held(t, h)'
                            /\ \A u \in Runners \ {t} : Held(u, h)' <=> Held(u, h)
    BY <2>1 DEF Held
  <2>3. /\ ready' \in Seq(Handlers \union {Strand}) /\ Distinct(ready')
        /\ \A y : Contains(ready', y) <=> Contains(ready, y) \/ y = Strand
    BY <1>1, <1>7, AtTheBack DEF ContextTypes, OnePlaceInContext
  <2> HIDE DEF g
  <2>4. ContextTypes'
    BY <1>2, <1>7, <2>3 DEF ContextTypes
  <2>5. StrandHeld'
    BY <1>1, <1>7, <2>1, <2>3 DEF StrandHeld
  <2>6. \A h \in Handlers : Contains(ready', h) <=> Contains(ready, h)
    BY <2>3, NoStrandHandler
  <2>7. OnePlaceInContext'
    BY <1>7, <2>1, <2>2, <2>3, <2>6 DEF OnePlaceInContext
  <2>8. Stopped'
    BY <1>2, <2>1 DEF Stopped
  <2>9. \A h \in Handlers : InContext(h)' <=> InContext(h) /\ h # g
    BY <1>1, <1>4, <1>7, <2>2, <2>6 DEF InContext, OnePlaceInContext
  <2> QED BY <1>2, <2>1, <2>4, <2>5, <2>7, <2>8, <2>9 DEF g
<1> QED BY <1>3, <1>5, <1>6, <1>7 DEF IO!HandlerReturns

-----------------------------------------------------------------------------
(* The timers and the counter *)
LEMMA InitTimers == Init => TwoTimersInv
<1> SUFFICES ASSUME Init PROVE TwoTimersInv
  OBVIOUS
<1>1. /\ ready = <<>> /\ strandQueue = <<>> /\ locked = FALSE /\ stopped = FALSE
      /\ at = [t \in Runners |-> "out"] /\ holds = [t \in Runners |-> NoHandler]
      /\ waits = [timer1_ |-> <<"print1", "print2">>, timer2_ |-> <<>>]
      /\ step = [t \in Runners |-> "test"]
      /\ count_ = 0 /\ vec = <<>> /\ main = "join"
  BY DEF Init, IO!IOInit
<1>2. ContextTypes
  <2>1. ready \in Seq(Handlers \union {Strand}) /\ strandQueue \in Seq(Handlers)
    BY <1>1
  <2>2. /\ at \in [Runners -> {"out", "run", "dispatch", "handler", "returned"}]
        /\ DOMAIN holds = Runners
    BY <1>1
  <2>3. locked \in BOOLEAN /\ stopped \in BOOLEAN
    BY <1>1
  <2> QED BY <2>1, <2>2, <2>3, Zenon DEF ContextTypes
<1>3. StrandHeld /\ OnePlaceInContext /\ Stopped
  BY <1>1, NothingInEmpty DEF StrandHeld, OnePlaceInContext, Stopped, Held
<1>4. \A h \in Handlers : ~InContext(h)
  BY <1>1, NothingInEmpty DEF InContext, Held
<1>5. /\ waits["timer1_"] = <<"print1", "print2">> /\ waits["timer2_"] = <<>>
      /\ DOMAIN waits = Timers /\ waits["timer1_"] # <<>>
  BY <1>1 DEF Timers
<1>6. \A h \in Handlers : WaitsFor(h)
  BY <1>5 DEF WaitsFor, Handlers
<1>7. TimersInv
  BY <1>1, <1>4, <1>5, <1>6 DEF TimersInv
<1>8. SquaresInOrder
  BY <1>1 DEF SquaresInOrder, InHandler
<1>9. CountingInv
  BY <1>1, <1>8, LimitIsNat DEF CountingInv
<1> QED BY <1>2, <1>3, <1>7, <1>9 DEF TwoTimersInv, ContextInv

(* What a step inside the context leaves alone: a runner that is in no handler
   before it and after it. *)
LEMMA CountingRests ==
  ASSUME CountingInv, ContextTypes, NEW t \in Runners,
         UNCHANGED <<step, count_, vec, main>>,
         \A u \in Runners : u # t => at'[u] = at[u],
         at'[t] = "handler" \/ step[t] = "test",
         at[t] # "returned", step[t] # "increment"
  PROVE  CountingInv'
<1>1. \A u \in Runners : InHandler(u, "increment")' <=> InHandler(u, "increment")
  BY DEF InHandler
<1>2. SquaresInOrder'
  BY <1>1 DEF SquaresInOrder, CountingInv
<1> QED BY <1>2 DEF CountingInv

(* A timer expires, the first time for both handlers. *)
LEMMA ExpireKeeps ==
  ASSUME TwoTimersInv, NEW own \in Timers, Expire(own)
  PROVE  TwoTimersInv'
<1> USE DEF TwoTimersInv, ContextInv
<1>1. /\ waits[own] # <<>> /\ ready' = ready \o waits[own]
      /\ waits' = [waits EXCEPT ![own] = <<>>]
      /\ UNCHANGED <<strandQueue, locked, stopped, at, holds, step, count_, vec, main>>
  BY DEF Expire
<1> DEFINE woken == {h \in Handlers : Contains(waits[own], h)}
<1>2. /\ ready' \in Seq(Handlers \union {Strand}) /\ Distinct(ready')
      /\ \A y : Contains(ready', y) <=> Contains(ready, y) \/ y \in woken
      /\ \A h \in Handlers : WaitsFor(h)' <=> WaitsFor(h) /\ h \notin woken
      /\ \A h \in woken : WaitsFor(h)
      /\ waits'["timer1_"] \in {<<>>, <<"print1">>, <<"print1", "print2">>}
      /\ waits'["timer2_"] \in {<<>>, <<"print2">>}
      /\ waits'["timer1_"] = <<"print1", "print2">> => waits'["timer2_"] = <<>>
      /\ woken # {}
  <2>1. \A h \in {"print1", "print2"} : h \in Handlers /\ h \in Handlers \union {Strand}
    BY DEF Handlers
  <2>2. "print1" # "print2" /\ <<"print1">> # <<>> /\ <<"print2">> # <<>>
        /\ <<"print1", "print2">> # <<>> /\ <<"print1">> # <<"print1", "print2">>
    OBVIOUS
  <2>3. DOMAIN waits = {"timer1_", "timer2_"} /\ own \in {"timer1_", "timer2_"}
    BY DEF TimersInv, Timers
  <2>4. ASSUME NEW h \in {"print1", "print2"}, waits[own] = <<h>>
        PROVE  /\ ready' = Append(ready, h) /\ woken = {h}
    <3>1. ready' = Append(ready, h)
      BY <1>1, <2>4 DEF ContextTypes
    <3>2. Len(<<h>>) = 1 /\ <<h>>[1] = h
      OBVIOUS
    <3>3. \A y : Contains(<<h>>, y) <=> y = h
      BY <3>2 DEF Contains
    <3> QED BY <2>1, <2>4, <3>1, <3>3
  <2>5. ASSUME waits[own] = <<"print1", "print2">>
        PROVE  /\ ready' = Append(Append(ready, "print1"), "print2")
               /\ woken = {"print1", "print2"}
    <3>1. ready' = Append(Append(ready, "print1"), "print2")
      BY <1>1, <2>5 DEF ContextTypes
    <3> DEFINE both == <<"print1", "print2">>
    <3>2. Len(both) = 2 /\ both[1] = "print1" /\ both[2] = "print2"
      OBVIOUS
    <3> HIDE DEF both
    <3>3. \A y : Contains(both, y) <=> y \in {"print1", "print2"}
      BY <3>2 DEF Contains
    <3> QED BY <2>1, <2>5, <3>1, <3>3 DEF both, Handlers
  <2>6. CASE own = "timer1_" /\ waits[own] = <<"print1">>
    <3>1. WaitsFor("print1") /\ ~Contains(ready, "print1")
      BY <2>1, <2>2, <2>6 DEF WaitsFor, TimersInv, InContext
    <3>2. ready' = Append(ready, "print1") /\ woken = {"print1"}
      BY <2>4, <2>6
    <3>3. waits'["timer1_"] = <<>> /\ waits'["timer2_"] = waits["timer2_"]
      BY <1>1, <2>3, <2>6
    <3> HIDE DEF woken
    <3>4. /\ ready' \in Seq(Handlers \union {Strand}) /\ Distinct(ready')
          /\ \A y : Contains(ready', y) <=> Contains(ready, y) \/ y \in woken
      BY <2>1, <3>1, <3>2, AtTheBack DEF ContextTypes, OnePlaceInContext
    <3>5. \A h \in Handlers : WaitsFor(h)' <=> WaitsFor(h) /\ h \notin woken
      BY <2>2, <2>6, <3>2, <3>3 DEF WaitsFor, Handlers
    <3> QED BY <2>2, <3>1, <3>2, <3>4, <3>3, <3>5 DEF TimersInv
  <2>7. CASE own = "timer2_" /\ waits[own] = <<"print2">>
    <3>1. WaitsFor("print2") /\ ~Contains(ready, "print2")
      BY <2>1, <2>2, <2>7 DEF WaitsFor, TimersInv, InContext
    <3>2. ready' = Append(ready, "print2") /\ woken = {"print2"}
      BY <2>4, <2>7
    <3>3. waits'["timer2_"] = <<>> /\ waits'["timer1_"] = waits["timer1_"]
      BY <1>1, <2>3, <2>7
    <3> HIDE DEF woken
    <3>4. /\ ready' \in Seq(Handlers \union {Strand}) /\ Distinct(ready')
          /\ \A y : Contains(ready', y) <=> Contains(ready, y) \/ y \in woken
      BY <2>1, <3>1, <3>2, AtTheBack DEF ContextTypes, OnePlaceInContext
    <3>5. waits["timer1_"] # <<"print1", "print2">>
      BY <2>2, <2>7 DEF TimersInv
    <3>6. \A h \in Handlers : WaitsFor(h)' <=> WaitsFor(h) /\ h \notin woken
      BY <2>2, <2>7, <3>2, <3>3, <3>5 DEF WaitsFor, Handlers
    <3> QED BY <2>2, <3>1, <3>2, <3>4, <3>3, <3>5, <3>6 DEF TimersInv
  <2>8. CASE own = "timer1_" /\ waits[own] = <<"print1", "print2">>
    <3>1. /\ WaitsFor("print1") /\ ~Contains(ready, "print1")
          /\ WaitsFor("print2") /\ ~Contains(ready, "print2")
      BY <2>1, <2>2, <2>8 DEF WaitsFor, TimersInv, InContext
    <3> DEFINE one == Append(ready, "print1")
    <3>2. /\ one \in Seq(Handlers \union {Strand}) /\ Distinct(one)
          /\ \A y : Contains(one, y) <=> Contains(ready, y) \/ y = "print1"
      BY <2>1, <3>1, AtTheBack DEF ContextTypes, OnePlaceInContext
    <3> HIDE DEF one
    <3>3. ready' = Append(one, "print2") /\ woken = {"print1", "print2"}
      BY <2>5, <2>8 DEF one
    <3>4. ~Contains(one, "print2")
      BY <2>2, <3>1, <3>2
    <3>5. /\ ready' \in Seq(Handlers \union {Strand}) /\ Distinct(ready')
          /\ \A y : Contains(ready', y) <=> Contains(one, y) \/ y = "print2"
      BY <2>1, <3>2, <3>3, <3>4, AtTheBack
    <3>6. /\ waits'["timer1_"] = <<>> /\ waits'["timer2_"] = waits["timer2_"]
          /\ waits["timer2_"] = <<>>
      BY <1>1, <2>3, <2>8 DEF TimersInv
    <3> HIDE DEF woken
    <3>7. \A h \in Handlers : WaitsFor(h)' <=> WaitsFor(h) /\ h \notin woken
      BY <2>2, <2>8, <3>3, <3>6 DEF WaitsFor, Handlers
    <3> QED BY <2>2, <3>1, <3>2, <3>3, <3>5, <3>6, <3>7 DEF TimersInv
  <2> QED BY <1>1, <2>3, <2>6, <2>7, <2>8 DEF TimersInv
<1>3. woken \subseteq Handlers
  OBVIOUS
<1> HIDE DEF woken
<1>4. \A h \in woken : ~InContext(h)
  BY <1>2, <1>3 DEF TimersInv
<1>5. ContextTypes'
  BY <1>1, <1>2 DEF ContextTypes
<1>6. StrandHeld'
  BY <1>1, <1>2, <1>3, NoStrandHandler DEF StrandHeld
<1>7. \A h \in Handlers, t \in Runners : Held(t, h)' <=> Held(t, h)
  BY <1>1 DEF Held
<1>8. OnePlaceInContext'
  BY <1>1, <1>2, <1>4, <1>7 DEF OnePlaceInContext, InContext
<1>9. ~stopped
  BY <1>2, <1>3 DEF TimersInv
<1>10. Stopped'
  BY <1>1, <1>9 DEF Stopped
<1>11. \A h \in Handlers : InContext(h)' <=> InContext(h) \/ h \in woken
  BY <1>1, <1>2, <1>7 DEF InContext
<1>12. TimersInv'
  BY <1>1, <1>2, <1>9, <1>11 DEF TimersInv
<1>13. CountingInv'
  BY <1>1 DEF CountingInv, SquaresInOrder, InHandler
<1> QED BY <1>5, <1>6, <1>8, <1>10, <1>12, <1>13

(* A step inside the context that brings no handler in and lets none go *)
LEMMA TimersRest ==
  ASSUME TimersInv, UNCHANGED <<waits, count_, stopped>>,
         \A h \in Handlers : InContext(h)' <=> InContext(h)
  PROVE  TimersInv'
  BY DEF TimersInv, WaitsFor

LEMMA RunKeeps ==
  ASSUME TwoTimersInv, NEW t \in Runners, CallRun(t) \/ Take(t) \/ Dispatch(t)
  PROVE  TwoTimersInv'
<1> USE DEF TwoTimersInv
<1>1. UNCHANGED <<waits, step, count_, vec, main>>
  BY DEF CallRun, Take, Dispatch
<1>2. step[t] = "test" /\ ContextTypes
  BY DEF CallRun, Take, Dispatch, IO!CallRun, IO!Take, IO!DispatchToStrand, CountingInv, ContextInv
<1>3. CASE CallRun(t)
  <2>1. /\ at[t] = "out" /\ at' = [at EXCEPT ![t] = "run"]
        /\ UNCHANGED <<ready, strandQueue, locked, stopped, holds>>
    BY <1>3 DEF CallRun, IO!CallRun
  <2>2. at'[t] = "run" /\ \A u \in Runners \ {t} : at'[u] = at[u]
    BY <1>2, <2>1 DEF ContextTypes
  <2>3. \A h \in Handlers, u \in Runners : Held(u, h)' <=> Held(u, h)
    BY <2>1, <2>2 DEF Held
  <2>4. ContextTypes'
    BY <2>1, <1>2 DEF ContextTypes
  <2>5. StrandHeld' /\ OnePlaceInContext' /\ Stopped'
    BY <2>1, <2>2, <2>3 DEF ContextInv, StrandHeld, OnePlaceInContext, Stopped
  <2>6. \A h \in Handlers : InContext(h)' <=> InContext(h)
    BY <2>1, <2>3 DEF InContext
  <2>7. TimersInv'
    BY <1>1, <2>1, <2>6, TimersRest
  <2>8. CountingInv'
    BY <1>1, <1>2, <2>1, <2>2, CountingRests
  <2> QED BY <2>4, <2>5, <2>7, <2>8 DEF ContextInv
<1>4. CASE Take(t)
  <2>1. /\ ContextInv' /\ \A h \in Handlers : InContext(h)' <=> InContext(h)
        /\ \A u \in Runners : u # t => at'[u] = at[u]
        /\ at[t] = "run" /\ UNCHANGED stopped
    BY <1>4, TakeMoves DEF Take
  <2>2. TimersInv' /\ CountingInv'
    BY <1>1, <1>2, <2>1, TimersRest, CountingRests
  <2> QED BY <2>1, <2>2
<1>5. CASE Dispatch(t)
  <2>1. /\ ContextInv' /\ \A h \in Handlers : InContext(h)' <=> InContext(h)
        /\ \A u \in Runners : u # t => at'[u] = at[u]
        /\ at[t] = "dispatch" /\ UNCHANGED stopped
    BY <1>5, DispatchMoves DEF Dispatch
  <2>2. TimersInv' /\ CountingInv'
    BY <1>1, <1>2, <2>1, TimersRest, CountingRests
  <2> QED BY <2>1, <2>2
<1> QED BY <1>3, <1>4, <1>5

LEMMA ContextRests ==
  ASSUME ContextInv, UNCHANGED context
  PROVE  /\ ContextInv' /\ \A h \in Handlers : InContext(h)' <=> InContext(h)
         /\ UNCHANGED stopped
  BY DEF context, ContextInv, ContextTypes, StrandHeld, OnePlaceInContext, Stopped, Held, InContext

(* print1 and print2.  Nobody else is inside a handler. *)
LEMMA PrintTestKeeps ==
  ASSUME TwoTimersInv, NEW t \in Runners, PrintTest(t)
  PROVE  TwoTimersInv'
<1> USE DEF TwoTimersInv
<1>1. at[t] = "handler" /\ step[t] = "test" /\ UNCHANGED <<waits, count_, vec, main>>
  BY DEF PrintTest, InHandler
<1>2. ContextTypes /\ \A u \in Runners \ {t} : at[u] # "handler"
  BY <1>1 DEF ContextInv, StrandHeld
<1>3. CASE count_ < limit /\ step' = [step EXCEPT ![t] = "push"] /\ UNCHANGED context
  <2>1. step'[t] = "push" /\ \A u \in Runners \ {t} : step'[u] = step[u]
    BY <1>3 DEF CountingInv
  <2>2. at' = at
    BY <1>3 DEF context
  <2>3. \A u \in Runners : InHandler(u, "increment")' <=> InHandler(u, "increment")
    BY <1>1, <2>1, <2>2 DEF InHandler
  <2>4. SquaresInOrder'
    BY <1>1, <2>3 DEF SquaresInOrder, CountingInv
  <2>5. CountingInv'
    BY <1>1, <1>3, <2>1, <2>2, <2>4 DEF CountingInv
  <2> QED BY <1>1, <1>3, <2>5, ContextRests, TimersRest
<1>4. CASE count_ >= limit /\ IO!HandlerReturns(t, <<>>) /\ step' = step
  <2>1. /\ ContextInv' /\ UNCHANGED stopped /\ at'[t] \in {"run", "handler"}
        /\ \A h \in Handlers : InContext(h)' <=> InContext(h) /\ h # holds[t]
        /\ \A u \in Runners : u # t => at'[u] = at[u]
    BY <1>1, <1>4, ReturnLeaves
  <2>2. TimersInv'
    BY <1>1, <1>4, <2>1 DEF TimersInv, WaitsFor
  <2>3. CountingInv'
    BY <1>1, <1>2, <1>4, <2>1, CountingRests
  <2> QED BY <2>1, <2>2, <2>3
<1> QED BY <1>3, <1>4 DEF PrintTest

LEMMA PrintPushKeeps ==
  ASSUME TwoTimersInv, NEW t \in Runners, PrintPush(t)
  PROVE  TwoTimersInv'
<1> USE DEF TwoTimersInv
<1>1. /\ at[t] = "handler" /\ step[t] = "push" /\ vec' = Append(vec, count_ * count_)
      /\ step' = [step EXCEPT ![t] = "increment"] /\ at' = at
      /\ UNCHANGED context /\ UNCHANGED <<waits, count_, main>>
  BY DEF PrintPush, InHandler, context
<1>2. \A u \in Runners \ {t} : at[u] # "handler"
  BY <1>1 DEF ContextInv, StrandHeld
<1>3. step'[t] = "increment" /\ \A u \in Runners \ {t} : step'[u] = step[u]
  BY <1>1 DEF CountingInv
<1>4. count_ \in Int /\ vec \in Seq(Int) /\ count_ < limit
  BY <1>1, LimitIsNat DEF CountingInv
<1>5. Len(vec) = count_ /\ \A k \in 1 .. count_ : vec[k] = (k - 1) * (k - 1)
  <2>1. ~\E u \in Runners : InHandler(u, "increment")
    BY <1>1, <1>2 DEF InHandler
  <2> QED BY <1>4, <2>1 DEF CountingInv, SquaresInOrder
<1> DEFINE square == count_ * count_
<1>6. square \in Int /\ square = ((count_ + 1) - 1) * ((count_ + 1) - 1)
  <2>1. (count_ + 1) - 1 = count_
    BY <1>4
  <2> QED BY <1>4, <2>1
<1> DEFINE sq(k) == (k - 1) * (k - 1)
<1> HIDE DEF square, sq
<1>7. /\ vec' \in Seq(Int) /\ Len(vec') = count_ + 1 /\ vec'[count_ + 1] = sq(count_ + 1)
      /\ \A k \in 1 .. count_ : vec'[k] = vec[k]
  <2>1. vec' = Append(vec, square) /\ square = sq(count_ + 1)
    BY <1>1, <1>6 DEF square, sq
  <2> QED BY <1>4, <1>5, <1>6, <2>1, AppendProperties
<1>8. \A k \in 1 .. count_ : vec[k] = sq(k)
  BY <1>5 DEF sq
<1>9. \A k \in DOMAIN vec' : vec'[k] = sq(k)
  <2>1. DOMAIN vec' = 1 .. count_ + 1 /\ \A k \in 1 .. count_ + 1 : k = count_ + 1 \/ k \in 1 .. count_
    BY <1>4, <1>7
  <2> QED BY <1>7, <1>8, <2>1
<1>10. SquaresInOrder'
  <2>1. InHandler(t, "increment")'
    BY <1>1, <1>3 DEF InHandler
  <2>2. \A k \in DOMAIN vec' : vec'[k] = (k - 1) * (k - 1)
    BY <1>9 DEF sq
  <2> QED BY <1>1, <1>7, <2>1, <2>2 DEF SquaresInOrder
<1>11. CountingInv'
  BY <1>1, <1>3, <1>4, <1>7, <1>10 DEF CountingInv
<1> QED BY <1>1, <1>11, ContextRests, TimersRest

LEMMA PrintIncrementKeeps ==
  ASSUME TwoTimersInv, NEW t \in Runners, PrintIncrement(t)
  PROVE  TwoTimersInv'
<1> USE DEF TwoTimersInv
<1>1. /\ at[t] = "handler" /\ step[t] = "increment" /\ count_' = count_ + 1
      /\ step' = [step EXCEPT ![t] = "wait"] /\ at' = at /\ holds' = holds
      /\ UNCHANGED context /\ UNCHANGED <<waits, vec, main>>
  BY DEF PrintIncrement, InHandler, context
<1>2. \A u \in Runners \ {t} : at[u] # "handler"
  BY <1>1 DEF ContextInv, StrandHeld
<1>3. step'[t] = "wait" /\ \A u \in Runners \ {t} : step'[u] = step[u]
  BY <1>1 DEF CountingInv
<1>4. count_ \in 0 .. limit /\ count_ < limit /\ Len(vec) = count_ + 1
  <2>1. InHandler(t, "increment")
    BY <1>1 DEF InHandler
  <2> QED BY <1>1, <2>1 DEF CountingInv, SquaresInOrder
<1>5. \A u \in Runners : ~InHandler(u, "increment")'
  BY <1>1, <1>2, <1>3 DEF InHandler
<1>6. SquaresInOrder'
  BY <1>1, <1>4, <1>5 DEF CountingInv, SquaresInOrder
<1>7. CountingInv'
  <2>1. \A u \in Runners \ {t} : step[u] = "test"
    BY <1>2 DEF CountingInv
  <2> QED BY <1>1, <1>3, <1>4, <1>6, <2>1, LimitIsNat DEF CountingInv
<1>8. ContextInv' /\ \A h \in Handlers : InContext(h)' <=> InContext(h)
  BY <1>1, ContextRests
<1>9. TimersInv'
  <2>1. \E h \in Handlers : InContext(h)
    BY <1>1 DEF ContextInv, OnePlaceInContext, InContext, Held
  <2>2. stopped' = stopped
    BY <1>1 DEF context
  <2>3. \A h \in Handlers : ~WaitsFor(h) /\ ~InContext(h) => count_ >= limit
    BY DEF TimersInv
  <2>4. \A h \in Handlers : ~WaitsFor(h)' /\ ~InContext(h)' => count_' >= limit
    BY <1>1, <1>4, <1>8, <2>3, LimitIsNat DEF WaitsFor
  <2>5. \A h \in Handlers : WaitsFor(h)' <=> WaitsFor(h)
    BY <1>1 DEF WaitsFor
  <2> QED BY <1>1, <1>8, <2>2, <2>4, <2>5 DEF TimersInv
<1> QED BY <1>7, <1>8, <1>9

(* Whoever waits for a timer again is the only one to wait for it. *)
LEMMA NobodyElseWaits ==
  ASSUME TwoTimersInv, NEW t \in Runners, InHandler(t, "wait")
  PROVE  /\ waits[TimerOf(holds[t])] = <<>> /\ holds[t] \in Handlers
         /\ InContext(holds[t]) /\ ~WaitsFor(holds[t])
<1>1. holds[t] \in Handlers /\ InContext(holds[t])
  BY DEF TwoTimersInv, ContextInv, OnePlaceInContext, InHandler, InContext, Held
<1>2. ~WaitsFor(holds[t])
  BY <1>1 DEF TwoTimersInv, TimersInv
<1>3. <<"print1", "print2">> # <<>>
  OBVIOUS
<1> QED BY <1>1, <1>2, <1>3 DEF WaitsFor, TimerOf, Handlers

LEMMA PrintWaitKeeps ==
  ASSUME TwoTimersInv, NEW t \in Runners, PrintWait(t)
  PROVE  TwoTimersInv'
<1> USE DEF TwoTimersInv
<1> DEFINE g == holds[t]  own == TimerOf(holds[t])
<1>1. /\ InHandler(t, "wait") /\ at[t] = "handler" /\ step[t] = "wait"
      /\ waits' = [waits EXCEPT ![own] = <<g>>]
      /\ step' = [step EXCEPT ![t] = "test"]
      /\ IO!HandlerReturns(t, waits[own])
      /\ UNCHANGED <<count_, vec, main>>
  BY DEF PrintWait, InHandler
<1>2. waits[own] = <<>> /\ g \in Handlers /\ InContext(g) /\ ~WaitsFor(g)
  BY <1>1, NobodyElseWaits
<1>3. /\ ContextInv' /\ UNCHANGED stopped /\ at'[t] \in {"run", "handler"}
      /\ \A h \in Handlers : InContext(h)' <=> InContext(h) /\ h # g
      /\ \A u \in Runners : u # t => at'[u] = at[u]
  <2>1. IO!HandlerReturns(t, <<>>)
    BY <1>1, <1>2
  <2> QED BY <1>1, <2>1, ReturnLeaves
<1>4. /\ waits'["timer1_"] \in {<<>>, <<"print1">>, <<"print1", "print2">>}
      /\ waits'["timer2_"] \in {<<>>, <<"print2">>}
      /\ waits'["timer1_"] = <<"print1", "print2">> => waits'["timer2_"] = <<>>
      /\ DOMAIN waits' = Timers
      /\ \A h \in Handlers : WaitsFor(h)' <=> WaitsFor(h) \/ h = g
  <2>1. "print1" # "print2" /\ <<"print1">> # <<>> /\ <<"print2">> # <<>>
        /\ <<"print1", "print2">> # <<>> /\ <<"print1">> # <<"print1", "print2">>
    OBVIOUS
  <2>2. CASE g = "print1"
    <3>1. waits'["timer1_"] = <<"print1">> /\ waits'["timer2_"] = waits["timer2_"]
          /\ waits["timer1_"] = <<>> /\ DOMAIN waits' = Timers
      BY <1>1, <1>2, <2>2 DEF TimerOf, TimersInv, Timers
    <3> QED BY <2>1, <2>2, <3>1 DEF WaitsFor, Handlers, TimersInv
  <2>3. CASE g = "print2"
    <3>1. waits'["timer2_"] = <<"print2">> /\ waits'["timer1_"] = waits["timer1_"]
          /\ waits["timer2_"] = <<>> /\ DOMAIN waits' = Timers
      BY <1>1, <1>2, <2>1, <2>3 DEF TimerOf, TimersInv, Timers
    <3>2. waits["timer1_"] # <<"print1", "print2">>
      BY <1>2, <2>3 DEF WaitsFor
    <3> QED BY <2>1, <2>3, <3>1, <3>2 DEF WaitsFor, Handlers, TimersInv
  <2> QED BY <1>2, <2>2, <2>3 DEF Handlers
<1>5. ~stopped
  BY <1>1 DEF ContextInv, Stopped
<1>6. TimersInv'
  BY <1>1, <1>2, <1>3, <1>4, <1>5 DEF TimersInv
<1>7. \A u \in Runners \ {t} : at[u] # "handler"
  BY <1>1 DEF ContextInv, StrandHeld
<1>8. step'[t] = "test" /\ \A u \in Runners \ {t} : step'[u] = step[u]
  BY <1>1 DEF CountingInv
<1>9. \A u \in Runners : ~InHandler(u, "increment") /\ ~InHandler(u, "increment")'
  BY <1>1, <1>3, <1>7, <1>8 DEF InHandler
<1>10. SquaresInOrder'
  BY <1>1, <1>9 DEF CountingInv, SquaresInOrder
<1>11. CountingInv'
  BY <1>1, <1>3, <1>8, <1>10 DEF CountingInv
<1> QED BY <1>3, <1>6, <1>11

LEMMA ReturnFromRunKeeps ==
  ASSUME TwoTimersInv, NEW t \in Runners, ReturnFromRun(t)
  PROVE  TwoTimersInv'
<1> USE DEF TwoTimersInv
<1>1. /\ at[t] = "run" /\ stopped' = TRUE /\ at' = [at EXCEPT ![t] = "returned"]
      /\ UNCHANGED <<ready, strandQueue, locked, holds, waits, step, count_, vec, main>>
      /\ \/ stopped
         \/ /\ ready = <<>> /\ \A own \in Timers : waits[own] = <<>>
            /\ \A u \in Runners : at[u] \notin {"dispatch", "handler"}
  BY DEF ReturnFromRun, IO!ReturnFromRun
<1>2. at'[t] = "returned" /\ \A u \in Runners \ {t} : at'[u] = at[u]
  BY <1>1 DEF ContextInv, ContextTypes
<1>3. /\ ready = <<>> /\ \A u \in Runners : at[u] \notin {"dispatch", "handler"}
      /\ \A h \in Handlers : ~WaitsFor(h)
  <2>1. <<"print1", "print2">> # <<>>
    OBVIOUS
  <2>2. CASE \A own \in Timers : waits[own] = <<>>
    BY <1>1, <2>1, <2>2 DEF WaitsFor, Timers, Stopped, ContextInv
  <2>3. CASE stopped
    BY <2>3 DEF Stopped, ContextInv, TimersInv
  <2> QED BY <1>1, <2>2, <2>3
<1>4. \A h \in Handlers, u \in Runners : Held(u, h)' <=> Held(u, h)
  BY <1>1, <1>2 DEF Held
<1>5. ContextTypes'
  BY <1>1 DEF ContextInv, ContextTypes
<1>6. StrandHeld' /\ OnePlaceInContext' /\ Stopped'
  BY <1>1, <1>2, <1>3, <1>4 DEF ContextInv, StrandHeld, OnePlaceInContext, Stopped
<1>7. \A h \in Handlers : InContext(h)' <=> InContext(h)
  BY <1>1, <1>4 DEF InContext
<1>8. TimersInv'
  BY <1>1, <1>3, <1>7 DEF TimersInv, WaitsFor
<1>9. \A u \in Runners : InHandler(u, "increment")' <=> InHandler(u, "increment")
  BY <1>1, <1>2 DEF InHandler
<1>10. SquaresInOrder'
  BY <1>1, <1>9 DEF CountingInv, SquaresInOrder
<1>11. CountingInv'
  BY <1>1, <1>2, <1>10 DEF CountingInv
<1> QED BY <1>5, <1>6, <1>8, <1>11 DEF ContextInv

LEMMA TwoTimersSteps ==
  ASSUME TwoTimersInv, [Next]_vars
  PROVE  TwoTimersInv'
<1> USE DEF TwoTimersInv
<1>1. CASE UNCHANGED vars
  <2>1. UNCHANGED context /\ UNCHANGED <<waits, step, count_, vec, main, at>>
    BY <1>1 DEF vars, context
  <2>2. CountingInv'
    BY <2>1 DEF CountingInv, SquaresInOrder, InHandler
  <2> QED BY <2>1, <2>2, ContextRests, TimersRest
<1>2. CASE Join
  <2>1. /\ UNCHANGED context /\ UNCHANGED <<waits, step, count_, vec, at>>
        /\ main' = "returned" /\ \A t \in Runners : at[t] = "returned"
    BY <1>2 DEF Join, context
  <2>2. CountingInv'
    BY <2>1 DEF CountingInv, SquaresInOrder, InHandler
  <2> QED BY <2>1, <2>2, ContextRests, TimersRest
<1>3. ASSUME NEW own \in Timers, Expire(own) PROVE TwoTimersInv'
  BY <1>3, ExpireKeeps
<1>4. ASSUME NEW t \in Runners, RunnerStep(t) PROVE TwoTimersInv'
  BY <1>4, RunKeeps, PrintTestKeeps, PrintPushKeeps, PrintIncrementKeeps, PrintWaitKeeps,
     ReturnFromRunKeeps DEF RunnerStep
<1> QED BY <1>1, <1>2, <1>3, <1>4 DEF Next, Returned

(* At the end nothing is left anywhere, and so the counter has met its limit. *)
LEMMA TimersEnd ==
  ASSUME TwoTimersInv
  PROVE  CompleteAtReturn
<1> SUFFICES ASSUME main = "returned"
             PROVE  /\ count_ = limit /\ strandQueue = <<>> /\ ready = <<>> /\ ~locked
                    /\ \A own \in Timers : waits[own] = <<>>
  BY DEF CompleteAtReturn
<1> USE DEF TwoTimersInv, ContextInv
<1>1. stopped /\ \A t \in Runners : at[t] = "returned"
  BY SomeRunners DEF CountingInv, Stopped
<1>2. /\ ready = <<>> /\ \A h \in Handlers : ~WaitsFor(h)
      /\ \A t \in Runners : at[t] \notin {"dispatch", "handler"}
  BY <1>1 DEF Stopped, TimersInv
<1>3. ~locked /\ strandQueue = <<>>
  BY <1>1, <1>2, NothingInEmpty DEF StrandHeld
<1>4. \A h \in Handlers : ~InContext(h)
  BY <1>2, <1>3, NothingInEmpty DEF InContext, Held
<1>5. count_ >= limit /\ count_ \in 0 .. limit
  BY <1>2, <1>4 DEF TimersInv, CountingInv, Handlers
<1>6. waits["timer1_"] = <<>> /\ waits["timer2_"] = <<>>
  BY <1>2 DEF WaitsFor, Handlers
<1> QED BY <1>2, <1>3, <1>5, <1>6, LimitIsNat DEF Timers

-----------------------------------------------------------------------------
(* strand.cpp: every post that was made is counted, in the strand's queue, or in
   the handler that runs. *)
PostsMade == {p \in Runners \X (1 .. posts) : p[2] <= posted[p[1]]}
Handling == IF at["main"] = "handler" THEN 1 ELSE 0

StrandTypes ==
  /\ ready \in {<<>>, <<Strand>>} /\ strandQueue \in Seq({"increment"})
  /\ locked \in BOOLEAN /\ stopped \in BOOLEAN
  /\ at \in [{"main"} -> {"out", "run", "handler", "returned"}]
  /\ DOMAIN holds = {"main"}
  /\ posted \in [Runners -> 0 .. posts] /\ count_ \in Nat
  /\ main \in {"join", "run", "returned"}

StrandInOrder ==
  /\ locked <=> ready = <<Strand>> \/ at["main"] = "handler"
  /\ ~(ready = <<Strand>> /\ at["main"] = "handler")
  /\ strandQueue # <<>> => locked
  /\ ready = <<Strand>> => strandQueue # <<>>
  /\ stopped => at["main"] = "returned"
  /\ at["main"] = "returned" => ready = <<>>
  /\ main = "join" <=> at["main"] = "out"
  /\ main = "returned" <=> at["main"] = "returned"
  /\ main # "join" => \A t \in Runners : posted[t] = posts

NoPostIsLost == Cardinality(PostsMade) = count_ + Len(strandQueue) + Handling

StrandInv == StrandTypes /\ StrandInOrder /\ NoPostIsLost

LEMMA OneOrNone ==
  ASSUME NEW x
  PROVE  /\ <<x>> # <<>> /\ Head(<<x>>) = x /\ Tail(<<x>>) = <<>> /\ Append(<<>>, x) = <<x>>
         /\ <<>> \o <<>> = <<>>
  OBVIOUS

LEMMA CountedPosts == IsFiniteSet(PostsMade) /\ Cardinality(PostsMade) \in Nat
<1> DEFINE each == 1 .. posts
<1>0. IsFiniteSet(each)
  BY PostsIsNat, FS_Interval
<1> HIDE DEF each
<1>1. IsFiniteSet(Runners \X each)
  BY <1>0, SomeRunners, FS_Product
<1>2. PostsMade \subseteq Runners \X each
  BY DEF PostsMade, each
<1> QED BY <1>1, <1>2, FS_Subset, FS_CardinalityType

LEMMA InitStrand == Counter!Init => StrandInv
<1> SUFFICES ASSUME Counter!Init PROVE StrandInv
  OBVIOUS
<1>1. /\ ready = <<>> /\ strandQueue = <<>> /\ locked = FALSE /\ stopped = FALSE
      /\ at = [t \in {"main"} |-> "out"] /\ holds = [t \in {"main"} |-> NoHandler]
      /\ posted = [t \in Runners |-> 0] /\ count_ = 0 /\ main = "join"
  BY DEF Counter!Init, Counter!IO!IOInit
<1>2. strandQueue \in Seq({"increment"}) /\ Len(strandQueue) = 0
  BY <1>1
<1>3. StrandTypes
  <2>1. posted \in [Runners -> 0 .. posts] /\ count_ \in Nat
    BY <1>1, PostsIsNat
  <2>2. /\ at \in [{"main"} -> {"out", "run", "handler", "returned"}]
        /\ DOMAIN holds = {"main"}
    BY <1>1
  <2>3. /\ ready \in {<<>>, <<Strand>>} /\ locked \in BOOLEAN /\ stopped \in BOOLEAN
        /\ main \in {"join", "run", "returned"}
    BY <1>1
  <2> QED BY <1>2, <2>1, <2>2, <2>3, Zenon DEF StrandTypes
<1>4. StrandInOrder
  BY <1>1, OneOrNone DEF StrandInOrder
<1>5. NoPostIsLost
  <2>1. PostsMade = {}
    BY <1>1 DEF PostsMade
  <2> QED BY <1>1, <1>2, <2>1, FS_EmptySet DEF NoPostIsLost, Handling
<1> QED BY <1>3, <1>4, <1>5 DEF StrandInv

LEMMA IncrementKeeps ==
  ASSUME StrandInv, NEW t \in Runners, Counter!increment(t)
  PROVE  StrandInv'
<1> USE DEF StrandInv
<1>1. /\ posted[t] < posts /\ posted' = [posted EXCEPT ![t] = @ + 1]
      /\ strandQueue' = Append(strandQueue, "increment") /\ locked' = TRUE
      /\ ready' = IF locked THEN ready ELSE Append(ready, Strand)
      /\ UNCHANGED <<stopped, at, holds, count_, main>>
  BY DEF Counter!increment, Counter!IO!PostToStrand
<1>2. main = "join" /\ at["main"] = "out"
  BY <1>1, PostsIsNat DEF StrandInOrder, StrandTypes
<1>3. ready' = <<Strand>>
  BY <1>1, <1>2, OneOrNone DEF StrandInOrder, StrandTypes
<1>4. /\ strandQueue' \in Seq({"increment"}) /\ strandQueue' # <<>>
      /\ Len(strandQueue') = Len(strandQueue) + 1 /\ Len(strandQueue) \in Nat
  <2>1. strandQueue \in Seq({"increment"}) /\ "increment" \in {"increment"}
    BY DEF StrandTypes
  <2> QED BY <1>1, <2>1, AtTheBack, AppendProperties, LenProperties
<1>5. posted' \in [Runners -> 0 .. posts]
  BY <1>1, PostsIsNat DEF StrandTypes
<1>6. StrandTypes'
  BY <1>1, <1>3, <1>4, <1>5 DEF StrandTypes
<1>7. StrandInOrder'
  BY <1>1, <1>2, <1>3, <1>4, OneOrNone DEF StrandInOrder
<1>8. Cardinality(PostsMade') = Cardinality(PostsMade) + 1
  <2> DEFINE new == <<t, posted[t] + 1>>
  <2>1. posted[t] + 1 \in 1 .. posts /\ posted[t] \in Nat /\ posts \in Int
    BY <1>1, PostsIsNat DEF StrandTypes
  <2>2. new \in Runners \X (1 .. posts) /\ new \notin PostsMade /\ new[1] = t /\ new[2] = posted[t] + 1
    BY <2>1 DEF PostsMade
  <2>3. ASSUME NEW p \in Runners \X (1 .. posts)
        PROVE  p[2] <= posted'[p[1]] <=> p[2] <= posted[p[1]] \/ p = new
    <3>1. p[1] \in Runners /\ p[2] \in Int /\ p = <<p[1], p[2]>>
      OBVIOUS
    <3>2. CASE p[1] = t
      <4>1. posted'[p[1]] = posted[t] + 1
        BY <1>1, <3>2 DEF StrandTypes
      <4> QED BY <2>1, <2>2, <3>1, <3>2, <4>1
    <3>3. CASE p[1] # t
      <4>1. posted'[p[1]] = posted[p[1]]
        BY <1>1, <3>1, <3>3 DEF StrandTypes
      <4> QED BY <2>2, <3>3, <4>1
    <3> QED BY <3>2, <3>3
  <2> HIDE DEF new
  <2>4. PostsMade' = PostsMade \union {new}
    BY <2>2, <2>3 DEF PostsMade
  <2>5. IsFiniteSet(PostsMade) /\ Cardinality(PostsMade) \in Nat
    BY CountedPosts
  <2> QED BY <2>2, <2>4, <2>5, FS_AddElement
<1>9. NoPostIsLost'
  <2>1. Cardinality(PostsMade) \in Nat /\ count_ \in Nat /\ Handling = 0 /\ Handling' = 0
    BY <1>1, <1>2, CountedPosts DEF StrandTypes, Handling
  <2> QED BY <1>1, <1>4, <1>8, <2>1 DEF NoPostIsLost
<1> QED BY <1>6, <1>7, <1>9

LEMMA HandleKeeps ==
  ASSUME StrandInv, Counter!Handle
  PROVE  StrandInv'
<1> USE DEF StrandInv
<1>1. /\ at["main"] = "handler" /\ count_' = count_ + 1 /\ stopped' = stopped
      /\ Counter!IO!HandlerReturns("main", <<>>) /\ UNCHANGED <<posted, main>>
  BY DEF Counter!Handle, Counter!IO!HandlerReturns
<1>2. locked /\ ready = <<>> /\ ~stopped
  BY <1>1 DEF StrandInOrder, StrandTypes
<1>3. ready \o <<>> = ready
  BY <1>2, OneOrNone
<1>4. PostsMade' = PostsMade
  BY <1>1 DEF PostsMade
<1>5. count_ \in Nat /\ count_' \in Nat /\ Handling = 1 /\ Len(strandQueue) \in Nat
      /\ Cardinality(PostsMade) = count_ + Len(strandQueue) + 1
  BY <1>1, LenProperties DEF StrandTypes, Handling, NoPostIsLost
<1>6. CASE /\ strandQueue = <<>> /\ locked' = FALSE /\ at' = [at EXCEPT !["main"] = "run"]
           /\ holds' = [holds EXCEPT !["main"] = NoHandler] /\ UNCHANGED <<ready, strandQueue>>
  <2>1. at'["main"] = "run"
    BY <1>6 DEF StrandTypes
  <2>2. StrandTypes'
    BY <1>1, <1>5, <1>6 DEF StrandTypes
  <2>3. StrandInOrder'
    BY <1>1, <1>2, <1>6, <2>1, OneOrNone DEF StrandInOrder
  <2>4. NoPostIsLost'
    BY <1>1, <1>4, <1>5, <1>6, <2>1 DEF NoPostIsLost, Handling
  <2> QED BY <2>2, <2>3, <2>4
<1>7. CASE /\ strandQueue # <<>> /\ holds' = [holds EXCEPT !["main"] = Head(strandQueue)]
           /\ strandQueue' = Tail(strandQueue) /\ UNCHANGED <<ready, locked, at>>
  <2>1. strandQueue' \in Seq({"increment"}) /\ Len(strandQueue') = Len(strandQueue) - 1
    BY <1>7, HeadTailProperties DEF StrandTypes
  <2>2. StrandTypes'
    BY <1>1, <1>5, <1>7, <2>1 DEF StrandTypes
  <2>3. StrandInOrder'
    BY <1>1, <1>2, <1>7, OneOrNone DEF StrandInOrder
  <2>4. NoPostIsLost'
    BY <1>1, <1>4, <1>5, <1>7, <2>1 DEF NoPostIsLost, Handling
  <2> QED BY <2>2, <2>3, <2>4
<1>8. CASE /\ strandQueue # <<>> /\ at' = [at EXCEPT !["main"] = "run"]
           /\ holds' = [holds EXCEPT !["main"] = NoHandler] /\ ready' = Append(ready, Strand)
           /\ UNCHANGED <<locked, strandQueue>>
  <2>1. at'["main"] = "run" /\ ready' = <<Strand>>
    BY <1>2, <1>8, OneOrNone DEF StrandTypes
  <2>2. StrandTypes'
    BY <1>1, <1>5, <1>8, <2>1 DEF StrandTypes
  <2>3. StrandInOrder'
    BY <1>1, <1>2, <1>8, <2>1, OneOrNone DEF StrandInOrder
  <2>4. NoPostIsLost'
    BY <1>1, <1>4, <1>5, <1>8, <2>1 DEF NoPostIsLost, Handling
  <2> QED BY <2>2, <2>3, <2>4
<1> QED BY <1>1, <1>3, <1>6, <1>7, <1>8 DEF Counter!IO!HandlerReturns

LEMMA StrandSteps ==
  ASSUME StrandInv, [Counter!Next]_(Counter!vars)
  PROVE  StrandInv'
<1> USE DEF StrandInv
<1>1. CASE UNCHANGED Counter!vars
  BY <1>1 DEF Counter!vars, StrandTypes, StrandInOrder, NoPostIsLost, PostsMade, Handling
<1>2. ASSUME NEW t \in Runners, Counter!increment(t) PROVE StrandInv'
  BY <1>2, IncrementKeeps
<1>3. CASE Counter!Handle
  BY <1>3, HandleKeeps
<1>4. CASE Counter!CallRun
  <2>1. /\ main = "join" /\ main' = "run" /\ \A t \in Runners : posted[t] = posts
        /\ at["main"] = "out" /\ at' = [at EXCEPT !["main"] = "run"]
        /\ UNCHANGED <<ready, strandQueue, locked, stopped, holds, posted, count_>>
    BY <1>4 DEF Counter!CallRun, Counter!IO!CallRun
  <2>2. at'["main"] = "run"
    BY <2>1 DEF StrandTypes
  <2>3. StrandTypes' /\ StrandInOrder'
    BY <2>1, <2>2 DEF StrandTypes, StrandInOrder
  <2>4. NoPostIsLost'
    BY <2>1, <2>2 DEF NoPostIsLost, PostsMade, Handling
  <2> QED BY <2>3, <2>4
<1>5. CASE Counter!Take
  <2>1. /\ at["main"] = "run" /\ ~stopped /\ ready # <<>> /\ ready' = Tail(ready)
        /\ UNCHANGED <<locked, stopped, posted, count_, main>>
    BY <1>5 DEF Counter!Take, Counter!IO!Take
  <2>2. ready = <<Strand>> /\ Head(ready) = Strand /\ ready' = <<>> /\ locked /\ strandQueue # <<>>
    BY <2>1, OneOrNone DEF StrandTypes, StrandInOrder
  <2>3. /\ at' = [at EXCEPT !["main"] = "handler"]
        /\ holds' = [holds EXCEPT !["main"] = Head(strandQueue)]
        /\ strandQueue' = Tail(strandQueue)
    BY <1>5, <2>2 DEF Counter!Take, Counter!IO!Take
  <2>4. /\ strandQueue' \in Seq({"increment"}) /\ Len(strandQueue') = Len(strandQueue) - 1
        /\ Len(strandQueue) \in Nat /\ count_ \in Nat
    BY <2>2, <2>3, HeadTailProperties, LenProperties DEF StrandTypes
  <2>5. at'["main"] = "handler"
    BY <2>3 DEF StrandTypes
  <2>6. StrandTypes'
    BY <2>1, <2>2, <2>3, <2>4 DEF StrandTypes
  <2>7. StrandInOrder'
    BY <2>1, <2>2, <2>5, OneOrNone DEF StrandInOrder
  <2>8. NoPostIsLost'
    <3>1. Handling = 0 /\ Handling' = 1 /\ PostsMade' = PostsMade
      BY <2>1, <2>5 DEF Handling, PostsMade
    <3> QED BY <2>1, <2>4, <3>1 DEF NoPostIsLost
  <2> QED BY <2>6, <2>7, <2>8
<1>6. CASE Counter!ReturnFromRun
  <2>1. /\ at["main"] = "run" /\ at' = [at EXCEPT !["main"] = "returned"]
        /\ stopped' = TRUE /\ main' = "returned" /\ (stopped \/ ready = <<>>)
        /\ UNCHANGED <<ready, strandQueue, locked, holds, posted, count_>>
    BY <1>6 DEF Counter!ReturnFromRun, Counter!IO!ReturnFromRun
  <2>2. at'["main"] = "returned" /\ ready = <<>>
    BY <2>1 DEF StrandTypes, StrandInOrder
  <2>3. StrandTypes'
    BY <2>1 DEF StrandTypes
  <2>4. StrandInOrder'
    BY <2>1, <2>2, OneOrNone DEF StrandInOrder
  <2>5. NoPostIsLost'
    BY <2>1, <2>2 DEF NoPostIsLost, PostsMade, Handling
  <2> QED BY <2>3, <2>4, <2>5
<1> QED BY <1>1, <1>2, <1>3, <1>4, <1>5, <1>6 DEF Counter!Next, Counter!Step, Counter!Returned

LEMMA CounterCardinality == ASSUME NEW S PROVE Counter!Cardinality(S) = Cardinality(S)
  BY DEF Counter!Cardinality, Cardinality

(* When run() has returned nothing waits, and each thread has posted all it posts. *)
LEMMA StrandEnds ==
  ASSUME StrandInv
  PROVE  Counter!CompleteAtReturn
<1> SUFFICES ASSUME main = "returned"
             PROVE  count_ = posts * Cardinality(Runners) /\ strandQueue = <<>>
  BY CounterCardinality DEF Counter!CompleteAtReturn
<1> USE DEF StrandInv
<1>1. /\ strandQueue = <<>> /\ Handling = 0 /\ count_ \in Nat
      /\ \A t \in Runners : posted[t] = posts
  BY OneOrNone DEF StrandInOrder, StrandTypes, Handling
<1>2. Len(strandQueue) = 0
  BY <1>1
<1>3. PostsMade = Runners \X (1 .. posts)
  BY <1>1 DEF PostsMade
<1>4. Cardinality(Runners \X (1 .. posts)) = Cardinality(Runners) * posts
  <2> DEFINE each == 1 .. posts
  <2>1. IsFiniteSet(each) /\ Cardinality(each) = posts
    BY PostsIsNat, FS_Interval
  <2> HIDE DEF each
  <2>2. Cardinality(Runners \X each) = Cardinality(Runners) * Cardinality(each)
    BY <2>1, SomeRunners, FS_Product
  <2> QED BY <2>1, <2>2 DEF each
<1>5. count_ = Cardinality(Runners) * posts
  BY <1>1, <1>2, <1>3, <1>4 DEF NoPostIsLost
<1>6. Cardinality(Runners) * posts = posts * Cardinality(Runners)
  <2>1. Cardinality(Runners) \in Nat
    BY SomeRunners, FS_CardinalityType
  <2> QED BY <2>1, PostsIsNat
<1> QED BY <1>1, <1>5, <1>6

-----------------------------------------------------------------------------
(* The programs of one timer: it is waited for, its handler is ready or taken, or
   the chain of waits has ended. *)
Dispatched == at["main"] = "dispatch"
ChainEnded == ~waiting /\ ready = <<>> /\ ~Dispatched

SingleTypes ==
  /\ ready \in {<<>>, <<"print">>} /\ waiting \in BOOLEAN /\ stopped \in BOOLEAN
  /\ at \in [{"main"} -> {"out", "run", "dispatch", "returned"}]
  /\ DOMAIN holds = {"main"}
  /\ repeat \in Nat /\ count_ \in 0 .. repeat /\ calls \in Nat
  /\ main \in {"run", "returned"}

OneWait ==
  /\ waiting => ready = <<>> /\ ~Dispatched
  /\ ready # <<>> => ~Dispatched
  /\ ChainEnded => count_ = repeat
  /\ calls = count_ + (IF ChainEnded THEN 1 ELSE 0)
  /\ stopped => at["main"] = "returned"
  /\ at["main"] = "returned" => ChainEnded
  /\ main = "returned" => at["main"] = "returned"

SquaresPushed == vec = [k \in 1 .. count_ |-> (k - 1) * (k - 1)]

SingleInv == SingleTypes /\ OneWait /\ SquaresPushed

LEMMA InitSingle == Single!Init => SingleInv
<1> SUFFICES ASSUME Single!Init PROVE SingleInv
  OBVIOUS
<1>1. /\ ready = <<>> /\ stopped = FALSE /\ at = [t \in {"main"} |-> "out"]
      /\ holds = [t \in {"main"} |-> NoHandler] /\ repeat \in {0, 5}
      /\ waiting = TRUE /\ calls = 0 /\ count_ = 0 /\ vec = <<>> /\ main = "run"
  BY DEF Single!Init, Single!IO!IOInit
<1>2. repeat \in Nat /\ count_ \in 0 .. repeat /\ calls \in Nat /\ calls = count_
  BY <1>1
<1>4. at["main"] = "out" /\ at \in [{"main"} -> {"out", "run", "dispatch", "returned"}]
      /\ DOMAIN holds = {"main"} /\ waiting \in BOOLEAN /\ stopped \in BOOLEAN
  BY <1>1
<1>5. SingleTypes
  BY <1>1, <1>2, <1>4 DEF SingleTypes
<1>6. OneWait
  BY <1>1, <1>2, <1>4 DEF OneWait, ChainEnded, Dispatched
<1>3. SquaresPushed
  <2>1. 1 .. count_ = {}
    BY <1>1
  <2> QED BY <1>1, <2>1 DEF SquaresPushed
<1> QED BY <1>3, <1>5, <1>6 DEF SingleInv

LEMMA OneMoreSquare ==
  ASSUME NEW n \in Nat
  PROVE  Append([k \in 1 .. n |-> (k - 1) * (k - 1)], n * n)
           = [k \in 1 .. n + 1 |-> (k - 1) * (k - 1)]
<1> DEFINE sq(k) == (k - 1) * (k - 1)  square == n * n
<1>1. square \in Int /\ square = sq(n + 1) /\ \A k \in 1 .. n : sq(k) \in Int
  <2>1. (n + 1) - 1 = n
    OBVIOUS
  <2> QED BY <2>1
<1> HIDE DEF sq, square
<1> DEFINE s == [k \in 1 .. n |-> sq(k)]
<1>2. s \in Seq(Int) /\ Len(s) = n
  BY <1>1
<1>3. Append(s, square) = [k \in 1 .. n + 1 |-> sq(k)]
  BY <1>1, <1>2
<1> QED BY <1>3 DEF sq, square

LEMMA PrintKeeps ==
  ASSUME SingleInv, Single!print
  PROVE  SingleInv'
<1> USE DEF SingleInv
<1>1. /\ at["main"] = "dispatch" /\ at' = [at EXCEPT !["main"] = "run"]
      /\ holds' = [holds EXCEPT !["main"] = NoHandler] /\ calls' = calls + 1
      /\ UNCHANGED <<ready, stopped, repeat, main>>
  BY DEF Single!print, Single!IO!RunUnbound
<1>2. /\ ~waiting /\ ready = <<>> /\ ~stopped /\ calls = count_ /\ main # "returned"
      /\ at'["main"] = "run" /\ repeat \in Nat /\ count_ \in 0 .. repeat
  BY <1>1 DEF SingleTypes, OneWait, ChainEnded, Dispatched
<1>3. CASE count_ < repeat
  <2>1. vec' = Append(vec, count_ * count_) /\ count_' = count_ + 1 /\ waiting' = TRUE
    BY <1>3 DEF Single!print
  <2>2. SingleTypes'
    BY <1>1, <1>2, <1>3, <2>1 DEF SingleTypes
  <2>3. OneWait'
    BY <1>1, <1>2, <2>1 DEF OneWait, ChainEnded, Dispatched
  <2>4. SquaresPushed'
    BY <1>2, <2>1, OneMoreSquare DEF SquaresPushed
  <2> QED BY <2>2, <2>3, <2>4
<1>4. CASE ~(count_ < repeat)
  <2>1. UNCHANGED <<vec, count_, waiting>> /\ count_ = repeat
    BY <1>2, <1>4 DEF Single!print
  <2>2. SingleTypes'
    BY <1>1, <1>2, <2>1 DEF SingleTypes
  <2>3. OneWait'
    BY <1>1, <1>2, <2>1 DEF OneWait, ChainEnded, Dispatched
  <2> QED BY <2>1, <2>2, <2>3 DEF SquaresPushed
<1> QED BY <1>3, <1>4

LEMMA SingleSteps ==
  ASSUME SingleInv, [Single!Next]_(Single!vars)
  PROVE  SingleInv'
<1> USE DEF SingleInv
<1>1. CASE UNCHANGED Single!vars
  BY <1>1 DEF Single!vars, Single!context, SingleTypes, OneWait, ChainEnded, Dispatched, SquaresPushed
<1>2. CASE Single!print
  BY <1>2, PrintKeeps
<1>3. CASE Single!CallRun
  <2>1. /\ at["main"] = "out" /\ at' = [at EXCEPT !["main"] = "run"]
        /\ UNCHANGED <<ready, stopped, holds, repeat, waiting, calls, count_, vec, main>>
    BY <1>3 DEF Single!CallRun, Single!IO!CallRun
  <2>2. at'["main"] = "run"
    BY <2>1 DEF SingleTypes
  <2> QED BY <2>1, <2>2 DEF SingleTypes, OneWait, ChainEnded, Dispatched, SquaresPushed
<1>4. CASE Single!Expire
  <2>1. /\ waiting /\ at["main"] = "run" /\ waiting' = FALSE /\ ready' = Append(ready, "print")
        /\ UNCHANGED <<stopped, at, holds, repeat, calls, count_, vec, main>>
    BY <1>4 DEF Single!Expire
  <2>2. ready' = <<"print">> /\ ready' # <<>>
    BY <2>1, OneOrNone DEF OneWait
  <2> QED BY <2>1, <2>2 DEF SingleTypes, OneWait, ChainEnded, Dispatched, SquaresPushed
<1>5. CASE Single!Take
  <2>1. /\ at["main"] = "run" /\ ready # <<>> /\ ready' = Tail(ready)
        /\ UNCHANGED <<stopped, repeat, waiting, calls, count_, vec, main>>
    BY <1>5 DEF Single!Take, Single!IO!Take
  <2>2. ready = <<"print">> /\ Head(ready) # Strand /\ ready' = <<>> /\ ~waiting
    BY <2>1, OneOrNone, StrandIsNoHandler DEF SingleTypes, OneWait
  <2>3. at' = [at EXCEPT !["main"] = "dispatch"] /\ holds' = [holds EXCEPT !["main"] = Head(ready)]
    BY <1>5, <2>2 DEF Single!Take, Single!IO!Take
  <2>4. at'["main"] = "dispatch"
    BY <2>3 DEF SingleTypes
  <2> QED BY <2>1, <2>2, <2>3, <2>4 DEF SingleTypes, OneWait, ChainEnded, Dispatched, SquaresPushed
<1>6. CASE Single!ReturnFromRun
  <2>1. /\ at["main"] = "run" /\ at' = [at EXCEPT !["main"] = "returned"]
        /\ stopped' = TRUE /\ main' = "returned" /\ (stopped \/ (ready = <<>> /\ ~waiting))
        /\ UNCHANGED <<ready, holds, repeat, waiting, calls, count_, vec>>
    BY <1>6 DEF Single!ReturnFromRun, Single!IO!ReturnFromRun
  <2>2. at'["main"] = "returned" /\ ready = <<>> /\ ~waiting
    BY <2>1 DEF SingleTypes, OneWait
  <2> QED BY <2>1, <2>2 DEF SingleTypes, OneWait, ChainEnded, Dispatched, SquaresPushed
<1> QED BY <1>1, <1>2, <1>3, <1>4, <1>5, <1>6 DEF Single!Next, Single!Step, Single!Returned

LEMMA SingleEnds ==
  ASSUME SingleInv
  PROVE  Single!CompleteAtReturn
<1> SUFFICES ASSUME main = "returned"
             PROVE  calls = repeat + 1 /\ vec = [k \in 1 .. repeat |-> (k - 1) * (k - 1)]
  BY DEF Single!CompleteAtReturn
<1>1. ChainEnded /\ count_ = repeat
  BY DEF SingleInv, OneWait
<1> QED BY <1>1 DEF SingleInv, OneWait, SquaresPushed

-----------------------------------------------------------------------------
(* timer.cpp: nobody leaves run() before the guard is reset, and nobody then before
   the handler was called. *)
NobodyHandles == ready = <<>> /\ \A t \in Runners : at[t] # "dispatch"

GuardTypes ==
  /\ pool \subseteq Runners /\ DOMAIN holds = Runners
  /\ at \in [Runners -> {"out", "run", "dispatch", "returned"}]
  /\ ready \in {<<>>, <<"completionHandlerPrint">>}
  /\ guard \in BOOLEAN /\ stopped \in BOOLEAN
  /\ timer \in {"new", "waiting", "expired"} /\ calls \in {0, 1}
  /\ main \in {"wait", "work", "join", "returned"}

OneCall ==
  /\ timer # "expired" => calls = 0 /\ NobodyHandles
  /\ timer = "expired" => pool # {} /\ (calls = 1 <=> NobodyHandles)
  /\ ready # <<>> => \A t \in Runners : at[t] # "dispatch"
  /\ \A t, u \in Runners : at[t] = "dispatch" /\ at[u] = "dispatch" => t = u

GuardKeeps ==
  /\ \A t \in Runners : at[t] # "out" => t \in pool
  /\ main = "wait" <=> timer = "new"
  /\ main \in {"wait", "work"} => guard
  /\ main = "join" => pool # {}
  /\ stopped => ~guard /\ calls = 1
  /\ \A t \in Runners : at[t] = "returned" => stopped
  /\ main = "returned" => pool = {} \/ stopped

GuardInv == GuardTypes /\ OneCall /\ GuardKeeps

LEMMA InitGuard == Guarded!Init => GuardInv
<1> SUFFICES ASSUME Guarded!Init PROVE GuardInv
  OBVIOUS
<1>1. /\ ready = <<>> /\ stopped = FALSE /\ at = [t \in Runners |-> "out"]
      /\ holds = [t \in Runners |-> NoHandler] /\ pool \in SUBSET Runners
      /\ guard = TRUE /\ timer = "new" /\ calls = 0 /\ main = "wait"
  BY DEF Guarded!Init, Guarded!IO!IOInit
<1> QED BY <1>1 DEF GuardInv, GuardTypes, OneCall, GuardKeeps, NobodyHandles

LEMMA GuardSteps ==
  ASSUME GuardInv, [Guarded!Next]_(Guarded!vars)
  PROVE  GuardInv'
<1> USE DEF GuardInv
<1>1. CASE UNCHANGED Guarded!vars
  BY <1>1 DEF Guarded!vars, GuardTypes, OneCall, GuardKeeps, NobodyHandles
<1>2. ASSUME NEW t \in Runners, Guarded!CallRun(t) PROVE GuardInv'
  <2>1. /\ t \in pool /\ at[t] = "out" /\ at' = [at EXCEPT ![t] = "run"]
        /\ UNCHANGED <<ready, stopped, holds, pool, guard, timer, calls, main>>
    BY <1>2 DEF Guarded!CallRun, Guarded!IO!CallRun
  <2>2. at'[t] = "run" /\ \A u \in Runners \ {t} : at'[u] = at[u]
    BY <2>1 DEF GuardTypes
  <2>3. NobodyHandles' <=> NobodyHandles
    BY <2>1, <2>2 DEF NobodyHandles
  <2> QED BY <2>1, <2>2, <2>3 DEF GuardTypes, OneCall, GuardKeeps
<1>3. CASE Guarded!Expire
  <2>1. /\ timer = "waiting" /\ timer' = "expired" /\ \E t \in Runners : at[t] = "run"
        /\ ready' = Append(ready, "completionHandlerPrint")
        /\ UNCHANGED <<stopped, at, holds, pool, guard, calls, main>>
    BY <1>3 DEF Guarded!Expire
  <2>2. ready = <<>> /\ calls = 0 /\ pool # {} /\ \A t \in Runners : at[t] # "dispatch"
    BY <2>1 DEF OneCall, GuardKeeps, NobodyHandles
  <2>3. ready' = <<"completionHandlerPrint">> /\ ready' # <<>>
    BY <2>1, <2>2, OneOrNone
  <2> QED BY <2>1, <2>2, <2>3 DEF GuardTypes, OneCall, GuardKeeps, NobodyHandles
<1>4. ASSUME NEW t \in Runners, Guarded!Take(t) PROVE GuardInv'
  <2>1. /\ at[t] = "run" /\ ~stopped /\ ready # <<>> /\ ready' = Tail(ready)
        /\ UNCHANGED <<stopped, pool, guard, timer, calls, main>>
    BY <1>4 DEF Guarded!Take, Guarded!IO!Take
  <2>2. ready = <<"completionHandlerPrint">> /\ Head(ready) # Strand /\ ready' = <<>>
    BY <2>1, OneOrNone, StrandIsNoHandler DEF GuardTypes
  <2>3. at' = [at EXCEPT ![t] = "dispatch"] /\ holds' = [holds EXCEPT ![t] = Head(ready)]
    BY <1>4, <2>2 DEF Guarded!Take, Guarded!IO!Take
  <2>4. at'[t] = "dispatch" /\ \A u \in Runners \ {t} : at'[u] = at[u]
    BY <2>3 DEF GuardTypes
  <2>5. /\ ~NobodyHandles /\ ~NobodyHandles' /\ timer = "expired" /\ calls = 0
        /\ \A u \in Runners : at[u] # "dispatch"
    BY <2>1, <2>4 DEF OneCall, NobodyHandles, GuardTypes
  <2>6. OneCall'
    BY <2>1, <2>2, <2>4, <2>5 DEF OneCall
  <2> QED BY <2>1, <2>2, <2>3, <2>4, <2>6 DEF GuardTypes, GuardKeeps
<1>5. ASSUME NEW t \in Runners, Guarded!completionHandlerPrint(t) PROVE GuardInv'
  <2>1. /\ at[t] = "dispatch" /\ at' = [at EXCEPT ![t] = "run"]
        /\ holds' = [holds EXCEPT ![t] = NoHandler] /\ calls' = calls + 1
        /\ UNCHANGED <<ready, stopped, pool, guard, timer, main>>
    BY <1>5 DEF Guarded!completionHandlerPrint, Guarded!IO!RunUnbound
  <2>2. at'[t] = "run" /\ \A u \in Runners \ {t} : at'[u] = at[u]
    BY <2>1 DEF GuardTypes
  <2>3. /\ timer = "expired" /\ calls = 0 /\ calls' = 1 /\ ready = <<>> /\ ~stopped
        /\ \A u \in Runners \ {t} : at[u] # "dispatch"
    BY <2>1 DEF OneCall, GuardKeeps, GuardTypes, NobodyHandles
  <2>4. NobodyHandles'
    BY <2>1, <2>2, <2>3 DEF NobodyHandles
  <2>5. OneCall'
    BY <2>1, <2>2, <2>3, <2>4 DEF OneCall
  <2> QED BY <2>1, <2>2, <2>3, <2>5 DEF GuardTypes, GuardKeeps
<1>6. ASSUME NEW t \in Runners, Guarded!ReturnFromRun(t) PROVE GuardInv'
  <2>1. /\ at[t] = "run" /\ stopped' = TRUE /\ at' = [at EXCEPT ![t] = "returned"]
        /\ UNCHANGED <<ready, holds, pool, guard, timer, calls, main>>
        /\ \/ stopped
           \/ /\ ready = <<>> /\ ~guard /\ timer # "waiting"
              /\ \A u \in Runners : at[u] # "dispatch"
    BY <1>6 DEF Guarded!ReturnFromRun, Guarded!IO!ReturnFromRun
  <2>2. at'[t] = "returned" /\ \A u \in Runners \ {t} : at'[u] = at[u]
    BY <2>1 DEF GuardTypes
  <2>3. NobodyHandles' <=> NobodyHandles
    BY <2>1, <2>2 DEF NobodyHandles
  <2>4. ~guard /\ calls = 1
    BY <2>1 DEF GuardTypes, GuardKeeps, OneCall, NobodyHandles
  <2>5. OneCall'
    BY <2>1, <2>2, <2>3 DEF OneCall
  <2> QED BY <2>1, <2>2, <2>4, <2>5 DEF GuardTypes, GuardKeeps
<1>7. CASE Guarded!async_wait
  BY <1>7 DEF Guarded!async_wait, GuardTypes, OneCall, GuardKeeps, NobodyHandles
<1>8. CASE Guarded!Reset
  BY <1>8 DEF Guarded!Reset, GuardTypes, OneCall, GuardKeeps, NobodyHandles
<1>9. CASE Guarded!Join
  <2>1. /\ UNCHANGED <<ready, stopped, at, holds, pool, guard, timer, calls>> /\ main' = "returned"
        /\ main \in {"work", "join"}
        /\ pool = {} \/ \A t \in pool : at[t] = "returned"
    BY <1>9 DEF Guarded!Join
  <2>2. pool = {} \/ stopped
    BY <2>1 DEF GuardTypes, GuardKeeps
  <2> QED BY <2>1, <2>2 DEF GuardTypes, OneCall, GuardKeeps, NobodyHandles
<1> QED
  BY <1>1, <1>2, <1>3, <1>4, <1>5, <1>6, <1>7, <1>8, <1>9
     DEF Guarded!Next, Guarded!RunnerStep, Guarded!MainStep, Guarded!Returned

LEMMA GuardEnds ==
  ASSUME GuardInv
  PROVE  Guarded!CompleteAtReturn
  BY DEF GuardInv, GuardTypes, OneCall, GuardKeeps, NobodyHandles, Guarded!CompleteAtReturn

-----------------------------------------------------------------------------
(* The programs together: one of them runs, and the others' variables rest. *)
AsioInv ==
  /\ which \in {"two timers", "strand", "single timer", "work guard"}
  /\ which = "two timers" => TwoTimersInv
  /\ which = "strand" => StrandInv
  /\ which = "single timer" => SingleInv
  /\ which = "work guard" => GuardInv

asioVars == <<which, vars, posted, calls, singleVars, guardVars>>

LEMMA InitAsio == MCInit => AsioInv
  BY InitTimers, InitStrand, InitSingle, InitGuard DEF MCInit, AsioInv

LEMMA OneAsioProgram ==
  ASSUME AsioInv, [MCNext]_asioVars
  PROVE  /\ which' = which
         /\ which = "two timers" => [Next]_vars
         /\ which = "strand" => [Counter!Next]_(Counter!vars)
         /\ which = "single timer" => [Single!Next]_(Single!vars)
         /\ which = "work guard" => [Guarded!Next]_(Guarded!vars)
<1>1. CASE UNCHANGED asioVars
  BY <1>1 DEF asioVars, vars, singleVars, guardVars, Counter!vars, Single!vars, Single!context,
              Guarded!vars
<1>2. CASE MCNext
  BY <1>2 DEF MCNext, TwoTimersNext, StrandNext, SingleNext, GuardNext
<1> QED BY <1>1, <1>2

LEMMA AsioSteps ==
  ASSUME AsioInv, [MCNext]_asioVars
  PROVE  AsioInv'
<1>1. which' = which
  BY OneAsioProgram
<1>2. CASE which = "two timers"
  BY <1>1, <1>2, OneAsioProgram, TwoTimersSteps DEF AsioInv
<1>3. CASE which = "strand"
  BY <1>1, <1>3, OneAsioProgram, StrandSteps DEF AsioInv
<1>4. CASE which = "single timer"
  BY <1>1, <1>4, OneAsioProgram, SingleSteps DEF AsioInv
<1>5. CASE which = "work guard"
  BY <1>1, <1>5, OneAsioProgram, GuardSteps DEF AsioInv
<1> QED BY <1>2, <1>3, <1>4, <1>5 DEF AsioInv

LEMMA AsioHolds == MCSpec => []AsioInv
<1>1. AsioInv /\ [MCNext]_asioVars => AsioInv'
  BY AsioSteps
<1> QED BY <1>1, InitAsio, PTL DEF MCSpec, asioVars

(* NoWriteIsLost, for any number of threads and any limit: the two handlers, which
   the strand keeps apart, never lose or repeat a square. *)
THEOREM SquaresAreInOrder == MCSpec => []NoWriteIsLost
<1>1. AsioInv => NoWriteIsLost
  BY DEF AsioInv, NoWriteIsLost, TwoTimersInv, CountingInv
<1> QED BY <1>1, AsioHolds, PTL

(* NoWaitIsCancelled: whoever sets a timer is the only one to wait for it, although
   both first waits hang on timer1_. *)
THEOREM NoTimerIsShared == MCSpec => []NoWaitIsCancelled
<1>1. AsioInv => NoWaitIsCancelled
  BY NobodyElseWaits DEF AsioInv, NoWaitIsCancelled, NothingIsCancelled
<1> QED BY <1>1, AsioHolds, PTL

(* EachIsComplete: when run() has returned in every thread, nothing that was posted
   or waited for is left undone, in any of the four programs. *)
THEOREM NothingIsLeftUndone == MCSpec => []EachIsComplete
<1>1. AsioInv => EachIsComplete
  BY TimersEnd, StrandEnds, SingleEnds, GuardEnds DEF AsioInv, EachIsComplete
<1> QED BY <1>1, AsioHolds, PTL

-----------------------------------------------------------------------------
(* The daytime service: what it counts, and how it goes on *)
Counts == Owed \in [Clients -> Nat] /\ Answers \in [Clients -> Nat]

LEMMA IsAnAsk ==
  ASSUME Counts, Counts', NEW c \in Clients, Answers' = Answers,
         \A d \in Clients : Owed'[d] = IF d = c THEN Owed[d] + 1 ELSE Owed[d]
  PROVE  Service!DSNext
<1>1. Owed' = [Owed EXCEPT ![c] = @ + 1]
  BY DEF Counts
<1> QED BY <1>1 DEF Service!DSNext, Service!Ask

LEMMA IsAnAnswer ==
  ASSUME Counts, Counts', NEW c \in Clients, Owed[c] > 0,
         \A d \in Clients : /\ Owed'[d] = IF d = c THEN Owed[d] - 1 ELSE Owed[d]
                            /\ Answers'[d] = IF d = c THEN Answers[d] + 1 ELSE Answers[d]
  PROVE  Service!DSNext
<1>1. Owed' = [Owed EXCEPT ![c] = @ - 1] /\ Answers' = [Answers EXCEPT ![c] = @ + 1]
  BY DEF Counts
<1> QED BY <1>1 DEF Service!DSNext, Service!Answer

LEMMA IsALostAnswer ==
  ASSUME Counts, Counts', NEW c \in Clients, Answers[c] > 0, Owed' = Owed,
         \A d \in Clients : Answers'[d] = IF d = c THEN Answers[d] - 1 ELSE Answers[d]
  PROVE  Service!DSNext
<1>1. Answers' = [Answers EXCEPT ![c] = @ - 1]
  BY DEF Counts
<1> QED BY <1>1 DEF Service!DSNext, Service!LoseAnswer

LEMMA AreLostRequests ==
  ASSUME Counts, Counts', NEW gone \in SUBSET Clients, \A c \in gone : Owed[c] > 0,
         Answers' = Answers,
         \A d \in Clients : Owed'[d] = IF d \in gone THEN Owed[d] - 1 ELSE Owed[d]
  PROVE  Service!DSNext
<1>1. Owed' = [d \in Clients |-> IF d \in gone THEN Owed[d] - 1 ELSE Owed[d]]
  BY DEF Counts
<1> QED BY <1>1 DEF Service!DSNext, Service!LoseRequests

-----------------------------------------------------------------------------
(* The servers over UDP *)
UdpInv ==
  /\ sends \subseteq [to : Clients, message : Messages]
  /\ IsFiniteSet(sends)
  /\ {s.message : s \in sends} = alive
  /\ \A s, t \in sends : s.message = t.message => s = t
  /\ toServer \in [Clients -> Nat] /\ toClient \in [Clients -> Nat]
  /\ client \in [Clients -> {"start", "waiting", "done", "failed"}]
  /\ receive = "completed" => remote_endpoint_ \in Clients

LEMMA InitUdp == Udp!Init => UdpInv
  BY FS_EmptySet DEF Udp!Init, UdpInv

LEMMA UdpSteps ==
  ASSUME UdpInv, [Udp!Next]_(Udp!vars)
  PROVE  UdpInv'
<1>1. CASE UNCHANGED Udp!vars
  BY <1>1 DEF Udp!vars, Udp!server, UdpInv
<1>2. ASSUME NEW c \in Clients, Udp!Lose(c) \/ Udp!Duplicate(c) \/ Udp!send_to(c) \/ Udp!ClientFails(c)
                                \/ Udp!receive_from(c)
      PROVE  UdpInv'
  BY <1>2 DEF Udp!Lose, Udp!Duplicate, Udp!send_to, Udp!ClientFails, Udp!receive_from,
              Udp!Fewer, Udp!More, Udp!server, UdpInv
<1>3. ASSUME NEW c \in Clients, Udp!Receive(c) PROVE UdpInv'
  BY <1>3 DEF Udp!Receive, Udp!Fewer, UdpInv
<1>4. CASE Udp!ReceiveFails \/ Udp!ReceiveEnds
  BY <1>4 DEF Udp!ReceiveFails, Udp!ReceiveEnds, UdpInv
<1>5. CASE Udp!handle_receive
  <2>1. PICK m \in Messages \ alive :
          /\ alive' = alive \union {m}
          /\ sends' = sends \union {[to |-> remote_endpoint_, message |-> m]}
    BY <1>5 DEF Udp!handle_receive
  <2>2. /\ remote_endpoint_ \in Clients /\ receive' = "pending"
        /\ UNCHANGED <<toServer, toClient, client, remote_endpoint_>>
    BY <1>5 DEF Udp!handle_receive, UdpInv
  <2>3. IsFiniteSet(sends')
    BY <2>1, FS_AddElement DEF UdpInv
  <2> DEFINE new == [to |-> remote_endpoint_, message |-> m]
  <2>4. new \in [to : Clients, message : Messages] /\ new.message = m
    BY <2>1, <2>2
  <2>5. sends' = sends \union {new} /\ \A s \in sends : s.message # new.message
    BY <2>1, <2>4 DEF UdpInv
  <2> HIDE DEF new
  <2>6. {s.message : s \in sends'} = alive'
    BY <2>1, <2>4, <2>5 DEF UdpInv
  <2>7. \A s, t \in sends' : s.message = t.message => s = t
    BY <2>5 DEF UdpInv
  <2>8. sends' \subseteq [to : Clients, message : Messages]
    BY <2>4, <2>5 DEF UdpInv
  <2> QED BY <2>2, <2>3, <2>6, <2>7, <2>8 DEF UdpInv
<1>6. CASE Udp!handle_send
  <2>1. PICK s \in sends : /\ sends' = sends \ {s} /\ alive' = alive \ {s.message}
                           /\ \/ toClient' = Udp!More(toClient, s.to)
                              \/ toClient' = toClient
    BY <1>6 DEF Udp!handle_send
  <2>2. UNCHANGED <<receive, remote_endpoint_, toServer, client>>
    BY <1>6 DEF Udp!handle_send
  <2>3. IsFiniteSet(sends')
    BY <2>1, FS_RemoveElement DEF UdpInv
  <2>4. toClient' \in [Clients -> Nat]
    BY <2>1 DEF Udp!More, UdpInv
  <2>5. {t.message : t \in sends'} = alive'
    BY <2>1 DEF UdpInv
  <2> QED BY <2>1, <2>2, <2>3, <2>4, <2>5 DEF UdpInv
<1>7. CASE Udp!SendSync
  BY <1>7 DEF Udp!SendSync, Udp!More, UdpInv
<1> QED
  BY <1>1, <1>2, <1>3, <1>4, <1>5, <1>6, <1>7
     DEF Udp!Next, Udp!ServerStep, Udp!ClientStep, Udp!Waits

(* What is owed to a client waits in the network, in a send or in the completed
   receive. *)
Sent(c) == Cardinality({s \in sends : s.to = c})
Taken(c) == IF receive = "completed" /\ remote_endpoint_ = c THEN 1 ELSE 0
Served(c) == IF client[c] = "done" THEN 1 ELSE 0

LEMMA UdpCardinality == ASSUME NEW S PROVE Udp!Cardinality(S) = Cardinality(S)
  BY DEF Udp!Cardinality, Cardinality

LEMMA UdpOwed ==
  ASSUME network = "udp"
  PROVE  /\ Owed = [c \in Clients |-> toServer[c] + Sent(c) + Taken(c)]
         /\ Answers = [c \in Clients |-> toClient[c] + Served(c)]
  BY UdpCardinality DEF Owed, Answers, Udp!Owed, Udp!Answers, Sent, Taken, Served

LEMMA UdpOwedNext ==
  ASSUME network' = "udp"
  PROVE  /\ Owed' = [c \in Clients |-> toServer'[c] + Sent(c)' + Taken(c)']
         /\ Answers' = [c \in Clients |-> toClient'[c] + Served(c)']
  BY UdpCardinality DEF Owed, Answers, Udp!Owed, Udp!Answers, Sent, Taken, Served

LEMMA UdpNatural ==
  ASSUME UdpInv
  PROVE  \A c \in Clients : /\ toServer[c] \in Nat /\ toClient[c] \in Nat
                            /\ Sent(c) \in Nat /\ Taken(c) \in Nat /\ Served(c) \in Nat
<1>1. ASSUME NEW c \in Clients PROVE Sent(c) \in Nat
  <2>1. IsFiniteSet({s \in sends : s.to = c})
    BY FS_Subset DEF UdpInv
  <2> QED BY <2>1, FS_CardinalityType DEF Sent
<1> QED BY <1>1 DEF UdpInv, Taken, Served

LEMMA UdpNaturalNext ==
  ASSUME UdpInv'
  PROVE  \A c \in Clients : /\ toServer'[c] \in Nat /\ toClient'[c] \in Nat
                            /\ Sent(c)' \in Nat /\ Taken(c)' \in Nat /\ Served(c)' \in Nat
<1>1. ASSUME NEW c \in Clients PROVE Sent(c)' \in Nat
  <2>1. IsFiniteSet({s \in sends' : s.to = c})
    BY FS_Subset DEF UdpInv
  <2> QED BY <2>1, FS_CardinalityType DEF Sent
<1> QED BY <1>1 DEF UdpInv, Taken, Served

(* One send more, or one fewer *)
LEMMA OneSendMore ==
  ASSUME UdpInv, NEW n, n \notin sends, sends' = sends \union {n}
  PROVE  \A d \in Clients : Sent(d)' = IF d = n.to THEN Sent(d) + 1 ELSE Sent(d)
<1> TAKE d \in Clients
<1> DEFINE S == {s \in sends : s.to = d}
<1>1. IsFiniteSet(S)
  BY FS_Subset DEF UdpInv
<1>2. {s \in sends' : s.to = d} = IF d = n.to THEN S \union {n} ELSE S
  OBVIOUS
<1>3. n \notin S /\ Cardinality(S \union {n}) = Cardinality(S) + 1
  <2>1. n \notin S
    OBVIOUS
  <2> HIDE DEF S
  <2> QED BY <1>1, <2>1, FS_AddElement
<1> QED BY <1>2, <1>3 DEF Sent

LEMMA OneSendFewer ==
  ASSUME UdpInv, NEW n \in sends, sends' = sends \ {n}
  PROVE  /\ \A d \in Clients : Sent(d)' = IF d = n.to THEN Sent(d) - 1 ELSE Sent(d)
         /\ Sent(n.to) > 0
<1>1. ASSUME NEW d \in Clients
      PROVE  /\ Sent(d)' = IF d = n.to THEN Sent(d) - 1 ELSE Sent(d)
             /\ d = n.to => Sent(d) > 0
  <2> DEFINE S == {s \in sends : s.to = d}
  <2>1. IsFiniteSet(S)
    BY FS_Subset DEF UdpInv
  <2>2. {s \in sends' : s.to = d} = IF d = n.to THEN S \ {n} ELSE S
    OBVIOUS
  <2>3. d = n.to => n \in S
    OBVIOUS
  <2>4. n \in S => Cardinality(S \ {n}) = Cardinality(S) - 1 /\ Cardinality(S) > 0
    <3> HIDE DEF S
    <3>1. n \in S => S # {} /\ Cardinality(S) \in Nat
      BY <2>1, FS_CardinalityType
    <3> QED BY <2>1, <3>1, FS_RemoveElement, FS_EmptySet
  <2> QED BY <2>2, <2>3, <2>4 DEF Sent
<1>2. n.to \in Clients
  BY DEF UdpInv
<1> QED BY <1>1, <1>2

(* Every step of the servers, the clients and the network is one of the daytime
   service. *)
LEMMA UdpServes ==
  ASSUME UdpInv, UdpInv', network = "udp", network' = "udp", [Udp!Next]_(Udp!vars)
  PROVE  Service!DSNext \/ UNCHANGED <<Owed, Answers>>
<1>1. /\ Owed = [c \in Clients |-> toServer[c] + Sent(c) + Taken(c)]
      /\ Answers = [c \in Clients |-> toClient[c] + Served(c)]
      /\ Owed' = [c \in Clients |-> toServer'[c] + Sent(c)' + Taken(c)']
      /\ Answers' = [c \in Clients |-> toClient'[c] + Served(c)']
  BY UdpOwed, UdpOwedNext
<1>2. /\ \A c \in Clients : /\ toServer[c] \in Nat /\ toClient[c] \in Nat
                            /\ Sent(c) \in Nat /\ Taken(c) \in Nat /\ Served(c) \in Nat
      /\ \A c \in Clients : /\ toServer'[c] \in Nat /\ toClient'[c] \in Nat
                            /\ Sent(c)' \in Nat /\ Taken(c)' \in Nat /\ Served(c)' \in Nat
  BY UdpNatural, UdpNaturalNext
<1>3. Counts /\ Counts'
  BY <1>1, <1>2 DEF Counts
<1>4. ASSUME UNCHANGED <<toServer, toClient, client, sends, receive, remote_endpoint_>>
      PROVE  UNCHANGED <<Owed, Answers>>
  BY <1>1, <1>4 DEF Sent, Taken, Served
<1>5. ASSUME NEW c \in Clients, Udp!Lose(c) PROVE Service!DSNext
  <2>1. UNCHANGED <<client, sends, receive, remote_endpoint_>>
    BY <1>5 DEF Udp!Lose, Udp!server
  <2>2. \A d \in Clients : Sent(d)' = Sent(d) /\ Taken(d)' = Taken(d) /\ Served(d)' = Served(d)
    BY <2>1 DEF Sent, Taken, Served
  <2>3. CASE Udp!Fewer(toServer, c) /\ UNCHANGED toClient
    <3>1. /\ toServer[c] > 0 /\ toClient' = toClient
          /\ \A d \in Clients : toServer'[d] = IF d = c THEN toServer[d] - 1 ELSE toServer[d]
      BY <2>3 DEF Udp!Fewer, UdpInv
    <3>2. \A d \in {c} : Owed[d] > 0
      BY <1>1, <1>2, <3>1
    <3>3. Answers' = Answers
      BY <1>1, <2>2, <3>1
    <3>4. \A d \in Clients : Owed'[d] = IF d \in {c} THEN Owed[d] - 1 ELSE Owed[d]
      BY <1>1, <1>2, <2>2, <3>1
    <3> QED BY <1>3, <3>2, <3>3, <3>4, AreLostRequests
  <2>4. CASE Udp!Fewer(toClient, c) /\ UNCHANGED toServer
    <3>1. /\ toClient[c] > 0 /\ toServer' = toServer
          /\ \A d \in Clients : toClient'[d] = IF d = c THEN toClient[d] - 1 ELSE toClient[d]
      BY <2>4 DEF Udp!Fewer, UdpInv
    <3>2. Answers[c] > 0
      BY <1>1, <1>2, <3>1
    <3>3. Owed' = Owed
      BY <1>1, <2>2, <3>1
    <3>4. \A d \in Clients : Answers'[d] = IF d = c THEN Answers[d] - 1 ELSE Answers[d]
      BY <1>1, <1>2, <2>2, <3>1
    <3> QED BY <1>3, <3>2, <3>3, <3>4, IsALostAnswer
  <2> QED BY <1>5, <2>3, <2>4 DEF Udp!Lose
<1>6. ASSUME NEW c \in Clients, Udp!Duplicate(c) \/ Udp!send_to(c) PROVE Service!DSNext
  <2>1. UNCHANGED <<sends, receive, remote_endpoint_, toClient>>
    BY <1>6 DEF Udp!Duplicate, Udp!send_to, Udp!server
  <2>2. \A d \in Clients : Sent(d)' = Sent(d) /\ Taken(d)' = Taken(d)
    BY <2>1 DEF Sent, Taken
  <2>3. \A d \in Clients : Served(d)' = Served(d)
    BY <1>6 DEF Udp!Duplicate, Udp!send_to, Served, UdpInv
  <2>4. \A d \in Clients : toServer'[d] = IF d = c THEN toServer[d] + 1 ELSE toServer[d]
    BY <1>6 DEF Udp!Duplicate, Udp!send_to, Udp!More, UdpInv
  <2>5. Answers' = Answers
    BY <1>1, <2>1, <2>3
  <2>6. \A d \in Clients : Owed'[d] = IF d = c THEN Owed[d] + 1 ELSE Owed[d]
    BY <1>1, <1>2, <2>2, <2>4
  <2> QED BY <1>3, <2>5, <2>6, IsAnAsk
<1>7. ASSUME NEW c \in Clients, Udp!ClientFails(c) PROVE UNCHANGED <<Owed, Answers>>
  <2>1. UNCHANGED <<toServer, toClient, sends, receive, remote_endpoint_>>
    BY <1>7 DEF Udp!ClientFails, Udp!server
  <2>2. \A d \in Clients : Served(d)' = Served(d)
    BY <1>7 DEF Udp!ClientFails, Served, UdpInv
  <2> QED BY <1>1, <2>1, <2>2 DEF Sent, Taken
<1>8. ASSUME NEW c \in Clients, Udp!receive_from(c) PROVE UNCHANGED <<Owed, Answers>>
  <2>1. UNCHANGED <<toServer, sends, receive, remote_endpoint_>>
    BY <1>8 DEF Udp!receive_from, Udp!server
  <2>2. \A d \in Clients : toClient'[d] + Served(d)' = toClient[d] + Served(d)
    BY <1>2, <1>8 DEF Udp!receive_from, Udp!Fewer, Served, UdpInv
  <2> QED BY <1>1, <2>1, <2>2 DEF Sent, Taken
<1>9. ASSUME NEW c \in Clients, Udp!Receive(c) PROVE UNCHANGED <<Owed, Answers>>
  <2>1. UNCHANGED <<toClient, client, sends>>
    BY <1>9 DEF Udp!Receive
  <2>2. \A d \in Clients : toServer'[d] + Taken(d)' = toServer[d] + Taken(d)
    BY <1>2, <1>9 DEF Udp!Receive, Udp!Fewer, Taken, UdpInv
  <2>3. \A d \in Clients : Sent(d)' = Sent(d) /\ Served(d)' = Served(d)
    BY <2>1 DEF Sent, Served
  <2>4. \A d \in Clients : toServer'[d] + Sent(d)' + Taken(d)' = toServer[d] + Sent(d) + Taken(d)
    BY <1>2, <2>2, <2>3
  <2> QED BY <1>1, <2>1, <2>3, <2>4
<1>10. CASE Udp!ReceiveFails \/ Udp!ReceiveEnds
  <2>1. UNCHANGED <<toServer, toClient, client, sends>>
    BY <1>10 DEF Udp!ReceiveFails, Udp!ReceiveEnds
  <2>2. \A d \in Clients : Taken(d)' = Taken(d)
    BY <1>10 DEF Udp!ReceiveFails, Udp!ReceiveEnds, Taken
  <2> QED BY <1>1, <2>1, <2>2 DEF Sent, Served
<1>11. CASE Udp!handle_receive
  <2>1. /\ receive = "completed" /\ receive' = "pending" /\ remote_endpoint_ \in Clients
        /\ UNCHANGED <<toServer, toClient, client>>
    BY <1>11 DEF Udp!handle_receive, UdpInv
  <2>2. PICK m \in Messages \ alive :
          sends' = sends \union {[to |-> remote_endpoint_, message |-> m]}
    BY <1>11 DEF Udp!handle_receive
  <2> DEFINE new == [to |-> remote_endpoint_, message |-> m]
  <2>3. new \notin sends /\ new.to = remote_endpoint_
    BY DEF UdpInv
  <2>4. sends' = sends \union {new}
    BY <2>2
  <2> HIDE DEF new
  <2>5. \A d \in Clients : Sent(d)' = IF d = remote_endpoint_ THEN Sent(d) + 1 ELSE Sent(d)
    BY <2>3, <2>4, OneSendMore
  <2>6. \A d \in Clients : /\ Taken(d)' = 0
                           /\ Taken(d) = IF d = remote_endpoint_ THEN 1 ELSE 0
    BY <2>1 DEF Taken
  <2>7. \A d \in Clients : toServer'[d] + Sent(d)' + Taken(d)' = toServer[d] + Sent(d) + Taken(d)
    BY <1>2, <2>1, <2>5, <2>6
  <2>8. \A d \in Clients : Served(d)' = Served(d)
    BY <2>1 DEF Served
  <2> QED BY <1>1, <2>1, <2>7, <2>8
<1>12. CASE Udp!handle_send
  <2>1. PICK s \in sends : /\ sends' = sends \ {s}
                           /\ \/ toClient' = Udp!More(toClient, s.to)
                              \/ toClient' = toClient
    BY <1>12 DEF Udp!handle_send
  <2>2. UNCHANGED <<receive, remote_endpoint_, toServer, client>> /\ s.to \in Clients
    BY <1>12 DEF Udp!handle_send, UdpInv
  <2>3. /\ \A d \in Clients : Sent(d)' = IF d = s.to THEN Sent(d) - 1 ELSE Sent(d)
        /\ Sent(s.to) > 0
    BY <2>1, OneSendFewer
  <2>4. \A d \in Clients : Taken(d)' = Taken(d) /\ Served(d)' = Served(d)
    BY <2>2 DEF Taken, Served
  <2>5. \A d \in Clients : Owed'[d] = IF d = s.to THEN Owed[d] - 1 ELSE Owed[d]
    BY <1>1, <1>2, <2>2, <2>3, <2>4
  <2>6. Owed[s.to] > 0
    BY <1>1, <1>2, <2>2, <2>3
  <2>7. CASE toClient' = Udp!More(toClient, s.to)
    <3>1. \A d \in Clients : toClient'[d] = IF d = s.to THEN toClient[d] + 1 ELSE toClient[d]
      BY <2>7 DEF Udp!More, UdpInv
    <3>2. \A d \in Clients : Answers'[d] = IF d = s.to THEN Answers[d] + 1 ELSE Answers[d]
      BY <1>1, <1>2, <2>4, <3>1
    <3> QED BY <1>3, <2>2, <2>5, <2>6, <3>2, IsAnAnswer
  <2>8. CASE toClient' = toClient
    <3>1. Answers' = Answers
      BY <1>1, <2>4, <2>8
    <3>2. /\ \A c \in {s.to} : Owed[c] > 0 /\ {s.to} \in SUBSET Clients
          /\ \A d \in Clients : Owed'[d] = IF d \in {s.to} THEN Owed[d] - 1 ELSE Owed[d]
      BY <2>2, <2>5, <2>6
    <3> QED BY <1>3, <2>2, <3>1, <3>2, AreLostRequests
  <2> QED BY <2>1, <2>7, <2>8
<1>13. CASE Udp!SendSync
  <2> DEFINE c == remote_endpoint_
  <2>1. /\ receive = "completed" /\ receive' = "pending" /\ c \in Clients
        /\ UNCHANGED <<toServer, client, sends, remote_endpoint_>>
        /\ \/ toClient' = Udp!More(toClient, c)
           \/ toClient' = toClient
    BY <1>13 DEF Udp!SendSync, UdpInv
  <2>2. \A d \in Clients : /\ Taken(d)' = 0 /\ Taken(d) = IF d = c THEN 1 ELSE 0
                           /\ Sent(d)' = Sent(d) /\ Served(d)' = Served(d)
    BY <2>1 DEF Taken, Sent, Served
  <2>3. \A d \in Clients : Owed'[d] = IF d = c THEN Owed[d] - 1 ELSE Owed[d]
    BY <1>1, <1>2, <2>1, <2>2
  <2>4. Owed[c] > 0
    BY <1>1, <1>2, <2>1, <2>2
  <2>5. CASE toClient' = Udp!More(toClient, c)
    <3>1. \A d \in Clients : toClient'[d] = IF d = c THEN toClient[d] + 1 ELSE toClient[d]
      BY <2>5 DEF Udp!More, UdpInv
    <3>2. \A d \in Clients : Answers'[d] = IF d = c THEN Answers[d] + 1 ELSE Answers[d]
      BY <1>1, <1>2, <2>2, <3>1
    <3> QED BY <1>3, <2>1, <2>3, <2>4, <3>2, IsAnAnswer
  <2>6. CASE toClient' = toClient
    <3>1. Answers' = Answers
      BY <1>1, <2>2, <2>6
    <3>2. /\ \A d \in {c} : Owed[d] > 0 /\ {c} \in SUBSET Clients
          /\ \A d \in Clients : Owed'[d] = IF d \in {c} THEN Owed[d] - 1 ELSE Owed[d]
      BY <2>1, <2>3, <2>4
    <3> QED BY <1>3, <2>1, <3>1, <3>2, AreLostRequests
  <2> QED BY <2>1, <2>5, <2>6
<1>14. CASE UNCHANGED Udp!vars
  BY <1>4, <1>14 DEF Udp!vars, Udp!server
<1> QED
  BY <1>5, <1>6, <1>7, <1>8, <1>9, <1>10, <1>11, <1>12, <1>13, <1>14
     DEF Udp!Next, Udp!ServerStep, Udp!ClientStep, Udp!Waits

-----------------------------------------------------------------------------
(* The servers over TCP *)
TcpTypes ==
  /\ kind \in {"async", "sync"}
  /\ server \in {"accepting", "accepted", "failed", "writing", "ended"}
  /\ backlog \in Seq(Clients)
  /\ client \in [Clients -> {"start", "reading", "eof", "error", "failed"}]
  /\ closed \in [Clients -> {"open", "eof", "reset"}]
  /\ stream \in [Clients -> Int] /\ got \in [Clients -> Int]
  /\ \A k \in writes : peer[k] \in Clients
  /\ server = "accepted" => peer[accepting] \in Clients

(* A connection lives as long as it accepts or is written to. *)
Connected ==
  /\ writes \subseteq DOMAIN peer
  /\ server # "ended" => DOMAIN peer = writes \union {accepting}
  /\ kind = "async" => accepting \notin writes /\ server \notin {"writing", "ended"}
  /\ kind = "sync" => writes = IF server = "writing" THEN {accepting} ELSE {}

(* A client is in the backlog, accepted or written to once. *)
OnePlace ==
  /\ \A m, n \in 1 .. Len(backlog) : backlog[m] = backlog[n] => m = n
  /\ \A n \in 1 .. Len(backlog), k \in writes : backlog[n] # peer[k]
  /\ \A j, k \in writes : peer[j] = peer[k] => j = k
  /\ server = "accepted" =>
       /\ \A n \in 1 .. Len(backlog) : backlog[n] # peer[accepting]
       /\ \A k \in writes : peer[k] # peer[accepting]

(* Whoever is there has come, and its stream is not closed yet. *)
Waiting(c) == client[c] \notin {"start", "failed"} /\ closed[c] = "open"
NotClosed ==
  /\ \A n \in 1 .. Len(backlog) : Waiting(backlog[n])
  /\ \A k \in writes : Waiting(peer[k])
  /\ server = "accepted" => Waiting(peer[accepting])
  /\ \A c \in Clients : client[c] = "start" => closed[c] = "open"

Whole ==
  /\ \A c \in Clients : closed[c] = "eof" => stream[c] = Chunks
  /\ \A c \in Clients : client[c] = "eof" => got[c] = Chunks

TcpInv == TcpTypes /\ Connected /\ OnePlace /\ NotClosed /\ Whole

LEMMA InitTcp == Tcp!Init => TcpInv
<1> SUFFICES ASSUME Tcp!Init PROVE TcpInv
  OBVIOUS
<1>1. writes = {} /\ backlog = <<>> /\ Len(backlog) = 0 /\ server = "accepting"
  BY DEF Tcp!Init
<1>2. TcpTypes
  BY <1>1 DEF Tcp!Init, TcpTypes
<1>3. Connected
  BY <1>1 DEF Tcp!Init, Connected
<1>4. OnePlace
  BY <1>1 DEF OnePlace
<1>5. NotClosed
  BY <1>1 DEF Tcp!Init, NotClosed
<1>6. Whole
  BY <1>1 DEF Tcp!Init, Whole
<1> QED BY <1>2, <1>3, <1>4, <1>5, <1>6 DEF TcpInv

(* The backlog when a client connects, and when the first is accepted *)
LEMMA BacklogGrows ==
  ASSUME NEW s \in Seq(Clients), NEW c \in Clients
  PROVE  /\ Append(s, c) \in Seq(Clients) /\ Len(Append(s, c)) = Len(s) + 1
         /\ Append(s, c)[Len(s) + 1] = c
         /\ \A n \in 1 .. Len(s) : Append(s, c)[n] = s[n]
  BY AppendProperties

LEMMA BacklogShrinks ==
  ASSUME NEW s \in Seq(Clients), s # <<>>
  PROVE  /\ Len(s) \in Nat \ {0} /\ Head(s) = s[1]
         /\ Tail(s) \in Seq(Clients) /\ Len(Tail(s)) = Len(s) - 1
         /\ \A n \in 1 .. Len(s) - 1 : Tail(s)[n] = s[n + 1]
  BY HeadTailProperties, EmptySeq, LenProperties

(* The clients: connect() *)
LEMMA ConnectKeeps ==
  ASSUME TcpInv, NEW c \in Clients, Tcp!connect(c)
  PROVE  TcpInv'
<1> USE DEF TcpInv
<1>1. /\ client[c] = "start"
      /\ UNCHANGED <<kind, server, accepting, peer, writes, stream, got, closed>>
  BY DEF Tcp!connect
<1>2. CASE server = "ended"
  <2>1. client' = [client EXCEPT ![c] = "failed"] /\ backlog' = backlog
    BY <1>2 DEF Tcp!connect, Tcp!Goto
  <2>2. TcpTypes'
    BY <1>1, <2>1 DEF TcpTypes
  <2>3. Connected' /\ OnePlace'
    BY <1>1, <2>1 DEF Connected, OnePlace
  <2>4. NotClosed'
    BY <1>1, <2>1 DEF NotClosed, Waiting, TcpTypes
  <2>5. Whole'
    BY <1>1, <2>1 DEF Whole, TcpTypes
  <2> QED BY <2>2, <2>3, <2>4, <2>5
<1>3. CASE server # "ended"
  <2>1. client' = [client EXCEPT ![c] = "reading"] /\ backlog' = Append(backlog, c)
    BY <1>3 DEF Tcp!connect, Tcp!Goto
  <2>2. /\ backlog' \in Seq(Clients) /\ Len(backlog') = Len(backlog) + 1 /\ Len(backlog) \in Nat
        /\ backlog'[Len(backlog) + 1] = c
        /\ \A n \in 1 .. Len(backlog) : backlog'[n] = backlog[n]
    BY <2>1, BacklogGrows, LenProperties DEF TcpTypes
  <2>3. \A n \in 1 .. Len(backlog) + 1 : n = Len(backlog) + 1 \/ n \in 1 .. Len(backlog)
    BY <2>2
  <2>4. /\ \A n \in 1 .. Len(backlog) : backlog[n] # c
        /\ \A k \in writes : peer[k] # c
        /\ server = "accepted" => peer[accepting] # c
    BY <1>1 DEF NotClosed, Waiting
  <2>5. TcpTypes'
    BY <1>1, <2>1, <2>2 DEF TcpTypes
  <2>6. Connected'
    BY <1>1 DEF Connected
  <2>7. OnePlace'
    BY <1>1, <2>2, <2>3, <2>4 DEF OnePlace
  <2>8. \A d \in Clients : Waiting(d)' <=> d = c \/ Waiting(d)
    BY <1>1, <2>1 DEF Waiting, TcpTypes, NotClosed
  <2>9. \A n \in 1 .. Len(backlog) : backlog[n] \in Clients
    BY DEF TcpTypes
  <2>10. NotClosed'
    BY <1>1, <2>1, <2>2, <2>3, <2>8, <2>9 DEF NotClosed, TcpTypes
  <2>11. Whole'
    BY <1>1, <2>1 DEF Whole, TcpTypes
  <2> QED BY <2>5, <2>6, <2>7, <2>10, <2>11
<1> QED BY <1>2, <1>3

(* read_some(), and what ends a client *)
LEMMA ReadKeeps ==
  ASSUME TcpInv, NEW c \in Clients, Tcp!read_some(c) \/ Tcp!ClientLeaves(c)
  PROVE  TcpInv'
<1> USE DEF TcpInv
<1>1. UNCHANGED <<kind, server, accepting, peer, writes, backlog, stream, closed>>
  BY DEF Tcp!read_some, Tcp!ClientLeaves
<1>2. /\ client' \in [Clients -> {"start", "reading", "eof", "error", "failed"}]
      /\ got' \in [Clients -> Int]
      /\ \A d \in Clients \ {c} : client'[d] = client[d] /\ got'[d] = got[d]
  BY DEF Tcp!read_some, Tcp!ClientLeaves, Tcp!Goto, TcpTypes
<1>3. /\ client'[c] = "start" => client[c] = "start"
      /\ client'[c] = "failed" => client[c] = "start"
      /\ client'[c] = "eof" => closed[c] = "eof" /\ got'[c] = stream[c]
  BY DEF Tcp!read_some, Tcp!ClientLeaves, Tcp!Goto, TcpTypes
<1>4. TcpTypes' /\ Connected' /\ OnePlace'
  BY <1>1, <1>2 DEF TcpTypes, Connected, OnePlace
<1>5. \A d \in Clients : Waiting(d) => Waiting(d)'
  BY <1>1, <1>2, <1>3 DEF Waiting
<1>6. \A n \in 1 .. Len(backlog) : backlog[n] \in Clients
  BY DEF TcpTypes
<1>7. NotClosed'
  BY <1>1, <1>2, <1>3, <1>5, <1>6 DEF NotClosed, TcpTypes
<1>8. Whole'
  BY <1>1, <1>2, <1>3 DEF Whole
<1> QED BY <1>4, <1>7, <1>8

LEMMA AcceptKeeps ==
  ASSUME TcpInv, Tcp!Accept
  PROVE  TcpInv'
<1> USE DEF TcpInv
<1>1. /\ server = "accepting" /\ server' = "accepted" /\ backlog # <<>>
      /\ peer' = [peer EXCEPT ![accepting] = Head(backlog)]
      /\ backlog' = Tail(backlog)
      /\ UNCHANGED <<kind, accepting, writes, client, stream, got, closed>>
  BY DEF Tcp!Accept
<1>2. /\ Len(backlog) \in Nat \ {0} /\ Head(backlog) = backlog[1] /\ backlog[1] \in Clients
      /\ backlog' \in Seq(Clients) /\ Len(backlog') = Len(backlog) - 1
      /\ \A n \in 1 .. Len(backlog) - 1 : backlog'[n] = backlog[n + 1]
  BY <1>1, BacklogShrinks DEF TcpTypes
<1>3. \A n \in 1 .. Len(backlog) - 1 : n + 1 \in 1 .. Len(backlog) /\ n + 1 # 1
  BY <1>2
<1>4. accepting \notin writes /\ accepting \in DOMAIN peer
  BY <1>1 DEF Connected, TcpTypes
<1>5. /\ DOMAIN peer' = DOMAIN peer /\ peer'[accepting] = backlog[1]
      /\ \A k \in writes : peer'[k] = peer[k]
  BY <1>1, <1>2, <1>4 DEF Connected
<1>6. TcpTypes'
  BY <1>1, <1>2, <1>5 DEF TcpTypes
<1>7. Connected'
  BY <1>1, <1>5 DEF Connected
<1>8. OnePlace'
  <2>1. 1 \in 1 .. Len(backlog)
    BY <1>2
  <2>2. \A m, n \in 1 .. Len(backlog) - 1 : backlog'[m] = backlog'[n] => m = n
    <3> TAKE m, n \in 1 .. Len(backlog) - 1
    <3>1. backlog[m + 1] = backlog[n + 1] => m + 1 = n + 1
      BY <1>3 DEF OnePlace
    <3>2. m \in Int /\ n \in Int
      BY <1>2
    <3> QED BY <1>2, <3>1, <3>2
  <2>3. \A n \in 1 .. Len(backlog) - 1 : backlog'[n] # backlog[1]
    BY <1>2, <1>3, <2>1 DEF OnePlace
  <2>4. \A n \in 1 .. Len(backlog) - 1, k \in writes : backlog'[n] # peer[k]
    BY <1>2, <1>3 DEF OnePlace
  <2>5. \A k \in writes : peer[k] # backlog[1]
    BY <2>1 DEF OnePlace
  <2>6. \A j, k \in writes : peer[j] = peer[k] => j = k
    BY DEF OnePlace
  <2> QED BY <1>1, <1>2, <1>5, <2>2, <2>3, <2>4, <2>5, <2>6 DEF OnePlace
<1>9. NotClosed'
  <2>1. \A c : Waiting(c)' = Waiting(c)
    BY <1>1 DEF Waiting
  <2>2. 1 \in 1 .. Len(backlog)
    BY <1>2
  <2> QED BY <1>1, <1>2, <1>3, <1>5, <2>1, <2>2 DEF NotClosed
<1>10. Whole'
  BY <1>1 DEF Whole
<1> QED BY <1>6, <1>7, <1>8, <1>9, <1>10

LEMMA AcceptFailsKeeps ==
  ASSUME TcpInv, Tcp!AcceptFails
  PROVE  TcpInv'
  BY DEF TcpInv, Tcp!AcceptFails, TcpTypes, Connected, OnePlace, NotClosed, Waiting, Whole

(* handle_accept(): the connection that was accepted is written to, one whose
   accept has failed is destroyed, and a new one waits. *)
LEMMA HandleAcceptKeeps ==
  ASSUME TcpInv, Tcp!handle_accept
  PROVE  TcpInv'
<1> USE DEF TcpInv
<1> DEFINE kept == IF server = "accepted" THEN DOMAIN peer ELSE DOMAIN peer \ {accepting}
<1>1. /\ kind = "async" /\ server \in {"accepted", "failed"} /\ server' = "accepting"
      /\ writes' = IF server = "accepted" THEN writes \union {accepting} ELSE writes
      /\ UNCHANGED <<kind, backlog, client, stream, got, closed>>
  BY DEF Tcp!handle_accept
<1>2. PICK new \in Connections \ DOMAIN peer :
        /\ accepting' = new
        /\ peer' = [j \in kept \union {new} |-> IF j = new THEN NoClient ELSE peer[j]]
  BY DEF Tcp!handle_accept
<1>3. accepting \notin writes /\ DOMAIN peer = writes \union {accepting}
  BY <1>1 DEF Connected
<1>4. writes' = kept /\ new \notin kept
  BY <1>1, <1>2, <1>3
<1>5. /\ DOMAIN peer' = writes' \union {new}
      /\ \A k \in writes' : k # new /\ peer'[k] = peer[k]
  BY <1>2, <1>4
<1>6. \A k \in writes' : k \in writes \/ (server = "accepted" /\ k = accepting)
  BY <1>1
<1>7. TcpTypes'
  BY <1>1, <1>5, <1>6 DEF TcpTypes
<1>8. Connected'
  BY <1>1, <1>2, <1>5 DEF Connected
<1>9. OnePlace'
  BY <1>1, <1>5, <1>6 DEF OnePlace
<1>10. NotClosed'
  BY <1>1, <1>5, <1>6 DEF NotClosed, Waiting
<1>11. Whole'
  BY <1>1 DEF Whole
<1> QED BY <1>7, <1>8, <1>9, <1>10, <1>11

LEMMA AcceptedSyncKeeps ==
  ASSUME TcpInv, Tcp!AcceptedSync
  PROVE  TcpInv'
<1> USE DEF TcpInv
<1>1. /\ kind = "sync" /\ UNCHANGED <<kind, accepting, client, stream, got>>
      /\ \/ /\ server = "accepted" /\ server' = "writing" /\ writes' = {accepting}
            /\ UNCHANGED <<peer, backlog, closed>>
         \/ /\ server = "failed" /\ server' = "ended" /\ peer' = <<>> /\ backlog' = <<>>
            /\ closed' = [c \in Clients |-> IF \E n \in DOMAIN backlog : backlog[n] = c
                                             THEN "reset" ELSE closed[c]]
            /\ writes' = writes
  BY DEF Tcp!AcceptedSync
<1>2. writes = {}
  BY <1>1 DEF Connected
<1>3. CASE server = "accepted"
  <2>1. TcpTypes' /\ Connected'
    BY <1>1, <1>2, <1>3 DEF TcpTypes, Connected
  <2>2. OnePlace' /\ NotClosed' /\ Whole'
    BY <1>1, <1>2, <1>3 DEF OnePlace, NotClosed, Waiting, Whole
  <2> QED BY <2>1, <2>2
<1>4. CASE server = "failed"
  <2>1. /\ server' = "ended" /\ writes' = {} /\ backlog' = <<>> /\ Len(backlog') = 0
        /\ UNCHANGED <<kind, client, stream, got>>
    BY <1>1, <1>2, <1>4
  <2>2. /\ closed' \in [Clients -> {"open", "eof", "reset"}]
        /\ \A c \in Clients : closed'[c] = closed[c] \/ closed'[c] = "reset"
    BY <1>1, <1>4 DEF TcpTypes
  <2>3. TcpTypes'
    BY <2>1, <2>2 DEF TcpTypes
  <2>4. Connected' /\ OnePlace'
    BY <1>1, <2>1 DEF Connected, OnePlace
  <2>5. \A c \in Clients : client[c] = "start" => closed'[c] = "open"
    <3> SUFFICES ASSUME NEW c \in Clients, client[c] = "start" PROVE closed'[c] = "open"
      OBVIOUS
    <3>1. \A n \in 1 .. Len(backlog) : backlog[n] # c
      BY DEF NotClosed, Waiting
    <3>2. DOMAIN backlog = 1 .. Len(backlog)
      BY LenProperties DEF TcpTypes
    <3> QED BY <1>1, <1>4, <3>1, <3>2 DEF NotClosed
  <2>6. NotClosed'
    BY <2>1, <2>5 DEF NotClosed
  <2>7. Whole'
    BY <2>1, <2>2 DEF Whole
  <2> QED BY <2>3, <2>4, <2>6, <2>7
<1> QED BY <1>1, <1>3, <1>4

LEMMA WriteKeeps ==
  ASSUME TcpInv, NEW k, Tcp!write_some(k)
  PROVE  TcpInv'
<1> USE DEF TcpInv
<1>1. /\ k \in writes /\ stream' = [stream EXCEPT ![peer[k]] = @ + 1]
      /\ UNCHANGED <<kind, server, accepting, peer, writes, backlog, client, got, closed>>
  BY DEF Tcp!write_some
<1>2. peer[k] \in Clients /\ closed[peer[k]] = "open"
  BY <1>1 DEF TcpTypes, NotClosed, Waiting
<1>3. TcpTypes'
  BY <1>1, <1>2 DEF TcpTypes
<1>4. Connected' /\ OnePlace' /\ NotClosed'
  BY <1>1 DEF Connected, OnePlace, NotClosed, Waiting
<1>5. Whole'
  BY <1>1, <1>2 DEF Whole, TcpTypes
<1> QED BY <1>3, <1>4, <1>5

(* handle_write(): the stream is closed, and only then; whoever else is there
   is another client. *)
LEMMA HandleWriteKeeps ==
  ASSUME TcpInv, NEW k, Tcp!handle_write(k)
  PROVE  TcpInv'
<1> USE DEF TcpInv
<1> DEFINE c == peer[k]
<1>1. /\ k \in writes /\ k \in DOMAIN peer /\ writes' = writes \ {k}
      /\ UNCHANGED <<kind, accepting, backlog, client, stream, got>>
      /\ \/ stream[c] = Chunks /\ closed' = [closed EXCEPT ![c] = "eof"]
         \/ closed' = [closed EXCEPT ![c] = "reset"]
      /\ IF kind = "async" THEN peer' = Tcp!Without(peer, k) /\ server' = server
         ELSE peer' = [peer EXCEPT ![k] = NoClient] /\ server' = "accepting"
  BY DEF Tcp!handle_write
<1>2. c \in Clients
  BY <1>1 DEF TcpTypes
<1>3. /\ closed' \in [Clients -> {"open", "eof", "reset"}]
      /\ \A d \in Clients : d # c => closed'[d] = closed[d]
      /\ closed'[c] = "eof" => stream[c] = Chunks
  BY <1>1, <1>2 DEF TcpTypes
<1>4. /\ \A j \in writes' : j \in writes /\ peer'[j] = peer[j]
      /\ \A j \in writes' : peer[j] # c
      /\ DOMAIN peer' = IF kind = "async" THEN DOMAIN peer \ {k} ELSE DOMAIN peer
  BY <1>1 DEF Tcp!Without, Connected, OnePlace
<1>5. /\ kind = "sync" => /\ writes = {k} /\ accepting = k /\ server' = "accepting"
                          /\ server = "writing"
      /\ kind = "async" => /\ server' = server /\ accepting # k
                           /\ peer'[accepting] = peer[accepting]
  <2>1. kind = "sync" => writes = {k} /\ accepting = k /\ server = "writing"
    BY <1>1 DEF Connected
  <2>2. kind = "async" => accepting # k /\ accepting \in DOMAIN peer
    BY <1>1 DEF Connected
  <2> QED BY <1>1, <2>1, <2>2 DEF Tcp!Without
<1>6. kind \in {"async", "sync"}
  BY DEF TcpTypes
<1>7. TcpTypes'
  BY <1>1, <1>3, <1>4, <1>5, <1>6 DEF TcpTypes
<1>8. Connected'
  <2>1. writes' \subseteq DOMAIN peer'
    BY <1>1, <1>4 DEF Connected
  <2>2. CASE kind = "async"
    BY <1>1, <1>4, <1>5, <2>1, <2>2 DEF Connected
  <2>3. CASE kind = "sync"
    BY <1>1, <1>4, <1>5, <2>1, <2>3 DEF Connected
  <2> QED BY <1>6, <2>2, <2>3
<1>9. OnePlace'
  BY <1>1, <1>4, <1>5, <1>6 DEF OnePlace
<1>10. NotClosed'
  <2> DEFINE StillWaits(d) == client'[d] \notin {"start", "failed"} /\ closed'[d] = "open"
  <2>1. \A d \in Clients : d # c /\ Waiting(d) => StillWaits(d)
    BY <1>1, <1>3 DEF Waiting
  <2>2. \A n \in 1 .. Len(backlog) : backlog[n] \in Clients /\ backlog[n] # c
    BY <1>1 DEF TcpTypes, OnePlace
  <2>3. server' = "accepted" => /\ server = "accepted" /\ peer'[accepting] = peer[accepting]
                                /\ peer[accepting] # c /\ peer[accepting] \in Clients
    BY <1>1, <1>5, <1>6 DEF OnePlace, TcpTypes
  <2>4. \A d \in Clients : client[d] = "start" => d # c
    BY <1>1 DEF NotClosed, Waiting
  <2>5. \A n \in 1 .. Len(backlog) : StillWaits(backlog[n])
    <3> HIDE DEF StillWaits
    <3> QED BY <1>1, <2>1, <2>2 DEF NotClosed
  <2>6. \A j \in writes' : StillWaits(peer'[j])
    <3> HIDE DEF StillWaits
    <3> QED BY <1>4, <2>1 DEF NotClosed, TcpTypes
  <2>7. server' = "accepted" => StillWaits(peer'[accepting])
    <3> HIDE DEF StillWaits
    <3> QED BY <1>1, <2>1, <2>3 DEF NotClosed
  <2>8. \A d \in Clients : client'[d] = "start" => closed'[d] = "open"
    BY <1>1, <1>3, <2>4 DEF NotClosed
  <2> QED BY <1>1, <2>5, <2>6, <2>7, <2>8 DEF NotClosed, Waiting
<1>11. Whole'
  BY <1>1, <1>2, <1>3 DEF Whole
<1> QED BY <1>7, <1>8, <1>9, <1>10, <1>11

LEMMA TcpStutters ==
  ASSUME TcpInv, UNCHANGED Tcp!vars
  PROVE  TcpInv'
  BY DEF TcpInv, Tcp!vars, TcpTypes, Connected, OnePlace, NotClosed, Waiting, Whole

LEMMA TcpSteps ==
  ASSUME TcpInv, [Tcp!Next]_(Tcp!vars)
  PROVE  TcpInv'
  BY ConnectKeeps, ReadKeeps, AcceptKeeps, AcceptFailsKeeps, HandleAcceptKeeps,
     AcceptedSyncKeeps, WriteKeeps, HandleWriteKeeps, TcpStutters
     DEF Tcp!Next, Tcp!AcceptedStep, Tcp!WriteStep, Tcp!ClientStep, Tcp!Waits

(* What a TCP server owes: one answer to each client that is there, until its
   stream is closed. *)
Pending(c) == IF Waiting(c) THEN 1 ELSE 0
Delivered(c) == IF closed[c] = "eof" /\ stream[c] = Chunks THEN 1 ELSE 0

LEMMA TcpOwed ==
  ASSUME network = "tcp"
  PROVE  /\ Owed = [c \in Clients |-> Pending(c)]
         /\ Answers = [c \in Clients |-> Delivered(c)]
  BY DEF Owed, Answers, Tcp!Owed, Tcp!Answers, Pending, Waiting, Delivered

LEMMA TcpOwedNext ==
  ASSUME network' = "tcp"
  PROVE  /\ Owed' = [c \in Clients |-> Pending(c)']
         /\ Answers' = [c \in Clients |-> Delivered(c)']
  BY DEF Owed, Answers, Tcp!Owed, Tcp!Answers, Pending, Waiting, Delivered

(* Every step of the servers and the clients is one of the daytime service. *)
LEMMA TcpServes ==
  ASSUME TcpInv, network = "tcp", network' = "tcp", [Tcp!Next]_(Tcp!vars)
  PROVE  Service!DSNext \/ UNCHANGED <<Owed, Answers>>
<1>1. /\ Owed = [c \in Clients |-> Pending(c)]
      /\ Answers = [c \in Clients |-> Delivered(c)]
      /\ Owed' = [c \in Clients |-> Pending(c)']
      /\ Answers' = [c \in Clients |-> Delivered(c)']
  BY TcpOwed, TcpOwedNext
<1>2. Counts /\ Counts'
  <2>1. \A c \in Clients : /\ Pending(c) \in Nat /\ Delivered(c) \in Nat
                           /\ Pending(c)' \in Nat /\ Delivered(c)' \in Nat
    BY DEF Pending, Delivered
  <2> QED BY <1>1, <2>1 DEF Counts
<1>3. ASSUME \A c \in Clients : Pending(c)' = Pending(c) /\ Delivered(c)' = Delivered(c)
      PROVE  UNCHANGED <<Owed, Answers>>
  BY <1>1, <1>3
<1>4. ASSUME UNCHANGED <<client, stream, closed>> PROVE UNCHANGED <<Owed, Answers>>
  BY <1>3, <1>4 DEF Pending, Waiting, Delivered
<1>5. CASE UNCHANGED Tcp!vars
  BY <1>4, <1>5 DEF Tcp!vars
<1>6. CASE Tcp!Accept \/ Tcp!AcceptFails \/ Tcp!handle_accept
  BY <1>4, <1>6 DEF Tcp!Accept, Tcp!AcceptFails, Tcp!handle_accept
<1>7. ASSUME NEW c \in Clients, Tcp!connect(c)
      PROVE  Service!DSNext \/ UNCHANGED <<Owed, Answers>>
  <2>1. client[c] = "start" /\ closed[c] = "open" /\ UNCHANGED <<stream, closed>>
    BY <1>7 DEF Tcp!connect, TcpInv, NotClosed
  <2>2. /\ client' = [client EXCEPT ![c] = IF server = "ended" THEN "failed" ELSE "reading"]
        /\ client \in [Clients -> {"start", "reading", "eof", "error", "failed"}]
    BY <1>7 DEF Tcp!connect, Tcp!Goto, TcpInv, TcpTypes
  <2>3. \A d \in Clients : Delivered(d)' = Delivered(d)
    BY <2>1 DEF Delivered
  <2>4. CASE server = "ended"
    BY <1>3, <2>1, <2>2, <2>3, <2>4 DEF Pending, Waiting
  <2>5. CASE server # "ended"
    <3>1. \A d \in Clients : Owed'[d] = IF d = c THEN Owed[d] + 1 ELSE Owed[d]
      BY <1>1, <2>1, <2>2, <2>5 DEF Pending, Waiting
    <3>2. Answers' = Answers
      BY <1>1, <2>3
    <3> QED BY <1>2, <3>1, <3>2, IsAnAsk
  <2> QED BY <2>4, <2>5
<1>8. ASSUME NEW c \in Clients, Tcp!read_some(c) \/ Tcp!ClientLeaves(c)
      PROVE  UNCHANGED <<Owed, Answers>>
  <2>1. UNCHANGED <<stream, closed>>
    BY <1>8 DEF Tcp!read_some, Tcp!ClientLeaves
  <2>2. \A d \in Clients : client'[d] \in {"start", "failed"} <=> client[d] \in {"start", "failed"}
    BY <1>8 DEF Tcp!read_some, Tcp!ClientLeaves, Tcp!Goto, TcpInv, TcpTypes
  <2>3. \A d \in Clients : Pending(d)' = Pending(d) /\ Delivered(d)' = Delivered(d)
    BY <2>1, <2>2 DEF Pending, Waiting, Delivered
  <2> QED BY <1>3, <2>3
<1>9. CASE Tcp!AcceptedSync
  <2>1. CASE UNCHANGED closed
    BY <1>4, <1>9, <2>1 DEF Tcp!AcceptedSync
  <2> DEFINE gone == {c \in Clients : \E n \in DOMAIN backlog : backlog[n] = c}
  <2>2. CASE closed' = [c \in Clients |-> IF c \in gone THEN "reset" ELSE closed[c]]
    <3>1. UNCHANGED <<client, stream>>
      BY <1>9 DEF Tcp!AcceptedSync
    <3>2. \A c \in gone : Waiting(c)
      <4>1. DOMAIN backlog = 1 .. Len(backlog)
        BY LenProperties DEF TcpInv, TcpTypes
      <4> QED BY <4>1 DEF TcpInv, NotClosed
    <3> HIDE DEF gone
    <3>3. gone \in SUBSET Clients
      BY DEF gone
    <3>4. \A d \in Clients : closed'[d] = IF d \in gone THEN "reset" ELSE closed[d]
      BY <2>2
    <3>5. \A d \in Clients : Delivered(d)' = Delivered(d)
      BY <3>1, <3>2, <3>4 DEF Delivered, Waiting
    <3>6. \A d \in Clients : Pending(d)' = IF d \in gone THEN 0 ELSE Pending(d)
      BY <3>1, <3>4 DEF Pending, Waiting
    <3>7. \A d \in gone : Pending(d) = 1
      BY <3>2 DEF Pending
    <3>8. Answers' = Answers
      BY <1>1, <3>5
    <3>9. \A c \in gone : Owed[c] = 1
      BY <1>1, <3>3, <3>7
    <3>10. \A d \in Clients : Owed'[d] = IF d \in gone THEN Owed[d] - 1 ELSE Owed[d]
      BY <1>1, <3>6, <3>9
    <3>11. \A c \in gone : Owed[c] > 0
      BY <3>9
    <3> QED BY <1>2, <3>3, <3>8, <3>10, <3>11, AreLostRequests
  <2>3. \/ UNCHANGED closed
        \/ closed' = [c \in Clients |-> IF \E n \in DOMAIN backlog : backlog[n] = c
                                         THEN "reset" ELSE closed[c]]
    BY <1>9 DEF Tcp!AcceptedSync
  <2> QED BY <2>1, <2>2, <2>3
<1>10. ASSUME NEW k, Tcp!write_some(k) PROVE UNCHANGED <<Owed, Answers>>
  <2>1. /\ k \in writes /\ stream' = [stream EXCEPT ![peer[k]] = @ + 1]
        /\ UNCHANGED <<client, closed>>
    BY <1>10 DEF Tcp!write_some
  <2>2. Waiting(peer[k]) /\ peer[k] \in Clients /\ stream \in [Clients -> Int]
    BY <2>1 DEF TcpInv, TcpTypes, NotClosed
  <2>3. \A d \in Clients : Pending(d)' = Pending(d) /\ Delivered(d)' = Delivered(d)
    BY <2>1, <2>2 DEF Pending, Waiting, Delivered
  <2> QED BY <1>3, <2>3
<1>11. ASSUME NEW k, Tcp!handle_write(k) PROVE Service!DSNext
  <2> DEFINE c == peer[k]
  <2>1. /\ k \in writes /\ UNCHANGED <<client, stream>>
        /\ \/ stream[c] = Chunks /\ closed' = [closed EXCEPT ![c] = "eof"]
           \/ stream[c] < Chunks /\ closed' = [closed EXCEPT ![c] = "reset"]
    BY <1>11 DEF Tcp!handle_write
  <2>2. /\ c \in Clients /\ Waiting(c) /\ closed \in [Clients -> {"open", "eof", "reset"}]
    BY <2>1 DEF TcpInv, TcpTypes, NotClosed
  <2> HIDE DEF c
  <2>3. \A d \in Clients : Pending(d)' = IF d = c THEN 0 ELSE Pending(d)
    BY <2>1, <2>2 DEF Pending, Waiting
  <2>4. Pending(c) = 1 /\ Delivered(c) = 0
    BY <2>2 DEF Pending, Delivered, Waiting
  <2>5. Owed[c] > 0 /\ \A d \in Clients : Owed'[d] = IF d = c THEN Owed[d] - 1 ELSE Owed[d]
    BY <1>1, <2>2, <2>3, <2>4
  <2>6. CASE stream[c] = Chunks /\ closed' = [closed EXCEPT ![c] = "eof"]
    <3>1. \A d \in Clients : Delivered(d)' = IF d = c THEN 1 ELSE Delivered(d)
      BY <2>1, <2>2, <2>6 DEF Delivered
    <3>2. \A d \in Clients : Answers'[d] = IF d = c THEN Answers[d] + 1 ELSE Answers[d]
      BY <1>1, <2>2, <2>4, <3>1
    <3> QED BY <1>2, <2>2, <2>5, <3>2, IsAnAnswer
  <2>7. CASE closed' = [closed EXCEPT ![c] = "reset"]
    <3>1. \A d \in Clients : Delivered(d)' = Delivered(d)
      BY <2>1, <2>2, <2>7 DEF Delivered, Waiting
    <3>2. Answers' = Answers
      BY <1>1, <3>1
    <3>3. /\ {c} \in SUBSET Clients /\ \A d \in {c} : Owed[d] > 0
          /\ \A d \in Clients : Owed'[d] = IF d \in {c} THEN Owed[d] - 1 ELSE Owed[d]
      BY <2>2, <2>5
    <3> QED BY <1>2, <3>2, <3>3, AreLostRequests
  <2> QED BY <2>1, <2>6, <2>7
<1> QED
  BY <1>5, <1>6, <1>7, <1>8, <1>9, <1>10, <1>11
     DEF Tcp!Next, Tcp!AcceptedStep, Tcp!WriteStep, Tcp!ClientStep, Tcp!Waits

-----------------------------------------------------------------------------
(* The Redis listener *)
(* A listener that leaves its loop without an error leaves a connection that
   was cancelled. *)
LeavesCancelled ==
  /\ listener \in {"left", "aborted"} => conn = "cancelled"
  /\ dangling => listener = "failed"

PushesInOrder ==
  /\ pushes \in Nat /\ printed \in Seq(Nat) /\ resp \in Seq(Nat)
  /\ ~dangling => printed \o resp = [n \in 1 .. pushes |-> n]

LEMMA InitRedis == Redis!Init => LeavesCancelled /\ PushesInOrder
<1> SUFFICES ASSUME Redis!Init PROVE LeavesCancelled /\ PushesInOrder
  OBVIOUS
<1>1. /\ listener = "exec" /\ pushes = 0 /\ printed = <<>> /\ resp = <<>>
      /\ dangling = FALSE
  BY Zenon DEF Redis!Init
<1>2. LeavesCancelled
  BY <1>1, Zenon DEF LeavesCancelled
<1>3. printed \in Seq(Nat) /\ resp \in Seq(Nat) /\ pushes \in Nat
  BY <1>1
<1>4. printed \o resp = [n \in 1 .. pushes |-> n]
  BY <1>1
<1> QED BY <1>2, <1>3, <1>4, Zenon DEF PushesInOrder

LEMMA RedisLeaves ==
  ASSUME LeavesCancelled, [Redis!Next]_redisVars
  PROVE  LeavesCancelled'
<1>1. CASE UNCHANGED redisVars
  BY <1>1, Zenon DEF redisVars, LeavesCancelled
<1>2. CASE Redis!Push
  <2>1. listener' = listener /\ conn' = conn /\ conn = "up"
    BY <1>2, Zenon DEF Redis!Push
  <2>2. "up" # "cancelled"
    OBVIOUS
  <2>3. dangling' => listener = "failed"
    BY <1>2, <2>1, <2>2, Zenon DEF Redis!Push, Redis!Gone, LeavesCancelled
  <2> QED BY <2>1, <2>3, Zenon DEF LeavesCancelled
<1>3. CASE Redis!Reconnect \/ Redis!Disconnect \/ Redis!PushError \/ Redis!RunReturns \/ Redis!Done
  <2>1. listener' = listener /\ dangling' = dangling /\ (conn = "cancelled" => conn' = conn)
    BY <1>3 DEF Redis!Reconnect, Redis!Disconnect, Redis!PushError, Redis!RunReturns, Redis!Done,
                Redis!vars
  <2> QED BY <2>1, Zenon DEF LeavesCancelled
<1>4. CASE Redis!Subscribed \/ Redis!Receive \/ Redis!Consume \/ Redis!AwaitFails
  <2>1. /\ listener \in {"exec", "receive", "ready"} /\ conn' = conn /\ dangling' = dangling
        /\ \/ listener' \in {"receive", "ready", "failed"}
           \/ listener' = "left" /\ conn = "cancelled"
    BY <1>4 DEF Redis!Subscribed, Redis!Receive, Redis!Consume, Redis!AwaitFails, Redis!Loop,
                Redis!will_reconnect
  <2>2. listener # "failed" /\ listener' # "aborted"
    BY <2>1
  <2>3. listener' = "left" => conn = "cancelled"
    BY <2>1
  <2> QED BY <2>1, <2>2, <2>3, Zenon DEF LeavesCancelled
<1>5. CASE Redis!Break
  <2>1. /\ listener \in {"ready", "aborted"} /\ conn' = conn /\ dangling' = dangling
        /\ \/ listener' = "failed"
           \/ listener = "aborted" /\ listener' = "left"
    BY <1>5, Zenon DEF Redis!Break
  <2>2. listener # "failed" /\ "failed" \notin {"left", "aborted"}
    BY <2>1
  <2> QED BY <2>1, <2>2, Zenon DEF LeavesCancelled
<1>6. CASE Redis!Signal
  <2>1. /\ conn' = "cancelled" /\ dangling' = dangling
        /\ listener' = listener \/ listener \in {"exec", "receive"}
    BY <1>6, Zenon DEF Redis!Signal
  <2>2. listener \in {"exec", "receive"} => listener # "failed"
    OBVIOUS
  <2> QED BY <2>1, <2>2, Zenon DEF LeavesCancelled
<1> QED
  BY <1>1, <1>2, <1>3, <1>4, <1>5, <1>6, Zenon DEF Redis!Next, Redis!ProgramStep

LEMMA RedisPushes ==
  ASSUME LeavesCancelled, PushesInOrder, [Redis!Next]_redisVars
  PROVE  PushesInOrder'
<1>1. ASSUME UNCHANGED <<pushes, printed, resp, dangling>> PROVE PushesInOrder'
  BY <1>1, Zenon DEF PushesInOrder
<1>2. CASE Redis!Push
  <2>1. CASE Redis!Gone
    BY <1>2, <2>1 DEF Redis!Push, PushesInOrder
  <2>2. CASE ~Redis!Gone
    <3>1. /\ pushes' = pushes + 1 /\ resp' = Append(resp, pushes + 1)
          /\ printed' = printed /\ dangling' = dangling
      BY <1>2, <2>2, Zenon DEF Redis!Push
    <3>2. pushes \in Nat /\ printed \in Seq(Nat) /\ resp \in Seq(Nat)
      BY DEF PushesInOrder
    <3>3. pushes' \in Nat /\ printed' \in Seq(Nat) /\ resp' \in Seq(Nat)
      BY <3>1, <3>2, AppendProperties
    <3>4. ASSUME ~dangling PROVE printed' \o resp' = [n \in 1 .. pushes' |-> n]
      <4> DEFINE all == [n \in 1 .. pushes |-> n]
      <4>1. all \in Seq(Nat) /\ Len(all) = pushes
        BY <3>2
      <4>2. printed \o Append(resp, pushes + 1) = Append(printed \o resp, pushes + 1)
        BY <3>2
      <4>3. printed \o resp = all
        BY <3>4, Zenon DEF PushesInOrder
      <4>4. Append(all, pushes + 1) = [n \in 1 .. pushes + 1 |-> n]
        BY <3>2
      <4> QED BY <3>1, <4>2, <4>3, <4>4
    <3> QED BY <3>1, <3>3, <3>4, Zenon DEF PushesInOrder
  <2> QED BY <2>1, <2>2
<1>3. CASE Redis!Consume
  <2>1. /\ printed' = printed \o resp /\ resp' = <<>>
        /\ pushes' = pushes /\ dangling' = dangling
    BY <1>3, Zenon DEF Redis!Consume
  <2>2. pushes \in Nat /\ printed \in Seq(Nat) /\ resp \in Seq(Nat)
    BY DEF PushesInOrder
  <2>3. printed' \in Seq(Nat) /\ resp' \in Seq(Nat) /\ printed' \o resp' = printed \o resp
    BY <2>1, <2>2
  <2> QED BY <2>1, <2>2, <2>3, Zenon DEF PushesInOrder
<1> QED
  BY <1>1, <1>2, <1>3, Zenon
     DEF Redis!Next, Redis!ProgramStep, Redis!Reconnect, Redis!Disconnect, Redis!PushError,
         Redis!RunReturns, Redis!Done, Redis!Subscribed, Redis!Receive, Redis!AwaitFails,
         Redis!Break, Redis!Signal, redisVars, Redis!vars

-----------------------------------------------------------------------------
(* The programs together: one of them runs, and the others' variables rest. *)
NetworkInv ==
  /\ network \in {"udp", "tcp", "redis"}
  /\ network = "udp" => UdpInv
  /\ network = "tcp" => TcpInv
  /\ network = "redis" => LeavesCancelled /\ PushesInOrder

LEMMA InitNetwork == NetworkInit => NetworkInv
  BY InitUdp, InitTcp, InitRedis DEF NetworkInit, NetworkInv

LEMMA OneProgram ==
  ASSUME NetworkInv, [NetworkNext]_networkVars
  PROVE  /\ network' = network
         /\ network = "udp" => [Udp!Next]_(Udp!vars)
         /\ network = "tcp" => [Tcp!Next]_(Tcp!vars)
         /\ network = "redis" => [Redis!Next]_redisVars
  BY DEF NetworkInv, NetworkNext, UdpNext, TcpNext, RedisNext, networkVars, udpVars, tcpVars,
         Udp!vars, Udp!server, Tcp!vars

LEMMA NetworkSteps ==
  ASSUME NetworkInv, [NetworkNext]_networkVars
  PROVE  NetworkInv'
<1>1. CASE network = "udp"
  BY <1>1, OneProgram, UdpSteps DEF NetworkInv
<1>2. CASE network = "tcp"
  BY <1>2, OneProgram, TcpSteps DEF NetworkInv
<1>3. CASE network = "redis"
  BY <1>3, OneProgram, RedisLeaves, RedisPushes DEF NetworkInv
<1> QED BY <1>1, <1>2, <1>3 DEF NetworkInv

LEMMA NetworkHolds == NetworkSpec => []NetworkInv
<1>1. NetworkInv /\ [NetworkNext]_networkVars => NetworkInv'
  BY NetworkSteps
<1> QED BY <1>1, InitNetwork, PTL DEF NetworkSpec

(* NothingIsUsedAfterItsEnd, for any clients, messages and connections: a send goes
   with its message, a write with its connection, whose peer it alone writes to,
   and a push with the response it is stored in. *)
THEOREM NothingDanglesEver == NetworkSpec => []NothingIsUsedAfterItsEnd
<1>1. NetworkInv => NothingIsUsedAfterItsEnd
  BY DEF NetworkInv, NothingIsUsedAfterItsEnd, UdpInv, Udp!NothingDangles, TcpInv, Connected, OnePlace,
         Tcp!NothingDangles, LeavesCancelled, Redis!ResponseOutlivesPushes
<1> QED BY <1>1, NetworkHolds, PTL

(* EofMeansWholeMessage: a client that has met the end of the stream has all of the
   message, whatever the order of accepts, writes and reads. *)
THEOREM EofIsTheEnd == NetworkSpec => []EofMeansWholeMessage
<1>1. NetworkInv => EofMeansWholeMessage
  BY DEF NetworkInv, EofMeansWholeMessage, TcpInv, Whole, Tcp!EofMeansWholeMessage
<1> QED BY <1>1, NetworkHolds, PTL

(* PushesAreRead: the pushes are printed in their order, each of them once, however
   many there are. *)
THEOREM PushesAreInOrder == NetworkSpec => []PushesAreRead
<1>1. NetworkInv => PushesAreRead
  BY DEF NetworkInv, PushesAreRead, PushesInOrder, Redis!PushesAreRead
<1> QED BY <1>1, NetworkHolds, PTL

(* The servers implement the daytime service: an answer goes to a client that has
   asked, and one for each time it has. *)
THEOREM ServersServe == NetworkSpec => ImplementsService
<1>1. NetworkInit => Service!DSInit
  <2>1. ASSUME network = "udp", Udp!Init PROVE Service!DSInit
    <3>1. /\ Owed = [c \in Clients |-> toServer[c] + Sent(c) + Taken(c)]
          /\ Answers = [c \in Clients |-> toClient[c] + Served(c)]
      BY <2>1, UdpOwed
    <3>2. \A c \in Clients : Sent(c) = 0
      <4>1. sends = {}
        BY <2>1 DEF Udp!Init
      <4>2. \A c \in Clients : {s \in sends : s.to = c} = {}
        BY <4>1
      <4> QED BY <4>2, FS_EmptySet DEF Sent
    <3>3. \A c \in Clients : toServer[c] = 0 /\ toClient[c] = 0 /\ Taken(c) = 0 /\ Served(c) = 0
      BY <2>1 DEF Udp!Init, Taken, Served
    <3> QED BY <3>1, <3>2, <3>3 DEF Service!DSInit
  <2>2. ASSUME network = "tcp", Tcp!Init PROVE Service!DSInit
    <3>1. Owed = [c \in Clients |-> Pending(c)] /\ Answers = [c \in Clients |-> Delivered(c)]
      BY <2>2, TcpOwed
    <3>2. \A c \in Clients : client[c] = "start" /\ closed[c] = "open"
      BY <2>2 DEF Tcp!Init
    <3>3. \A c \in Clients : Pending(c) = 0 /\ Delivered(c) = 0
      BY <3>2 DEF Pending, Waiting, Delivered
    <3> QED BY <3>1, <3>3 DEF Service!DSInit
  <2>3. ASSUME network = "redis" PROVE Service!DSInit
    BY <2>3 DEF Service!DSInit, Owed, Answers
  <2> QED BY <2>1, <2>2, <2>3 DEF NetworkInit
<1>2. NetworkInv /\ NetworkInv' /\ [NetworkNext]_networkVars
        => [Service!DSNext]_<<Owed, Answers>>
  <2> SUFFICES ASSUME NetworkInv, NetworkInv', [NetworkNext]_networkVars
               PROVE  Service!DSNext \/ UNCHANGED <<Owed, Answers>>
    OBVIOUS
  <2>1. CASE network = "udp"
    BY <2>1, OneProgram, UdpServes DEF NetworkInv
  <2>2. CASE network = "tcp"
    BY <2>2, OneProgram, TcpServes DEF NetworkInv
  <2>3. CASE network = "redis"
    BY <2>3, OneProgram DEF Owed, Answers
  <2> QED BY <2>1, <2>2, <2>3 DEF NetworkInv
<1> QED BY <1>1, <1>2, NetworkHolds, PTL DEF NetworkSpec, ImplementsService, Service!DSSpec
=============================================================================
