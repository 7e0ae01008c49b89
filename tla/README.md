# MyCppPractice in TLA+

The repository is a collection of small C++ programs: containers that own raw
or smart pointers, programs of several threads that share queues, caches and
latches, Boost.Asio programs, coroutines, and a Redis listener.  There is no
common library; every program is a system of its own.  What makes them worth
modelling is what they practise: mutexes and condition variables, futures and
detached threads, stop tokens, strands, ring buffers, linked nodes, copy and
move operations under exceptions.

This directory holds TLA+ modules of these programs, the TLC configurations
that check them on small instances, and proofs for every instance.

## 1. Inventory

Paths are below `src/`; numbers such as 07 are the file names' prefixes.

| Part | State | Operations | What is hard | What makes it correct |
|---|---|---|---|---|
| `BlockingQueue` of 07 | `m`, `cv`, `data` | `put`, `poll` (`size`, `is_empty` read, and are not called) | `put` notifies after its unlock; woken consumers race new ones; spurious wakeups | mutual exclusion, no lost wakeup, first in first out |
| program of 07 | three latches, per-thread counters, `taskPtr` | `main`, the producer and the consumer lambda | quotas per consumer: a consumer must not wait for a task nobody will put; `endGate` counts consumers only | each task worked on once, in the order of its producer; nothing in use when `main` returns; termination |
| program of 06 | a queue with a mutex and no condition variable, two latches | the same | consumers leave when they see an empty queue, or by an exception | no task lost or doubled; termination; **not** that every task is done |
| program of 04 | `cacheMap` of `shared_future`s, `cacheMutex`, start gate, detached workers | `FutureCache::compute`, `TaskImpl`, `main` | check-then-act, `get()` outside the lock, detached threads, a thread that cannot be started | one computation per key, every future kept, a complete cache at the end; not that the workers have ended |
| program of 08 | bounded queue, `condition_variable_any`, `stop_token` | `run`, `main` | the stop request races every statement of `run`, most of all the wait on a full queue | prompt stop, bound kept, termination |
| programs 01, 02, 03 | an array, a map or several maps; 01 has two latches, 02 a mutex | the lambdas of a chunk each, the main thread | chunk limits, a map under a mutex, maps and an array without one, what main reads without one | every key written once, with its own value, none by two at a time; the report comes when all is there |
| program 05 | futures of `async` tasks that throw, ids under a mutex | `threadWork`, `main` | which exception reaches `main`, when shared data may be read | one outcome per task; ids and exceptions match |
| `Queue` | `data`, `ptr`, `size`, `capa` | `inQueue`, `deQueue`, `printQueue`, copy, move | ring arithmetic; a pointer into the ring is handed out | bounded FIFO; the pointer stays good until the ring is full again |
| `FixedDeque` | `data`, `first`, `last`, `size`, `capa` | `offer…`, `poll…`, copy, move | two indices, each on its own | a bounded double-ended queue, which it is only under two conditions |
| `SLL` (two files) | nodes, `head`, `tail`, `sz` | eight | `tail` and `head` at the ends; a missing element; assignment | a well-formed chain; a list, which it is only under three conditions |
| `DLL` | nodes, two sentinels, `sz` | ten | assignment and moves of sentinels | as for `SLL` |
| `Stack` | `elem`, `top_idx` | `push`, `pop`, `peek`, copy, move | as for the arrays | a bounded stack |
| `Stack`, `MyArray` (two files), `my_arr` | an array and its length | construction, copy, move, element access | exceptions between two statements | one owner per array, a length that is real |
| `handler_with_multithread.cpp` | an `io_context` run by two threads, a strand, two timers, a counter, a vector | `print1`, `print2`, `main` | two threads, shared data without a mutex, both first waits on one timer | the strand's exclusion, no cancelled wait, two returning `run()`s |
| `strand.cpp`, `timer.cpp`, three programs with one timer | a strand and a counter; a work guard and a pool; a timer and a count | posts, handlers, `main` | a `run()` that finds nothing to do returns | every handler called before `main` returns, which it does |
| UDP daytime: two servers, a client | a socket, `remote_endpoint_`, the message of each send | receive, answer, the client's request and wait | lost, doubled and late datagrams; one endpoint for the next receive and the last send; an error ends the service | an answer for each request, to its sender; whoever waits in vain has a fault to blame |
| TCP daytime: two servers, a client | an acceptor, connections held by their handlers, streams | accept, write, the client's connect and reads | accepts that fail; who keeps a connection alive; the end of the stream | whole answers; no handler without its connection; nobody waits for ever |
| `SimpleSerialGenerator` | a coroutine frame and its handle, an iterator | `count_to`, move, destruction, `next`, `value`, `begin`, `++` | frame lifetime, values before the first `next` | one owner per frame, each number once |
| Redis listener | connection, listener coroutine and its response, entry coroutine | subscribe, receive, consume, cancel | pushes between any two steps, reconnections, errors, the signal | pushes read once and in order, an end after the signal |

Interactions.  Threads of 01 to 08 meet only in the queue, cache, map or
token of their program and in latches and joins.  The containers are called by
one thread; their surroundings enter as what a caller may do, which is
anything.  In the Asio programs everything goes through the `io_context`, which
calls the handlers back; the daytime programs and the listener meet others
over a network.

`PROJECT.json` lists the components, the hazards line by line, and for every
definition the lines it stands for.

## 2. Modules

| Module | Code | State and actions |
|---|---|---|
| `TaskHandoff` | the opening comments of 06 and 07 | the promise without threads or locks: `Put`, `Take`, `Finish` |
| `BlockingQueue` | class `BlockingQueue` of 07 | `m`, `data`, and `at`, the place of each thread in `put` or `poll`. One action between two acquisitions of the mutex; `cv.wait` unlocks and sleeps in one step, a woken thread locks before it looks again |
| `BlockingQueueMain` | the rest of 07 | the lambdas and `main`, each a statement at a time, with `BlockingQueue`'s actions as `Q!…`; implements `TaskHandoff` by a refinement mapping in which a task counts as put once it is in the deque |
| `MutexOnlyQueueMain` | 06 | its three queue operations are single critical sections, so that each is one action; a `poll` may throw (`ConsumerThrows`); also implements `TaskHandoff` |
| `FutureCache` | 04 | a thread's place in `TaskImpl` and `compute`, `cacheMap`, the promises' values, the detached workers, each of which sets its value in one step and ends in another |
| `StopToken` | 08 | the thread's place in `run`, the size of the queue, the token |
| `ParallelFill` | the single-threaded fills of 01 to 03 | the promise: each key once and with its own value, then the report |
| `FillPrograms` | 01, 02, 03 | each lambda's place and loop variable, what the containers hold, the mutex of 02, the main thread; a write takes two steps, and `writes` counts them for each key, so that a second write of a key is no stutter of `ParallelFill` but a step it does not have. Implements `ParallelFill` |
| `AsyncTasks` | 05 | each task's place, the mutex, the ids, what main has got and caught |
| `BoundedDeque` | what `Queue`, `FixedDeque` and `Stack` promise | a sequence of at most `capa` elements, pushes and pops at its ends |
| `RingQueue`, `FixedDeque` | `queue.cpp`, `dequeue.cpp` | the members; contents are the slots as the print functions visit them |
| `ArrayStack` | `push`, `pop`, `peek` of `stack.cpp` | the members |
| `ListOfElements` | what `SLL` and `DLL` promise | a sequence, and what a call may make of it |
| `SinglyLinkedList` | `SLL` | the members and a heap of nodes; what is undefined ends the behaviour in `outcome = "ub"`. `Renew` is the destruction of one list and the construction of the next, empty or a copy |
| `DoublyLinkedList` | `DLL` | the members and a heap of nodes, sentinels included, from construction to destruction; both sides of a move are actions |
| `OwnedArrays` | construction, copy, move and destruction in six classes | every member function is the sequence of its statements (`Stack`, `Queue`, … are tables); the statements are the actions, each of which may throw where C++ says so |
| `IoContext` | Boost.Asio (external) | `io_context::run()` in several threads, and one strand |
| `TwoTimers` | `handler_with_multithread.cpp` | the statements of the handlers, the waits on the timers, `main` |
| `StrandCounter`, `SingleTimer`, `WorkGuard` | `strand.cpp`; the programs with one timer; `timer.cpp` | posts, timers, the guard and the threads, on `IoContext` |
| `SerialGenerator` | `04_cpp20_serial.cpp` | objects with their handles, the frames, the last iterator |
| `DaytimeService` | what the daytime programs promise | requests that wait for an answer, answers under way |
| `UdpDaytime` | the UDP servers and their client | the receive, the sends under way with the messages they hold, the datagrams, the clients |
| `TcpDaytime` | the TCP servers and their client | the accept, the connections alive with their clients, the writes under way, the streams |
| `RedisListener` | `01_redis_pubsub_listener.cpp` | the connection, the listener's place, its response, the entry coroutine. All run on one thread: a coroutine runs from one `co_await` to the next in one step |
| `…Proofs` | | theorems about the module of that name; `JoinedThreadsProofs`, `AsioProgramsProofs` (with the programs of `MCNetwork`) and `DataStructuresProofs` (with `OwnedArrays`) about those the `MC` modules join |
| `MC…` | | bounds, symmetry and compositions for TLC; what joins several programs instantiates each under a name (`Deque!…`, `Arrays!…`) and states their properties side by side, for the runs and the theorems alike |

Conventions.  Names are the code's where TLA+ allows it.  A thread's step is
what it does between two points at which another thread could notice.  An
operator `Bug_X`, placed before `X`, is a mistake that `X` might plausibly
contain; no specification uses it, and put in the place of `X` it makes a
property fail: this is how each property was shown to be able to fail.

A *history variable* (`careful` of `FixedDeque`, the two lists and the generator,
`forgotten` of `DoublyLinkedList`,
`spoilt` of `OwnedArrays`, `elem` of `RingQueue`, `lastAllowed` of `StopToken`,
`writes` of `FillPrograms`, `lost` of `UdpDaytime`, `printed` and `dangling` of `RedisListener`)
only remembers; no guard reads it.  `careful` is how the containers are modelled
for **every** caller and yet something is said of them: the actions allow every
call, and the properties say what holds as long as the caller has met the
conditions the class itself does not check.

## 3. Runs

| Run | Instance | What it shows |
|---|---|---|
| `queue_class` | 4 threads, 2 tasks, at most 3 in the deque; symmetric | exclusion and no lost wakeup under any use of the class. Four threads give two producers between push and notify with two consumers asleep or awake |
| `queue_program` | 2 + 2 threads, 2 tasks each | the program implements the hand-off, which is in order; exactly once; quotas match; nothing in use at the return; it returns. Two of each kind are needed for a task to be stolen from a woken consumer and for a quota to differ from a total |
| `mutex_only` | the same | the same hand-off; all accounted for at the return; it returns, even if consumers leave their loops by an exception of `poll` |
| `mutex_only_doc` | the same | *violated*: that all tasks are processed |
| `future_cache` | 3 threads, 2 keys | one computation per key, kept futures, right sums, a complete cache when `main` returns. Nobody waits for the workers' ends: `main` may return while one is between `set_value` and its end (`leaving`), and the property does not say otherwise. Two threads can ask for a key while a third is elsewhere, and threads can ask in opposite orders |
| `joined_threads` | 08 with the real bound of 10; 01, 02 and 03 with 3 threads and chunks of 2; 05 with 4 tasks | 08: a request lets through only the push whose test was passed, the full queue is reached and never exceeded. 01 to 03: no two threads at one place, each key written once and with its own value, a complete report. 05: exceptions and ids match when main reads them without the mutex. All return. A first, an inner and a last chunk tell the limits apart; four tasks can mix two outcomes with two places in the mutex's queue |
| `data_structures` | capacity 3, 2 values, copied lists of up to 2 elements (`MaxCopied`); `SLL` with 4 nodes, `DLL` with 7; 2 generators, 2 frames, numbers up to 3 | each structure with any caller, one or the other: FIFO, stack and their pointers, the deque's two conditions and that an overrun is one slot, lists under three conditions (`SLL`) or two (`DLL`), a generator that counts. Three slots tell neighbour, opposite and wrap-around apart. Removal in the middle needs three nodes; the fourth lets a new node take a freed address while others stay. Seven hold two pairs of `DLL`'s sentinels and three elements. Two objects are what a move takes |
| `deque_offers` | the same | *violated*: that an offered element is the first or the last |
| `list_last` | `SLL` as above | *violated*: that `addLast` adds at the end |
| `owned_arrays` | 2 objects, 3 arrays, lengths 0 to 2; symmetric | one owner per array, real lengths, assignments that fail without effect, calls that do their work, in each of six classes and with an exception wherever one can be |
| `asio_programs` | 2 threads; the real limits: 10 in the two-timer program, 5 posts of each of two threads, 5 repetitions, and a pool of 0, 1 or 2 | squares in order, nothing cancelled, each handler called before the return (with an empty pool, of `hardware_concurrency()` 0, none is), all return |
| `network` | 2 clients, asynchronous or synchronous server; UDP: 3 messages, one doubled datagram; TCP: 3 connections, messages of 2 chunks; Redis: 3 pushes | UDP and TCP implement `DaytimeService`; sends and writes use what is alive; a client that meets the end of the stream has the whole message; pushes are printed once and in order whenever the connection comes and goes; nobody waits in vain. Two clients can take each other's answers or places, a third message or connection can be made while two are in use, and two chunks have an inside. With three clients all of it holds as well (400 000 states, in four minutes) |

Bounds.  `MaxData`, `Nodes`, `Room`, `MaxCopied`, `Blocks`, `MaxCapacity`, `capa`,
`CHUNK`, `THREAD_COUNT`, `count`, `Objects`, `Frames`, `INT_MAX`, `Clients`,
`Messages`, `Connections`, `Chunks`, `MaxDuplicates`, `MaxPushes` and the
sets of threads, tasks, keys and values are the only bounds; `MAX_SIZE`, `posts` and
`limit` have the programs' own values.  A list whose nodes are used up
can take no more elements (its `new` would throw), an `OwnedArrays` without
free blocks throws: both are things the code may meet.  A daytime server whose
messages or connections are used up waits until one is given back, where the
code would get more memory.

Deadlock is checked in every run.  A program's end is a stuttering step
(`Returned`, `Over`), and so is what follows undefined behaviour (`Crashed`,
`Overrun`, `Faulted`), of which nothing is claimed.

### Fairness

Each thread and `main` is weakly fair as a whole: a thread that can go on does,
sooner or later.  Nothing is assumed of who gets a contended mutex or which
waiter `notify_one` wakes.  The mutex is never held by a thread that cannot go
on, and each thread has a bounded number of acquisitions, so that strong
fairness of the lock is not needed.  Spurious wakeups may happen, and the
programs with condition variables (04, 07) return provided they do not happen
for ever; 08 needs no such proviso.  In `TwoTimers`, a timer that is waited for
expires: time passes while a thread is in `run()`.  In 08, `main`'s sleep ends.

On the network nothing is assumed of the datagrams: any may be lost or doubled,
and a client that waits in vain must have lost one (`lost`) or wait for a
server that has met an error; its own `receive_from` may also throw, which ends it.  A failed accept is followed by another one, and
strong fairness of `Accept` says that they do not fail for ever while somebody
waits in the backlog; the tests of that are the server's own steps, which are
weakly fair, each connection's write by itself, since the accepts of others
must not stand for it.  A Redis connection need never come up, and no signal
need come: the property begins with the signal.

### Findings

* **06 may return with unprocessed tasks** (`mutex_only_doc`).  The opening
  comment has ten consumers process the tasks of ten producers; a consumer
  that once finds the queue empty leaves for good.
* **`FixedDeque` misplaces elements** (`deque_offers`).  `last >= 0` in
  `offerLast` is always true, so that `last` never turns to 0 and an element is
  written one slot behind the array; and `first` and `last` of an emptied deque
  need not agree, so that an element is put where no poll finds it.
* **`SLL::addElemAfter` behind the last node leaves `tail`** (`list_last`), and
  the next `addLast` cuts the inserted node off.

Other defects show as conditions without which the properties would be false,
each of them a listed hazard without a property: the passing properties stop where
such a call is made, and do not vouch for it: a search in `SLL` for a missing element reads
through `nullptr` before the test that would throw; `SLL::operator=` forgets
the nodes of a list that is not empty and does nothing when the source is;
`SLL::removeFirstTargetElem` leaves `tail` when it removes the last of several
nodes; `DLL`'s copy assignment forgets the list's own two sentinels every time
(`second = first;`, line 359) and, of a list that is not empty, its nodes too,
while their number stays in `sz`: a later `clear` removes a sentinel and goes on
through `nullptr`; and the list a `DLL` is moved from keeps pointers to its
deleted sentinels, which its destructor deletes again.  Of the exceptions, seven calls are not safe against one (`NotSafe` of
`OwnedArrays`, which is minimal: without any of its entries a property fails):
copy assignment of `Queue`, `FixedDeque` and the C++14 `MyArray`, copy
construction of `Stack` (through a stray `Stack stack(5);` on the line of its
message), `Queue` and `FixedDeque`, and `FixedDeque`'s constructor, which
allocates before it tests its argument.  A `Queue` that was moved from keeps
its `capa`, and the next `inQueue` writes through `nullptr`.

Of the network programs, a Redis listener that has left its loop on an error
leaves its response registered with the connection, which goes on receiving:
the next push is stored in a frame that is gone (`dangling`; the property says
that nothing but such an error leads there).  `tcp_client.cpp:19` reports a
wrong number of arguments and goes on to use them; the UDP client returns.

## 4. Proofs

| Module | Theorems | For every |
|---|---|---|
| `BlockingQueueProofs` | `TypeCorrect`, `MutualExclusion`, `NoLostWakeup`, `WorkIsNeverSleptOver`, `DequeDiscipline` | finite set of threads, set of tasks |
| `TaskHandoffProofs` | `HandoffIsExactlyOnce` | producers, consumers, number of tasks |
| `BlockingQueueMainProofs` | `Implements`, `TasksExactlyOnce`, `SupplyMeetsDemand`, `NobodyIsLeftBehind`, `EndGateIsTheEnd` | finite sets of threads, number of tasks |
| `MutexOnlyQueueMainProofs` | `Implements`, `Accounted` | the same |
| `FutureCacheProofs` | `CacheIsSound`, `ComputedOnce`, `PromisesKept`, `CompleteAtReturn`, `ResultIsRight` | set of threads, finite set of numbers as keys |
| `JoinedThreadsProofs` | `StopsPromptly`; `NobodyRaces`, `FillsAsPromised`; `NoExceptionIsLost` | bound of the queue; number of threads and length of a chunk; number of tasks |
| `DataStructuresProofs` | `RingIsSound`, `QueueIsFifo` | capacity, zero included, and set of elements |
| | `DequeEnds`, `EndsAreRight`, `FixedDequeIsADeque` | positive length of the array, set of elements |
| | `StackGivesTheLast` | capacity, set of elements |
| | `FramesCountToN` | objects, frames, `INT_MAX` |
| | `SinglyIsAList` | finite set of nodes, set of elements, length of the lists copied from |
| | `DoublyIsAList` | number of nodes, set of elements, length of the lists copied from |
| | `ListsAreLists`, `NodesAndFramesAreWellFormed` | both, and the generator's frames |
| | `EachArrayHasAnOwner`, `LengthsAreReal`, `FailedAssignmentsAreUndone`, `CallsWork` | each of the six classes; objects, arrays, lengths, contents |
| `AsioProgramsProofs` | `SquaresAreInOrder`, `NoTimerIsShared`, `NothingIsLeftUndone` | finite set of threads in `run()`, limit, number of posts |
| | `NothingDanglesEver`, `EofIsTheEnd`, `PushesAreInOrder`, `ServersServe` | clients, messages, connections, chunks, pushes |

`NoLostWakeup` is the heart of 07.  `NoSleepOverWork`, what one would like to
know, is not inductive: it does not say that the one awake thread suffices.
`WakeupsCoverTasks` counts instead: while somebody sleeps there are at least as
many threads that are awake inside the queue, about to notify, woken or at the
predicate, as there are tasks.  Each push makes one of each; a pop takes one of
each; a notify hands the role on to the thread it wakes, or finds nobody
asleep; only a thread that found no tasks falls asleep.  The proof has a lemma
for each of these on cardinalities.

The two queue programs are proved by refinement.  `ExactlyOnce` and `InOrder`
are shown once, of `TaskHandoff`, where together with the types they are
inductive: a new task is in `Made` for the first time, and all that follows is
where a task goes.  Each program implements `TaskHandoff` (`Implements`), with an
invariant that says no more than the mapping needs: where a thread can be, that
a put under way is one of the quota, that a consumer's hands are full exactly
while it works.  Only three of the many steps are visible, the push, the pop
and the end of `work()`.  Both programs then inherit the two properties, and 06
gets `AccountedAtReturn` from them by counting.

`QuotaInv` ties a consumer's place in its quota to its place in the loop and
`main`'s place to both latches.  `SupplyMeetsDemand` does not add the threads'
counters up, which would need an induction over the threads: what a producer
has still to put and a consumer has still to take are *sets* of pairs of a thread
and a number, and the lemmas find as many pairs on one side as on the other.
When every consumer has used its quota up these sets are empty, and that is
`NobodyIsLeftBehind`: `endGate` counts the consumers only, and yet the
producers are done too.

`CacheIsSound` is `CacheInv`, the conjunction of the types, of the exclusion in
`compute` with what a thread has learnt inside it (a miss is still a miss when
the future is registered), of the agreement between map, workers and values,
and of the meaning of a thread's progress.  A worker that has set its value is
between two steps (`leaving`), and what the invariant says of it is that the value
is there: that and no more is what `CompleteAtReturn` claims.  One lemma per action; the other
three theorems follow from it without another induction.  `SumInv`, on top
of it, says that what a thread has added up and what it has still to ask for make
the whole sum.  The sum over a finite set is the model's `MapThenSumSet`, whose
value for a set of any size the proof gets from a smallest set that would have
none, in place of an induction.

`RingInv` strengthens the pointer's property with the slot's place behind
`ptr`.  `QueueIsFifo` maps the ring to a sequence; the lemmas before it say that
`inQueue` appends and `deQueue` takes the first, across the wrap-around.  The
code computes the index of a new element with `%` and that of an old one by a
test: `OneTurn` and `FreeSlot` are where the two meet.

`DequeInv` says what first, last and size have to do with each other in careful
hands, with the ring's `k`-th slot `At(first, k)` written without the remainder:
`AtShifts` then turns each of the four calls into a move of all positions by
one.  Nothing is said of a careless caller's elements, which is why
`ImplementsDeque` is about steps after which the caller is still careful.
`StackInv` and `GenInv` are of that kind too: the slots up to `top_idx` are
written, and every frame has the one handle that will destroy it and looks like one that
has shown 1 up to its `i`.

The two lists are the longest proofs.  A list is known by its *chain*, a function `c`
from the positions `1 .. m` to nodes, each node at one position, so that all
inductions are over the calls and none over the heap.  `SllInv` says that in
careful hands there is a `c` of which `next` leads from each node to the one
after it, from `head` to `tail` and to `nullptr`, and which has just the nodes in use;
elsewhere it says nothing, because `SLL` promises nothing there.  `DllInv` must
say something in any hands, since `NothingDangles` does: nodes in use lead
to nodes in use, and unless the list is moved from there is a chain both ways
between the sentinels; the nodes outside lead nowhere into it (`DllApart`), which is
why the deletion of the chain's nodes leaves no pointer behind; and the
count is at least that of the elements.  In careful hands the two counts are equal, which
is what lets `clear` stop before the trailer, and the nodes outside are those
in `forgotten`.

What a call does to a chain is `Inserted(c, m, i, n)` or `Removed(c, m, i)`, and
what it does to the elements is the same of the function from positions to
elements: the heap's lemmas (`LinksAfterInsert`, `LinksAfterRemove`, `DllInsert`,
`DllRemove`, `DllKept`, `ChainMade`) show the one, and `InsertAtIsInserted` and
its like that the sequences of `ListOfElements` are the other.  The properties
speak of the walk `at`, a recursive function, and not of `c`.  That the two agree
is shown without an induction theorem: `at` satisfies its equation, so does the walk
along `c`, and of two functions that satisfy it there is no least position at which
they differ (`FollowersAgree`, `SteppersAgree`).  `FreeNodes` says of `FreeBeside`
that it gives every free node once, with the same argument on ranks.

`ArraysInv` is about a function in the middle of its statements.  The tables of
the six classes enter in one place only: `Fits` says what must and what must not
have been done before a statement, `Finished` what must have been done at the
end, and `TablesAreSensible` checks the thirty tables against both.  After that
there is one lemma per kind of statement, whatever the class.  The heart is
`OneHolder(H, A, L, t)`: the objects in `H` and the hand `t` of the function hold
the arrays in `L`, each array held once.  `H` is who holds *at this moment*:
an assignment's object does not between its `delete[]` and the new array's
arrival, the other of a move does not between the copy of its pointer and
`other.data = nullptr`.  An exception is harmless when the hand is empty and `H`
is the constructed objects, which is what `ThrowAtAllocation` and `ThrowAtCopy`
show of the calls outside `NotSafe`.  What an exception in one of the others
leaves is `spoilt`, and only `FailedAssignmentsAreUndone` speaks of that.

`PromptInv` needs that the room the wait has seen is still there at the
push, and that the push under way is the one `lastAllowed` counts.  `FillInv`
says where each lambda of 01 to 03 is in its chunk, that the containers hold
just what the lambdas have passed, each key with its own value, and that these
keys have been written once and the others not at all; the chunks are disjoint and cover the keys
(`BlockOfKey`, `KeyOfBlock`), from which follow both that nobody races and that a fill
is the promised one.  `AsyncInv` says that
the stored ids are those of the tasks that throw, each once, and that `main` has caught as
many exceptions as there are throwing tasks among the futures it has got.

`TwoTimersInv` has three parts.  `ContextInv`: the strand is held by just the
one thread inside a handler of its, and a handler is in one place of the `io_context` at a time.
`TimersInv`: each timer is waited for by its own handler, but for the first
waits.  `CountingInv`: the counter and the vector change inside a handler only.
The three other programs have invariants of the same kind (`StrandInv`,
`SingleInv`, `GuardInv`), which lose no handler between the post and the call.

`NetworkInv` joins an invariant for each of UDP, TCP and the listener.  UDP's says
that a message lives as long as the one send that holds it.  TCP's says that
a connection lives as long as it accepts or is written to, and that a client is in the backlog,
accepted or written to, once.  `ServersServe` maps both to `DaytimeService`,
whose answers are counted per client; each visible step moves one client's count by one.
The listener's says that what is printed and what the response holds are together the
pushes in their order, and that a listener gone without an error leaves a cancelled connection.

The `MC` modules of several programs add nothing of their own: a behaviour of
theirs is one of the program that runs, and the others rest, which each proof
module shows in its last section.  A theorem about `MCSpec` is therefore one
about each program by itself.

Assumptions are the `ASSUME`s of the modules: finiteness where cardinalities are
taken, and that the values standing for "nobody", "nothing" or "garbage" are none of the
others; `FillSizes` and `TaskCount` (some threads, chunks and tasks, as the programs' constants
have), `SomeRunners` (somebody calls `run()`), `PostsIsNat`, `LimitIsNat`, `MaxSize`, `CapaIsNat` and
`MaxCapacityIsNat` (the numbers are numbers); of the lists `NodesAreFinite` and
`RoomIsNat` (memory is), `NullIsNoNode` and `MaxCopiedIsNat`.  The theorems on `FixedDeque` assume
of its length what its constructor enforces, that it is positive.

`InOrder`, `DequeDiscipline`, `CacheIsSound`, `EndGateIsTheEnd`, `RingIsSound` and `DequeEnds` are proved
only: what the runs check implies them or has its own theorem.

Only model-checked: everything that ends (liveness: `Termination`, `AllReturn`,
`NobodyWaitsInVain`), which is out of the prover's reach.  Every safety property of
a passing run is a theorem.

## 5. Not modelled

* Output, clocks, and the mutex around `std::cout`, which is held only to
  print.  In 06 and 07 the creation of threads, all of which wait at a gate
  (04, where a thread is created in the middle of things, models its failure).
* The exceptions of 07.  `work()` catches everything itself; only an allocation
  that fails in `poll` (line 115) or a lock that fails gets to the consumer's
  `catch` (lines 176-180).  The task would stay in the deque while its wakeup is
  used up, and the quotas would no longer match: `endGate` is then counted down,
  but other consumers may sleep over the task, and `main` not return.  An
  exception in a producer's `put` ends the process.  The properties of 07 are
  about behaviours without either; 06, whose consumers have no quotas and do not
  wait, is modelled with its `catch`.
* A TCP connection whose write fails although its client could go on reading.
  The destructor would end the stream in the middle of the message, without a
  sign for the client; a write is assumed to fail only on a dead connection.
* `peekFirst` of `Queue`, `peekFirst` and `peekLast` of `FixedDeque`: they
  return a `T` as a `T*`, so that nothing that calls them compiles.
* `array_receiving_any_number.cpp`, where everything happens in the compiler;
  straight-line programs and version tests.
* `02_serial_generator.cpp` and `03_fibonacci_generator.cpp`: their coroutines
  are a loop of `co_yield`s, and the rest is the library's `std::generator`.
* The fallback of `SLL`'s copies through `int val`, which keeps the concept
  version from copying lists of anything but integers: lists are of integers
  here.  `printList` and the iterators only read.
* The single-threaded fills of 01 to 03 and the synchronous wait of `timer.cpp`,
  which one thread does alone.
* The text of the daytime answers, and the addresses and ports; a client is its
  endpoint.

## 6. Plan

The models are those of all programs that have a state worth one.  Where several
components share nothing they share a run, one of them in each behaviour.  Every
safety property is proved, and each refinement; the liveness properties stay
with TLC, on the instances of section 3.
