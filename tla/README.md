# Models of the containers, queues and schedulers of this repository

The repository is a collection of libraries, each used on its own: C++ containers
and allocators at the top level, a task scheduler, crash-reporting helpers and a
set of C# helpers under `Tx`. There is no single program, so this development has
one specification for each library that keeps state, and composes only those that
call each other (the scheduler and its bounded queue, the list and its tree, the
deque and the abstract sequence it implements, the exception tracker and the stack
walker it interrupts, the pools and their alignment).

## Inventory

| Part | State | Operations | What is hard | What makes it correct |
|---|---|---|---|---|
| `inplace_fixed_deque.hpp`, `containers_utility.hpp` | raw array, `m_begin`, `m_end`; iterators hold an index | push, pop, emplace at both ends, clear, assign, iterator moves | `m_end` changes its meaning (exclusive or inclusive) with the order of the indices; copies may throw; a pop leaves iterators beyond the end | objects live exactly between the indices; empty, full and size agree; the contents are a bounded sequence |
| `UnboundedQueue.hpp` | list, closed flag, one condition variable | push of items or batches at both ends, close, clear, pop with and without waiting, one or all, with deadlines | one notification for a batch; deadlines and spurious wake-ups; closing while consumers wait | no wake-up is lost, no item is duplicated, pushes at the back come out in order, close releases everyone |
| `random_access_list.hpp` | a balanced tree with implicit keys, two sentinels, a cached `begin` | insert, erase, resize, reverse, sort, unique, splice, merge, swap; indexed access | pointers, sizes and heights after rotations and deletions; nodes that change lists | it behaves as a plain list; the tree's links and sums are right; index and iterator arithmetic agree |
| `Tx/PplxSchedulers` | two levels, each with a bounded task queue, workers, handles; a cancel flag | schedule, close; the workers' loop; addThread | notifications sent without the mutex; checks made without a lock; close against running tasks | thread limits; no task or caller is stranded; close joins everyone and returns |
| `Tx/Helpers/Tasks/LongRunning` | task, cancellation source, timer state | Start, Stop with timeout, Cancel, Dispose, WakeUp | a stop that times out, a start after it | at most one run at a time; wake-ups are not lost |
| `Tx/Helpers/SmartLowMemory/ContentManager` | arenas, documents, prepared content | add, read, close, collect | lazy preparation by several threads; closing against adding | prepared once; nothing is read after it is freed |
| `Tx/Helpers/SmartLowMemory` streams | position, inner stream | reads, writes, dispose | construction on first use | position and length agree with the inner stream |
| `Tx/Helpers/ThreadPool.cs`, `ThreadLocalDisposableObjectsCache.cs` | queue of tasks, workers; objects by thread | AddTask, Close, Dispose; Get, Dispose | adding against closing | every accepted task runs; every object is disposed once |
| `Tx/Helpers/DB/Algo/NonCollidableHashForeignerKey.cs` | rows by (hash, collider) | find or insert a value | two sessions inserting under one hash | different values have different keys |
| `Tx/Helpers/MakingNewOrReusing.cs` | objects in use | reconcile with a wanted set | failure half-way | nothing is lost or disposed while in use |
| `MemoryPool*.h`, `MemoryAligment.h`, `BitsAlgorithms.h` | a buffer cut into items, a free list through the items, statistics | allocate, deallocate, transfer of free items, `new` and `delete` through a pool | layouts by alignment step and check strategy; items that change pools | no item is handed out twice or overlaps another; objects are aligned; corruption is found |
| `immutable_data_debug_allocator.h` | table of regions | allocate, deallocate, protect | lookup by address | every region is found again |
| `Tx/StackWalker/ExceptionsUtils` | `_me`, `_enterCount`, the installed handlers | initialize, destruction; the vectored handler and the unhandled filter on any thread | exceptions raised while an exception is traced; handlers against destruction | the count is exact, the lock is balanced, handlers return |
| `Tx/StackWalker/StackWalker.*`, `WinHeap.*` | the loader lock and its flag, libraries, a private heap, members | Initialize, ShowCallstack, destruction | every foreign call may fail or raise; unwinding past plain pointers | libraries and blocks are released once; the last entry is announced once; broken stacks end |
| other helpers, LinqKit, `mp`, scripts | none, third-party or unfinished | | | |

`PROJECT.json` lists every part with its files, its status and, under `hazards`,
the places where the code is hard to test.

## Modules

| Module | Stands for |
|---|---|
| `BoundedSequence` | the abstract specification of a fixed-capacity deque |
| `FixedDeque` | `inplace_fixed_deque` and its iterator |
| `FixedDequeProofs` | theorems about it |
| `UnboundedQueue` | both queue classes of `UnboundedQueue.hpp` |
| `UnboundedQueueProofs` | theorems about it |
| `AvlTree` | `avl_tree_stump` as pure operators on a store of nodes |
| `AvlTreeRanges` | its functions that remove or move many nodes at once |
| `RandomAccessList` | `random_access_list`: several lists over one store of nodes |
| `RandomAccessListTests` | the scripts of `UnitTests/RandomAccessListTest.cpp` on that model |
| `AvlTreeProofs` | theorems about restoring the tree |
| `AvlTreeListProofs` | theorems about the tree as a list: indices, moves, insertion, deletion |
| `LimitedScheduler` | `LimitedScheduler.cpp` with `bounded_concurrent_queue.hpp` |
| `LimitedSchedulerProofs` | theorems about it |
| `StackWalker` | `StackWalker.cpp`, its loader lock and `WinHeap` |
| `ExceptionTracker` | `ExceptionTracker.cpp` on top of it: handlers, nesting, unwinding |
| `ExceptionTrackerProofs` | theorems about both |
| `MemoryAlignment` | `MemoryAligment.h` and `BitsAlgorithms.h`, pure operators |
| `MemoryAlignmentTests` | the tables of `UnitTests/MemoryAlignmentUnitTest.cpp` |
| `MemoryPool` | `MemoryPoolInternalClasses.h` and `MemoryPool.h`, byte by byte |
| `MemoryPoolTests` | the scripts of `UnitTests/MemoryPoolsUnitTest.cpp`, and a free client |
| `MemoryPoolProofs` | theorems about the pools and their free client |
| `NaturalProofs` | induction and iteration over the natural numbers, for the proofs |
| `MC...` | instances for TLC |

Definitions keep the names of the functions they model. A definition whose name
ends in `_Something` and whose comment begins with "Mutant" is a faulty variant of
the definition that follows it; replacing the one by the other must break a
property, which shows that the property depends on the code.

### FixedDeque

One variable for each member (`slot`, `m_begin`, `m_end`) and `m_index` for one
iterator. A slot is `Raw` when no object lives in it, so constructing over a live
object or destroying a dead one becomes visible. Early returns are the action
`Refused`; it also stands for a push whose construction throws. `AssignThrows` is
an assignment whose k-th copy throws. The model is the release build; the debug
build asserts where the release build returns.

### UnboundedQueue

Each method holds `_lockQueue` throughout and is one step, except that a waiting
consumer releases the mutex while it sleeps. A consumer is outside, in `blocked`
or in `awake`; `Resume` is its next turn at the mutex. The condition variable
(external) wakes any sleeper on `notify_one`, and any sleeper at any time
spuriously. A deadline is a point in time that passes once. The predicate throws
when the queue is closed before it looks at the items, so what is queued at
`close` is never delivered; `ClosedIsFinal` states that, and it is deliberate in
the code (`testPushAndThrowIfClossed`).

### AvlTree and RandomAccessList

A node is a record of links, size and height; a list is a record of root, cached
begin and its two sentinels. `AvlTree` translates the functions of
`avl_tree_stump` one by one; left and right forms of a function are one operator
with a side as a parameter. A loop of the code is a function of the number of
rounds it has made (`RestoreLevels`, `IndexWay`, `Descent`, `Outwards`, `Upwards`),
which stands still once the loop is left; its result is the value at a round where
it has ended, looked for among as many rounds as the store has nodes (`Rounds`), and
that a loop ends within these is proved. The functions that walk over many nodes
(`clear`, splices) are recursive operators in `AvlTreeRanges`.
`RandomAccessList` has one action for each operation
and keeps beside each tree the plain list `expected` that the operation means.
`expected` holds nodes, so agreeing with it also says that elements stay in their
nodes, and an iterator of an element that stays in its list stays on it. An iterator
is a node and the list it was taken from (`_collection`, line 915); the second half
is not modelled, and an iterator of an element that `splice` or `merge` takes to
another list is invalid (line 1322), although the node is the same. Constructors, copies and `assign` are one
action: a fresh list filled at its end takes the place of the old one.

`RandomAccessListTests` replays the unit test: each script is a sequence of
operations with the values the test expects after them, and the random part is
taken with every choice of positions instead of one. Its positions come from
`rand() % N`, so it never inserts behind the last element and never erases the last
of several. Left out of the replay are allocators that differ, hash values, the
count of live instances, and the comparisons of the iterators that `insert`,
`emplace` and `erase` return (lines 476-478, 500-502 and 1096-1183 of the test).

Left out: `remove` and `remove_if` (line 1341) do not advance past an element that
does not match and so never return; `at` (line 1295) throws for every valid index
and changes nothing. `resize` to a larger size inserts at the front (line 1266),
and the action `insert` covers it there. Splicing a range calls
`delete_and_get_next` with flags that the assertion at line 682 forbids; the
model is the release build, in which the splice proceeds.

### LimitedScheduler

Tasks are alike and only counted. `pc` gives the place of every outside caller and
every worker in `schedule` and in the thread function, one step for each access to
shared state. The exception is `CheckThreads`: the unlocked reads of `addThread`
(lines 149, 151 and 153-156) are one step. Each early return depends on one of
them, and at the moment of that read the step returns too; a thread that reads of
different moments ask for is made only if the limit, tested again under the lock,
allows it, and making it or not is open in any case (a failed start is
swallowed). The places `falling` and `filling` are the windows between the test
of a wait and the sleep, which exist because no notification is sent under the
mutex of its receiver (`LimitedScheduler.cpp:54`, `:97`,
`bounded_concurrent_queue.hpp:35`). The history variables `missed` and
`missedFull` record that a notification fell into such a window, `spurious` that a
caller woke for nothing while its queue was full, and `overlap` that `close` began
while an outside caller was inside `schedule`. `close` is
called once, as the destructor and the owner do.

### StackWalker and ExceptionTracker

Every thread has a call stack of activations: a handler (`vectored` or
`unhandled`), or `ShowCallstack`. An activation stops at each call of foreign code
(dbghelp, toolhelp, psapi, the log), where an exception can be raised on top of it;
what its local variables own at that moment is recorded (`mine`, `snap`). Foreign
code is a choice over its answers: an allocation fails or not, a library is absent,
lacks an entry point or is complete, a stack has further frames, ends, or returns
to itself for ever. After the vectored handler has returned, an exception is
handled where it was raised, or unwinds: a tracing to the `catch (...)` of
`trackerHandler`, the program to the unhandled filter. `catch (...)` is taken to
catch structured exceptions too, as the handler's nesting count expects.

The owner installs and removes the handlers and destroys the tracker in the steps
of the code, and nobody waits for a handler that runs: `UseAfterDestroy` takes such
a handler to a crashed process, where the model stops. The properties are about the
tracker while it exists.

`WalkerCallsOut` names the points of `ShowCallstack` at which foreign code or the
log runs, `OnAfterLoadModules` included.

Left out: the text of the log, `ShowCallstack` for another thread or with a reader
of foreign memory (nothing in the repository calls it so), the choice between two
versions of the module record, and a failure of `LdrLockLoaderLock` when the entry
point exists.

### MemoryPool

Memory is a function from addresses to bytes; all pools of a state have the same
template arguments, which are chosen in the initial state from the combinations
the unit test uses. The item maps (where the signature, the voids, the value and the next
pointer lie) are translated from the source. The bodies of `TMemoryPoolSimple` are
in a header that the repository does not contain; `allocate`, `deallocate`,
`transferFreeItems` and the statistics are modelled from the members, from the
interface of the maps, from the comments and from what the unit test asserts, and
are marked external. A pointer has four bytes: the layout is made for 32 bits, as the comment at line 190
of `MemoryPoolInternalClasses.h` says.

`MemoryPoolTests` replays the blocks of the unit test with their counts (the block
at lines 1217-1273 is inside `while(false)` and never runs), and adds a client that
allocates, writes, returns to any pool and transfers in any order. The tables of
the alignment test are checked in the same run. Not replayed are the counts that
the test reads before the first operation on a pool, and lines 37-78 of the
alignment test: its own helper, and the three named strategies at 1, 2, the step
and twice the step. `alignSize` and the rounding to a
power of two are taken from their compile-time forms, the run-time bodies being in
a missing header as well. `RoundUpPowerOfTwo` says what the rounding computes, the
least power of two that is not smaller; the shifts by which `BitsAlgorithms.h`
computes it are in `MemoryAlignmentTests`, where `TestAsserts` compares the two for
every size from 1 to 1024, more than the item maps ever round.

Where the buffers lie is the allocator's choice, the constant `FirstItems`. Of it
`PlacementAssumption` says what any allocator provides: buffers at positive
addresses that are multiples of 16 (no alignment step is larger) and do not overlap.

`ItemBelongBuffer` leaves out the assertion of line 68 that the size of the whole
buffer is aligned. It holds in every combination the runs take; under a step of 16
an odd number of smaller items would fail it. `ObjectsUsable` is about the
alignment of what `allocate` returns. The pointer that `new` hands out lies behind
the pool's own pointer, and nothing is claimed of its alignment.

## Runs

| Run | Instance | Shows |
|---|---|---|
| `deque` | 4 slots, 3 values, ranges of 0, 2, 4 and 5 items | indices, slots, observers, iterator, and refinement of `BoundedSequence` |
| `queue` | 3 consumers, 2 items, batches of up to 2 | no lost wake-up, nobody asleep after close, no duplicates, order, finality of close; close releases everyone, timed waits end, items reach sleepers |
| `list` | 2 lists, 4 nodes, two of equal value (alike nodes and the lists symmetric) | every operation keeps the trees sound and equal to plain lists |
| `list_tests` | the unit test: lists of up to 8 equal or increasing values, the given lists of up to 25, random insertions of up to 7 and their removal | its assertions, the soundness of the trees, and that sizes, indices and moves agree |
| `list_avl` | 1 list, 6 interchangeable nodes | a disagreement, see below |
| `scheduler` | 2 callers, limit of 2 workers on each level, queue of 1, 4 tasks, no `close` | limits, stranded tasks and callers, how far a full queue is overrun |
| `scheduler_close` | 1 caller, limit of 2 workers on each level, 3 tasks, `close` | types, joined threads |
| `scheduler_live` | 1 caller, 1 worker on each level, 4 tasks, `close` | tasks are taken and close returns |
| `tracker` | 2 threads, 3 exceptions or calls of `DllMain`, stacks without sound frames, no modules | nesting count, flag and loader lock |
| `tracker_nested` | 1 thread, 2 exceptions, a frame, a module | heap, libraries, the last entry; handlers return |
| `pool` | 2 pools, 5 combinations of check, step and size; 3 allocations of the free client | items, free lists, alignment and the assertions of both unit tests |
| `pool_voids` | as `pool` | a disagreement, see below |

Bounds. Four slots give the linear shape, the wrapped shape and both forms of a
full deque, with room for either index to go round. Two items, in one batch
or in two, for three consumers is the smallest case in which a notification has to be passed on
while a third consumer can take the item in between. Two lists with four nodes
give each two-list operation non-trivial trees on both sides; seven elements and
two sentinels, inserted and erased in every order, and the 25 of the longest test,
reach deletions with and without a left subtree at every depth up to five. A queue of one
task fills with the second; three tasks and two callers let two of them pass
`addThread`'s unlocked tests at once, and a fourth or a nested one lets a task of
level 0 schedule on level 1. With `close` one outside caller is enough: the threads
that `close` could overlook are made by tasks, or by a caller that is already
inside `schedule`. With one worker per level the liveness run keeps the windows, the full queue
and the nested tasks; the second worker matters only to the limit. Four tasks are
the fewest with which a worker of level 0 can sleep on the full queue of level 1
(one task that schedules two others) while a task of its own level waits.
Two threads and three events let a handler be interrupted twice on one thread
(the third level returns at once) or once while the other thread waits for the
loader lock; the recursion count of the walker is 1 instead of 1000, so that a
broken stack exceeds it. One thread, one frame and one module give every stage of
`ShowCallstack` something to allocate and something to fail. Three allocations
exhaust a pool of two items and leave one item to move to another pool.
`MaxItems`, `MaxBatch`, `MaxInsert`, `MaxTasks`, `MaxClose`, `MaxAmount`,
`MaxRandom`, `MaxEvents`, `StackDepth`, `MaxModules` and `MaxInquiries` bound inputs
that the code does not bound.

Fairness. `UnboundedQueue`: a woken consumer gets the mutex some time (every
critical section is short and ends) and time passes; no thread is obliged to call
anything. `LimitedScheduler`: threads that can step do, and tasks end; no call of
`schedule` or `close` and no spurious wake-up is assumed. `ExceptionTracker`: a
handler that can step does, a raised exception is in the end found handled or not
by the operating system's search, and a `DllMain` returns; no exception has to be
raised, and nothing else is assumed of the program that owns the tracker.

Deadlock checking is off for the scheduler only: after `close` it has nothing to
do, and the windows described above do leave threads asleep for good.

### What the scheduler's properties say about the windows

`NoStrandedTask`, `NoStrandedProducer`, `CloseReturns` and `TasksAreTaken` hold
with the exception of a notification that fell into a window, which the code does
not rule out: then a task stays queued until the next call of `schedule`, a caller
sleeps beside an empty queue, or `close` waits for a worker that sleeps. The
properties show that these windows are the only way; every other interleaving,
including spurious wake-ups and nested tasks, is safe. `CloseReturns` has a second
premise: no task of level 0 may be asleep on the full queue of level 1, because
workers of level 1 leave at the cancel flag without emptying it. Without that
premise TLC finds `close` waiting for ever. `TasksAreTaken` says which windows
matter to whom: a task of level 1 waits only for its own level's notification, but
tasks of level 0 also wait for both notifications of level 1. The worker of level 0
that has filled the queue of level 1 and misses the notification of the pop sleeps
for ever, and the tasks behind it are never taken; TLC shows it when the premise
about `missedFull` is dropped.

`OvershootBounded` says by how much `max_size` is exceeded. A caller that is woken
does not look at the size again, and a worker notifies after it has released the
lock, so a notification can arrive when the queue is full again. The tasks of a
level, the callers that are past the test and the notifications still to come are
together fewer than `max_size` plus the callers plus the workers of the level. The
argument is that only a passed test raises that sum, and it passes only below
`max_size`. A spurious wake-up breaks the bound until the queue next has room.

### Disagreements between comments and the code

`list_avl`: the header comment of `random_access_list.hpp` (line 30) calls the
tree an AVL tree. `check_and_restore_balance_of_level` answers an imbalance with
one rotation also when the high subtree leans inwards, which only mirrors the
imbalance. The first insertion into an empty list already leaves a node whose
subtrees have heights 0 and 2. The list stays correct (`list`, `list_tests`); what
is lost is the bound on its height.

No run, as the property states what the code does (`PositionsAgree`): the comment
of `getByIndex` (line 598 of `random_access_list.hpp`) says that the index
`size(this->_root)` gives the end. The code returns NULL there (lines 602-603); the
end has the index `size(this->_root) - 1`, since the root counts both sentinels.

No run either: line 31 says "Ral have stable iterators". An iterator keeps the list
it was taken from (`_collection`), so one of an element moved by `splice` or `merge`
fails assertions in a debug build (lines 950, 962, 999), and in a release build a
move by more than two elements looks for its goal in the tree of the old list
(lines 670-677), as line 1322 warns for `splice`. Lists are swapped together with their trees
(line 1283), so `swap` keeps iterators valid.

`pool_voids`: the comment in `MemoryPool.h` (lines 149-161) says that behind the
value of an allocated item, up to its end, lies a void filled with
`ALIGNMENT_VOIDS_FILL`. `endConstruct` of the map of allocated items assigns the new
item size (line 299 of `MemoryPoolInternalClasses.h`) before it compares it with the
old one (line 301), so the size of the void is never enlarged. Where the item is
larger than the allocated map asked for, because a free item needs more, those
bytes are neither filled nor checked.

## Proofs

Proved by TLAPS for every value of the constants, from the assumptions the modules
name:
- `DequeAssumption`: the capacity is positive and `Raw` is not a value, as the
  static check in the class demands;
- `QueueAssumption`: the bounds are natural numbers;
- `SchedulerAssumption`: clients and workers are different threads, the limit and
  `max_size` are positive, and each level has its own first worker, as the
  constructor makes one per level; `FiniteClients`: there are finitely many outside
  threads, so that the bound of `OvershootBounded` is a number;
- `WalkerAssumption` and `TrackerAssumption`: the bounds are natural numbers,
  `m_MaxRecursionCount` is positive and `NoThread` is not a thread. The number of
  threads need not be finite;
- `PoolAssumption` and `PlacementAssumption`: every pool has at least one item, a
  user's item has 1 to 512 bytes, the alignment step is 1, 2, 4, 8 or 16, and the
  buffers are aligned and apart. The sizes are bounded because the powers of two are
  listed, and no larger step is instantiated. The number of pools, of
  items and of calls is not bounded.

`FixedDequeProofs`
- `TypeInvariant`, `ObserversInvariant`, `SlotsInvariant`, `IteratorTheorem`.
  `TypeOK` is inductive by itself and implies `ObserversAgree`. `SlotsMatchRange`
  is inductive together with `TypeOK`: each operation changes one slot and moves
  one end of the range over it, and the cases are the shapes of the indices before
  and after the step.
- `Refinement`: the deque implements `BoundedSequence`. `ItemsShape` replaces the
  modulo of `operator[]` by one conditional subtraction (`ModuloOnce`,
  `SlotOfLemma`), after which each operation is recognised position by position
  (`IsAppend`, `IsPrepend`, `IsPrefixOf`, `IsTail`) and `StepRefines` has one case
  for each action.

`UnboundedQueueProofs`
- `TypeInvariant`, which includes that no consumer is asleep and woken at once and
  that only woken consumers have a deadline behind them.
- `NoLostWakeup` and `ClosedWakesAll`, from the inductive `SleepInv`, the
  conjunction of the two. The heart is `TurnKeepsSleepInv`: a consumer that leaves
  items behind passes the notification on, and one that falls asleep has just seen
  an open, empty queue.
- `ClosedFinality`, the action property `ClosedIsFinal`.
- `NothingTwice` and `FirstInFirstOut`, from the inductive `OrderInv`: what was
  handed out, followed by what is queued, has no item twice, and its items of the
  back in the order of the pushes. An operation splices new items into that
  sequence, cuts a piece out of it, or moves the boundary between its two parts.

`LimitedSchedulerProofs`
- `SchedulerTypes` and `ThreadsWithinLimit`. `TypeOK` is inductive together with
  `PlaceInv` (where a thread may be) and `HandleInv` (every worker has a handle
  until `close` takes it out, and there are no more handles than the limit);
  `ThreadLimit` alone is not inductive, because workers are counted by what they do
  and `addThread` tests the number of handles.
- `CloseJoinsEveryone`, with `CloseInv`: a level that was joined stays empty, as only
  tasks of level 0 still schedule, and level 0 is joined first.
- `TasksServed`, `ProducersReleased`, `OvershootIsBounded`: level by level (`Served`,
  `Released`, `Within`). `Released` speaks of the callers that are about to sleep as
  well. The bound rests on `Participants`: those who put are callers of the level,
  those who popped are its workers, and both sets are finite.

`ExceptionTrackerProofs`
- `TrackerTypes`, `TracesOneAtATime`, `FlagSetWhenTested`, `LoaderLockGivenBack`,
  `NoBlockLeaks`, `LibrariesGivenBack`, `LastEntryAnnounced`: all the invariants the
  two runs check, for any number of threads, exceptions, frames and modules, from
  one inductive invariant, `TrackerInv`.
- Its heart is `Shape`: a thread's call stack is a handler that traces, perhaps its
  `ShowCallstack`, a handler that notes an error and one that returns at once, and
  all but the innermost stand where foreign code is called. So the number of
  acquisitions of the loader lock (`Locks`) and of counted handlers (`Handlers`) can
  be read off the innermost activation, and `ThreadInv` equates them with the lock's
  count and with `_enterCount` on the owner, with zero on all other threads.
  `LocksCounted` and `HandlersCounted` lead from there to the cardinalities in the
  properties. The properties of the lock and the count are not inductive without
  `Shape`: that `_enterCount` stops at three depends on where the second and third
  handler go.
- `WalkerFrame` says what `ShowCallstack` owns and has announced at each stage;
  `HeapInv` adds the blocks up, `LibraryInv` relates the handles to the calls of
  `LoadLibrary`. `PlainStep`, `LockStep`, `UnlockStep` and `CountStep` treat the four
  ways in which a step can affect the lock and the count, and each action is one of
  them.

`MemoryPoolProofs`
- `PoolFreeListSound`, `PoolItemsIntact` and `PoolObjectsUsable`: the three invariants
  of the pools, for the free client (`ClientSpec`), from one inductive invariant,
  `PoolInv`.
- The properties follow the links through the bytes, and none is inductive: where a
  list goes after a write depends on every byte of every item behind it. `PoolInv`
  therefore says that there is a function `ch` from pools and positions to items
  (`FreeLists`): it starts at `_topFreeItem`, is an item below the number of free
  items and `NULL` from there on, each item's bytes are the marks of a free item and
  the address of its successor, no item occurs twice, and every item is in a list
  or allocated. `OutItems` says what is in the allocated items, `Outside` that the
  memory beside the items is untouched.
- `Layout` is what the constructors establish (`ConstructedLayout`): both maps fit
  the item, the value starts behind the signature at a multiple of its own alignment
  step, and the item size is a multiple of the item's step, which is not smaller.
  With the placement of the buffers it gives `BasesApart` and `BaseAligned`: items do
  not overlap, and every item and every value is aligned.
- Each operation changes the chains in one way: `FreeListsPop` (allocate),
  `FreeListsPush` (return, to any pool), `FreeListsMove` (transfer: the list of `q`,
  then that of `p`), `FreeListsKeep` (the client writes). Below them the lemmas on
  bytes say that a write within one item leaves all others alone (`PutKeepsOthers`).
- `FreeChainIs` shows that the recursive `FreeChain` of the module is `ch`, and
  `ChainLength` that a list has `free` items. Both are inductions over the natural
  numbers, see `NaturalProofs`.

`AvlTreeProofs` and `AvlTreeListProofs`, about the operators of the list, for every
finite store of nodes and a tree of any shape in it:
- The theorems speak of `Tree(t, S, root, pos, edge, A)`. The nodes `S` are linked in
  both directions and one of them, the root, has no parent (`Linked`). Every node has
  a position `pos`, and its subtree occupies exactly the positions between the two of
  `edge`; its children divide that interval around it (`Ordered`). Sizes and heights
  are right except in the nodes of `A` (`Counted`). The order is thus given by
  positions and not by a traversal, so that no recursion is needed to state it, and
  a size is the width of an interval.
- `RestoreKeepsOrder`: `restore_height_size_and_balance_of_tree` ends, keeps nodes and
  positions, makes all fields right, returns the root and leaves other trees in the
  store alone. Invariant of the loop is `Restoring`: the stale nodes are those on
  the way from the node reached to the root (`Stale`). `RoundDone`: each round makes
  one of them right, so the loop ends within as many rounds as there are nodes. The
  work is in `rotate`: the links of both directions, the intervals of the two nodes
  turned (`TurnedEdges`) and the fields are followed one assignment at a time. That the heights of siblings differ by at most one is not
  claimed: it is false of the code (run `list_avl`).
- `IndexIsPosition`, `ByIndexFinds`, `ByIndexOfIndex`: `getIndex` and `getByIndex` are
  inverse to each other and agree with the positions. The accumulator of `getIndex`
  grows on a left child, shrinks on a right one and may be negative; the invariant
  relates it to the position of the start and the interval of the node reached.
  `Descent` keeps the position searched inside the interval of the node reached, so
  it never leaves the tree. Both walks end because the interval grows or shrinks
  strictly and a walk cannot visit more nodes than there are (`Arrives`).
- `StepMoves`: `forward` and `backward` go to the neighbouring position from every
  node. The case without a subtree on that side climbs; `SpanIsAbove` and `WaysMeet`
  show that the first ancestor whose interval reaches further is the neighbour.
- `InsertBeforeInserts`: a node that is not in the tree gets the position of the
  element it is put before, the positions from there on move up by one (`Shift`), the
  tree is `Whole`, and only the cached begin and the root of the list may change. The new
  leaf has a `FreePlace`; the intervals that grow are those on the way up from it
  (`GrowsAbove`), and these are the stale nodes with which `RestoreKeepsOrder` starts.
- `DeleteRemoves`: `delete_and_get_next` takes out exactly one element. The node that
  leaves its place, n itself or the predecessor that is put in n's place, has a free
  side, so `GrowsAbove` again names the intervals that shrink and the stale nodes
  (`Detached`); no other node touches the gap (`NothingAtGap`), so no two positions fall
  together when those behind it move down (`Unshift`). The predecessor then takes over
  n's links but not its size and height (`Renamed`); it is stale because n was above it.
- `GoToMoves`: an iterator moved by any amount arrives at the element so many positions
  away, by steps or through the index.
- `ResetIsWhole`: what constructors and `clear` leave is a whole tree of the sentinels.
  With `InsertBeforeInserts` and `DeleteRemoves`, every list that is built by insertions
  and deletions has exactly the order they mean, however many and wherever they are.

`NaturalProofs`: the induction theorems of the library take a predicate, which the
provers cannot instantiate. `SetInduction` takes the set of numbers that have the
property, and follows from `Least`, the well-foundedness of `<`. `IterationExists`
says that a function defined by repeating a step, as the loops above, is what
its definition says.

Only model-checked: all liveness (fairness is beyond the prover); `TestAsserts` and
`ListTestAsserts`, which evaluate fixed scripts and tables; and of the list, the
functions of `AvlTreeRanges`, sorting and merging, and therefore the invariants of
`RandomAccessList` as a whole, whose next-state relation reaches recursive operators.

## Plan

1. Theorems: the functions of `AvlTreeRanges`, once they are written without
   recursion, then the invariants of `RandomAccessList`.
2. The C# side: `ContentManager` (arenas, documents, and `ContentProvider`, whose
   flag is tested without the lock only), `LongRunningTask` with the periodic
   schedulers, `ThreadPool`, `NonCollidableHashForeignerKey`.
3. `immutable_data_debug_allocator`, the thread-local cache, `MakingNewOrReusing`,
   `LazyConstructableStream`.

## Not modelled

- `assoc_list.hpp` is unfinished and does not compile: its functions call members
  that do not exist, so there is no behaviour to translate.
- `mp` is start-up code with inline assembly and an allocator that does not compile.
- `accessory.h`, `functional_extension.h`, `range.h`, `mplContainersCompositor.h` and
  the other utilities are templates and macros evaluated at compile time, or
  wrappers without state.
- The headers with the bodies of the pools and of the run-time alignment functions
  are not in the repository; what the model says of them is marked external.
- The pool allocators, the intrusive pointers and `SystemMemoryAllocator` forward
  every call.
- `StructuredExceptionHandler.cpp` and `ExceptionsLogger.cpp` translate codes and write text.
- `remove` and `remove_if` of the list: no state follows a call that never returns.
- Allocators of two lists that differ: the list then copies instead of moving nodes.
- LinqKit is third-party; the build scripts copy files.
