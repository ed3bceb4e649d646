# CppCores in TLA+

CppCores is a library of C++ building blocks: lock-free queues, locks, thread pools,
fibers with timers, a cooperative scheduler, allocators, byte buffers and utilities.
This directory models the parts whose correctness depends on the order in which things
happen, checks them with TLC on small instances, and proves what matters most with TLAPS
for all instances.

Paths below are relative to `src/src/` unless they say otherwise.

## 1. Inventory

| component | state | operations | hard because |
|---|---|---|---|
| `SpscLockFreeQueue` (`concurrent/lockfree_queue*.h`) | ring of N slots, atomic read and write index | `push`, `pop` (two forms) | two threads, no lock; each sees the other's index late; full and empty differ by one slot |
| `MpmcLockFreeQueue` (same files) | ring of slots with a push and a pop counter each | `push`, `pop` | any number of threads; the header warns "the code has some problems!" |
| `WorkStealingQueue` (`concurrent/work_stealing_queue.h`) | ring, `_bottom`, `_top` | `init`, `push`, `pop`, `steal` | owner and thieves meet on the last item; store/load order; slots reused while thieves read them |
| `FastPthreadMutex` (`concurrent/mutex.*`, `sys_futex.h`) | one futex word, in two bytes | `lock`, `try_lock`, `unlock` | byte and word exchanges mixed; lost wake-ups; interrupted waits |
| spin locks, `MutexBase`, `NullLock` (`concurrent/spinlock.h`, `mutex.h`) | a flag, an owner, or a pthread object | `lock`, `try_lock`, `unlock` | results of the wrapped calls; the owner noted beside the lock |
| `PosixRWLock` (`concurrent/rwlock.h`) | a pthread object of one of two kinds | the same, and the shared half | writers behind readers; an error code returned as a bool |
| `Semaphore` (`concurrent/sem.h`, and another in `fiber/fiber_mutex.*`) | a number of permits | acquire, try, timed, release | interrupted waits, the arithmetic of time limits |
| `SimpleThreadPool` (`concurrent/thread_pool.*`) | queue, stop flag, one mutex, one condition variable | `enqueue`, worker loop, destructor | notification after unlock; stop against sleepers |
| `ToftThreadPool` (same files) | per worker: mutex, condition variable, two task lists, exit flag; exit lock and busy count | `AddTask`, `WorkRoutine`, `Terminate`, `WaitForIdle` | lists swapped under the worker; nested locks; contexts deleted |
| `BaseThread` (`concurrent/base_thread.*`) | handle, id, alive flag | `Start`, `Join`, `Detach`, `GetId` | creator and new thread both write the id |
| `FiberTimerManager` (`fiber/fiber_timer.*`) | ordered set of timers, tickle flag, last time | `addTimer`, `getNextTimer`, `listExpiredCb`, `cancel`, `refresh`, `reset` | a poller sleeps for as long as the first timer said when it looked; callbacks run outside the lock |
| `FiberThread` (`fiber/fiber_thread.*`) | id, callback, semaphore | constructor, `run`, `join`, destructor | hand-shake between two threads over a half-built object |
| `Fiber` (`fiber/fibers.*`) | state, stack, callback; per thread the current and the main fiber | `call`, `back`, `reset`, `YieldTo...`, `MainFunc` | legal orders of calls; a state machine whose switches are partly empty |
| `uthread` (`coroutine/uthread.h`) | table of coroutines, running index | create, yield, resume, finished | state and running index must follow the context switches |
| `Singleton` (`utils/singleton.h`) | holder pointer, alive flag, once flag | `GetInstance`, `IsAlive`, destruction at exit | construction races, use after destruction |
| `MemoryPoolLiteImpl`, `MemoryPoolLiteAllocator` (`utils/memory_pool_lite.*`) | blocks, current slot, free list | `New`; `allocate`, `deallocate`, moves | a slot handed out twice |
| `RingBuffer` (`ds/ring_buffer.h`) | vector, reader, writer, capacity | `push_back`, `force_push`, `resize`, `size` | wrap-around, unsigned differences |
| `ByteArray` (`utils/bytearray.*`) | chain of nodes, cursor, position, size, capacity | `write`, `read`, `clear`, `addCapacity` | cursor against position at node boundaries |
| `fd_guard` (`utils/fd_utils.h`) | one descriptor | moves, `reset`, `release` | ownership; the system reuses numbers |
| string views and functions (`ds/string_piece.*`, `utils/str_utils.*`, `ascii.*`, `json_util.cc`) | none | search, compare, cut, split, replace, escape | positions at and beyond the ends, empty arguments |
| codecs and hashes (`utils/encoding.*`, `hash.*`) | none | Base64 (twice), hexadecimal, fixed words; murmur, `Hash`, HMAC | padding, tails, signed bytes |
| words (`utils/uint128_t.h`, `retry_policy.h`, `itoa_r` of `stack_trace.cc`) | none | arithmetic, order, intervals, digits | carry, overflow, the most negative number |
| cryptography, streams, logging, configuration, files, processes, meta-programming | | | wrappers of other libraries or compile-time code |

How they interact: the pools, the mutex and the queues are independent of each other and
meet only in user code, where they are used by several threads at once; the tests show
the intended clients. `FiberTimerManager` is an abstract class: a scheduler is to derive
from it, sleep for `getNextTimer()`, run what `listExpiredCb()` returns and be woken by
`onTimerInsertedAtFront()` (`fiber/fiber_scheduler.h` is still empty). `Fiber` keeps its
current fiber in thread-local storage, so fibers of different threads do not meet.
`FiberThread` uses the semaphore of `fiber/fiber_mutex.h`; `BaseThread` uses
`ThisThread` and `posix_atomic.h`; every lock class implements `Lock`.

What makes each one correct is stated as properties, listed with the hazards they answer
in `PROJECT.json`.

## 2. Modules

| module | models | kind |
|---|---|---|
| `BoundedFifo` | what the single-producer queue promises | abstract |
| `SpscQueue` | `SpscLockFreeQueue`, implements `BoundedFifo` | detailed |
| `StealableDeque` | what the work stealing queue promises | abstract |
| `WorkStealingQueue` | `WorkStealingQueue`, implements `StealableDeque` | detailed |
| `WorkStealingQueueProofs` | its theorems: of the code as written, and of it while no load of `_top` overtakes | proofs |
| `MutexLock` | what every `Lock` promises | abstract |
| `FastPthreadMutex` | the futex mutex, implements `MutexLock` | detailed |
| `FastPthreadMutexProofs` | its theorems | proofs |
| `SimpleThreadPool`, `ToftThreadPool` | the two thread pools | detailed |
| `SimpleThreadPoolProofs`, `ToftThreadPoolProofs` | their theorems | proofs |
| `FiberTimers` | `FiberTimer`, `FiberTimerManager` and pollers | detailed |
| `Locks` | spin locks, `MutexBase`, `NullLock`, `PosixRWLock`; implements `MutexLock` | detailed |
| `Semaphores` | both wrappers of `sem_t` | detailed |
| `BaseThreads`, `FiberThreads` | the two thread classes and the threads they start | detailed |
| `Singletons` | `SingletonBase` | detailed |
| `Fibers`, `UThreads` | the fibers of a thread, the coroutines of a scheduler | detailed |
| `ThreadsProofs` | theorems about the six rows above; all but `FiberTimers` are put together by `MCThreads` | proofs |
| `MemoryPools`, `ByteArrays`, `RingBuffers`, `FdGuards` | the classes of the same names | detailed |
| `Storage` | these four side by side | composition |
| `StorageProofs` | its theorems, and those of `SpscQueue`, which shares no state with it | proofs |
| `StringPieces`, `StrUtils`, `Codecs`, `Digests`, `Numbers` | functions, as operators | pure |
| `Texts` | the inputs the functions are given | detailed |
| `TextsProofs` | theorems about views, strings and words | proofs |
| `BytesProofs` | theorems about codecs and digests | proofs |
| `MC...` | the instances TLC checks; `MCThreads` puts the locks, threads and coroutines together, `MCUtilities` takes `Storage` and `Texts`; the parts share no state | model checking |

Actions are named after the functions of the code; where a function is more than one
action, its name is a prefix (`PushBegin`, `PushCheck`, ...). Variables have the names
of the code's members and locals; history variables, which no action reads, are marked
as such in their declarations. A definition preceded by a comment that begins "Mutant:"
is an alternative that describes a plausible bug; the one after it is the code. No
specification uses the former: they exist so that each property can be shown to notice a
bug.

### Single-producer queue (`SpscQueue`)

One action per access to shared memory. The two indices are atomics with release stores
and acquire loads, and the model is that of C++, not of one machine: an index is the
sequence of values ever stored in it, and the thread that does not own it may read any
of them not older than the last it has read. Slots are plain memory and are read as
their current contents, which is right because no access to a slot races with another
(`NoDataRace`, checked and proved). `pop()` returning an `optional` makes the same
accesses as `pop(T&)`.

### Work stealing queue (`WorkStealingQueue`)

Here the question is what the fence in `pop()` does, so the model is that of the machine
(the code uses x86 intrinsics elsewhere): the owner's stores wait in a store buffer,
first in first out, and reach memory by the action `Drain`; the owner reads its own
pending stores; a compare-and-swap needs an empty buffer. Thieves have no plain stores.
`FullFence` chooses between the code as compiled (`acq_rel`, no instruction on x86:
`FALSE`) and a `seq_cst` fence (`TRUE`). A slot is written in two steps, because `T` may
be larger than a word.

### Futex mutex (`FastPthreadMutex`)

One action per atomic instruction or system call. `futex_wait` compares the word again
and sleeps in one step, as the kernel does. A sleeper leaves by a wake-up, for no
reason, or because a signal handler installed without `SA_RESTART` has run
(`Interrupted`). The history variable `interrupted` remembers that this has happened:
from then on the code promises no exclusion (see the findings), and the properties that
speak of it say so. The client is that of `test/mutex_test.cc`: a plain counter
incremented under the mutex. `try_lock()` shares the locked-byte exchange with `lock()`.

### Pools (`SimpleThreadPool`, `ToftThreadPool`)

What happens while a `std::mutex` is held is one action, because nothing outside sees
the middle of it; `Terminate()` holds `m_exit_lock` over several critical sections, so
that lock is a variable. `condition_variable::wait` releases and sleeps in one action
and may end spuriously. A task may call `AddTask()` or `enqueue()` when it runs. The
atomic or plain reads outside locks are actions of their own. Callers may be inside
`AddTask()` when `Terminate()` is called, and may call it afterwards; one that had
passed the check of `m_exit` by then (`early`) stops where it would touch a deleted
context, which has no defined effect.

### Timers (`FiberTimers`)

What happens under `m_rw_lock` is one action; the constructor of a timer and
`listExpiredCb()` read the clock before they take it, and `onTimerInsertedAtFront()` is
called after it is released: actions of their own. The set holds each timer together
with the key it went in with, so a key changed under the set's feet would show. The
class that derives from the manager is not in the repository; its pollers do what the
interface asks for: sleep for `getNextTimer()`, wake up then or by a tickle that is not
lost if it comes before the sleep, list, run, start again. That part is marked external.
The clock ticks and may be set back; sleeps count ticks and do not notice.

Two things the model shows about the code without a property: a callback of a recurring
timer may run once more after `cancel()` has returned true, if a poller has copied it
(`CancelIsFinal` promises no more); and `reset()` with the period the timer has returns
true even for a timer that was cancelled. `NoOversleep` is checked for a clock that is
never set back: after a set-back `refresh()` can move a timer to an earlier time, and it
does not tickle.

### Locks and semaphores (`Locks`, `Semaphores`)

One module for all classes derived from `Lock`, because their state is the same: a word
that is taken or free, a count of readers, a noted owner. What differs is kept apart:
`AtomicSpinLock` exchanges in an outer loop and only reads in an inner one;
`PosixSpinLock` notes its owner after it has the lock and forgets it before it gives the
lock back; a `PosixRWLock` is of one of two kinds, the default one being that which
prefers readers. pthread is external: it lets a thread in when the word is free. Threads
believe what the functions return. `PosixSpinLock::try_lock()` and
`PosixRWLock::try_lock_shared()` return the opposite of what happened; from then on
(`misled`) the properties promise nothing, and it is the model that shows it: without
that exception they fail. A permit that `Semaphore::Acquire()` returned without, because
a signal interrupted it, is counted (`unpaid`).

### Threads (`BaseThreads`, `FiberThreads`, `Singletons`)

`BaseThread`: one action per access of the new thread to the object's fields; the owner
starts, joins, detaches and asks in any order, several times. A thread that was detached
while it ran may write to the object at any time: `abandoned` says so. `FiberThread`:
the constructor waits on a semaphore until `run()` has the callback; a signal may
interrupt that wait, and the constructor throws. The callback may call `SetName()`,
which goes through a thread-local pointer to the object. `Singleton`: `call_once` is
external (one builds, the others wait, another tries after an exception); the holder's
constructor is three steps, its end two.

### Coroutines (`Fibers`, `UThreads`)

Cooperative: one context runs, and an action is what it does up to the next switch.
`Fibers` keeps what the code believes (`current`, which is `t_fiber`, and the states)
beside what is (`context`), and counts the shared pointers, because a fiber's life
depends on them. A failed assertion ends the program, and the behaviour (`aborted`).
`UThreads` keeps which coroutine occupies a slot and which one runs beside
`running_thread` and the slots' states.

### Buffers and owners (`MemoryPools`, `ByteArrays`, `RingBuffers`, `FdGuards`)

Each is the class's members beside a history of what its clients did: pieces and slots
they hold, bytes they wrote at each position, elements in line, descriptors they own.
The free list of the allocator runs through the slots themselves, so a slot written by
its client is no longer a link. Where a call has no defined effect (a null node, an
index behind the buffers) the behaviour goes on no further: `fault` and `wild`.

### Functions (`StringPieces`, `StrUtils`, `Codecs`, `Digests`, `Numbers`)

Characters and bytes are numbers; a view is a buffer, a start and a length. Properties
compare functions that are separate pieces of code (the search forwards with the one
backwards, one Base64 with the other, `operator==` with `compare()`), or undo one with
the other, or compare words with the numbers they stand for. A hash is the sequence of
what the rounds are given, without their mixing: what never enters it cannot be told
apart, whatever the mixing is. The digest under HMAC is a constant. Words have `Bits`
bits; at 8 the inputs are among others 0, the sign bit and the greatest word.

## 3. Runs

| run | instance | shows |
|---|---|---|
| `spsc` | 3 slots, 7 pushes of 2 elements | both indices wrap twice; FIFO, no overwrite, no race on a slot, no false failure, refinement of `BoundedFifo`, delivery |
| `wsq_full_fence` | 2 slots, 3 pushes, 2 thieves | each item handed out once and whole, refinement of `StealableDeque`, nothing forgotten |
| `wsq_double_delivery` | the same | **violation**: `pop()` and `steal()` return the same item |
| `mutex` | 3 threads, 2 rounds each, signals | exclusion and refinement of `MutexLock` until a wait is interrupted, no lost wake-up, everybody finishes |
| `mutex_eintr` | 2 threads, 2 rounds, signals | **violation**: an increment is lost |
| `toft_pool` | 2 workers, 2 callers, 4 tasks of which one adds another; `Terminate()` races the callers | order, drain, `Terminate()` returns; contexts outlive the workers and the calls begun after `m_exit` was set |
| `simple_pool` | 2 workers, 2 callers, 4 tasks | nothing lost or doubled, no stranded task, destructor returns |
| `timers` | 2 users, 1 poller, 2 timers, 3 moments | the poller never sleeps past the first timer, none is taken early or left for ever |
| `timers_two_pollers` | 1 user, 2 pollers, 2 timers, 3 moments, one set-back | one-shot callbacks run once, cancelled ones never, the set stays searchable |
| `threads` | 3 threads on a lock of each kind, on a semaphore, at a singleton; 3 starts of a thread; 2 fibers; 3 slots for 5 coroutines | holders are who they think, locks implement `MutexLock`, whoever waits gets an answer; ids, permits and the instance are right; the running context is the one that is noted |
| `utilities` | texts up to 4 and 2 characters out of 6; 3 pieces; 2 allocators with 3 blocks of 2 slots; 7 bytes in nodes of 2; a ring of 3 growing to 5, 9 pushes; 2 guards, 3 descriptors | searches, comparisons and codecs are exact; words but for an inverted carry and an inverted equality; hashes take every byte but for `quick_hash()` with a size and the `string_view` overloads; buffers keep order; one owner for memory and descriptors |
| `bytearray_clear` | the same | **violation**: `clear()` keeps the size |

Bounds. `MaxPush` (queues): seven pushes take both indices twice around three slots;
three pushes reuse a slot of the work stealing ring, with two thieves at different
stages of a steal of it. `Rounds`: two rounds let a thread meet the mark that its first
round left on the word. Two workers and four tasks let one worker sleep, one run, and a
third task be queued, notified and raced by a stop. Three threads on the mutex let one
sleep while two race on the fast path. A one-shot and a recurring timer with periods 1
and 2, or 0 and 2, and a clock up to 2 (`MaxTime`) give timers that tie, overtake each
other and come due while being moved; where the clock may be set back (`MaxJumps` = 1)
the rollover limit `Hour` is 1 tick, so that jumps on both sides of it occur, and where
it may not, `Hour` is longer than the run. `timers_two_pollers` uses symmetry of the
pollers; its properties are all invariants.

`threads` and `utilities` let each behaviour be of one part (`part`), so the parts'
states add up instead of multiplying. Three threads on a lock are a holder, one that
waits, and one that overtakes it; three starts let an id survive two threads. Three
coroutines fill the table and the fourth leaves it. Seven bytes in nodes of two end on,
before and behind the end of a node, and five in one call span three nodes; nine pushes
wrap a ring of three. The characters are NUL, a blank, `=`, a letter, and the bytes 128
and 255. A needle of two characters in a text of four overlaps with itself and stands at
either end; a word and its tail (`text \o text`) have up to eight bytes.

The larger modules state a type invariant. `spsc` checks its own; all of them are
proved, as is `Bounded` of the queue, and no other run repeats them. The invariants of
the smaller modules say more than their types, and their proofs begin with the types.

`CHECK_DEADLOCK FALSE` is given for the pools, the timers, `threads` and `utilities`:
inputs and starts are bounded, a program whose assertion failed has ended, and a fiber
thread may be gone; after `Terminate()` or the destructor nothing is left to do, and a
pool whose tasks have all run may rest, as may a manager without timers. The mutex stops
by an explicit `Finished` step when all rounds are done; a queue's consumer or thief
polls for ever.

Fairness. A thread that can run is run (weak fairness of the steps of calls that have
begun, of workers, of the destructor or `Terminate()`; of a holder of one of the
`Locks`, which gives it back; of a started thread); nobody has to push, add tasks, call
`try_lock()` or end a pool; spurious wake-ups and signals are never counted on. A
consumer and thieves that poll are those of the tests. Stores become visible in finite
time (`SF` of a load that reads the newest index, `WF` of `Drain`): C++ asks that of
atomics. Semaphores, singletons, fibers and coroutines have no fairness, and no liveness
property: a fiber may keep the thread for ever. `LockersGetIn` says that somebody gets
in, not that everybody does: none of the locks is fair.

## 4. Findings

* `wsq_double_delivery` (`concurrent/work_stealing_queue.h:101`). The fence in `pop()`
  must keep the load of `_top` after the store of `_bottom`. `acq_rel` does not; the
  model with a full fence satisfies every property, and every behaviour in which the
  load overtakes no store is proved correct, so the fence is the only cause. What goes
  out twice went once to each side: neither side takes an item twice, whatever the fence
  does (`EachSideAlwaysTakesOnce`). For the same reason a call can return a slot that is
  being written.
* `mutex_eintr` (`concurrent/mutex.cc:29`). An interrupted `futex_wait` makes
  `lock_contended()` return `EINTR`, which `lock()` throws away: the caller is in the
  critical section without the mutex.
* `bytearray_clear` (`utils/bytearray.cc:45`). `clear()` promises `m_size = 0`
  (`bytearray.h:328`) and leaves it: `getReadSize()` still counts the deleted bytes.

Where the code does something else that a reader would not expect, there is no run of
its own; the model does the same, and the property in brackets names the case as an
exception:

* `PosixSpinLock::try_lock()` and `PosixRWLock::try_lock_shared()` return the opposite
  of what they did (`HoldersAreKnown`).
* `Semaphore::Acquire()` ignores an interruption (`PermitsBalance`); `TimedAcquire()`
  adds its time limit, which the comment at `sem.h:59` gives in milliseconds, to the
  nanoseconds, without a carry.
* A `BaseThread` with the detached attribute never learns its id: `GetId()` waits for
  ever (`CallersGetAnswers`), and the handle stays, so it cannot be started again
  (`base_thread.cc:66`).
* A `FiberThread` constructor that is interrupted throws while its thread runs on; a
  callback may call `SetName()` when its object is gone (`BuiltMeansStarted`).
* The end of every fiber runs into the assertion that it is never reached, because
  `swapOut()` is empty; the end of a thread that has a main fiber runs into that of its
  destructor; a fiber that has begun is never destroyed, because its own stack holds a
  pointer to it; the count of fibers is masked with 1 where the main fiber is made
  (`FibersFollowContext`).
* A coroutine that was resumed cannot yield again, and the table of coroutines has no
  limit (`SlotsFollowCoroutines`).
* `operator==` of `uint128` is `!=`, and the other way round; the carry of `+` is the
  wrong way round, so a sum is wrong whenever something is added to the low word
  (`uint128_t.h:41`; `WideArithmetic` states both as they are, and is wrong of the code
  on the day they are mended).
* `quick_hash()` with a size never advances its pointer: only the first byte and the
  size enter. The overloads for a `string_view` hash up to the next NUL, wherever the
  view ends (`hash.cc:93-95,109-121`). `SomeHashesMissBytes` says which inputs they do
  not tell apart.
* A caller of `AddTask()` that was past the check of `m_exit` (`thread_pool.cc:160-165`)
  when `Terminate()` ran uses a context that has been deleted (`NoUseAfterFree`, which
  exempts it by `early`).
* `replace()` with an empty needle does not end (`ReplaceIsSplitAndJoin`, which is not
  asked of it).
* `RingBuffer::resize()` leaves the buffers and `size()` is wrong after a wrap; an
  element of `force_push()` is overwritten by the next one, seen by nobody
  (`RingKeepsLine`).
* A move assignment of `fd_guard` forgets a descriptor (`FdsHaveOneOwner`). An allocator
  moved from keeps its slots: the model's clients do not use it any more.
* `StartWithPrefix()` looks for any of the characters (`AffixesAgree`); `Escape()` puts
  as many NULs in front as it has characters (`EscapeKeepsText`).
* A `ByteArray` at the end of its chain follows the null pointer when nothing is read
  (`FaultsAreKnown`).

## 5. Proofs

What a run shows on an instance the theorems show for every value of the constants that
the `ASSUME`s of the modules allow. Those say no more than that bounds are naturals,
that the markers for "nobody" or "nothing" are none of the things they stand beside, and
what the code itself fixes (`N > 2` is a `static_assert`; a pool of `ToftThreadPool` has
a worker; a block has a slot); where something is counted, that the set of threads or
fibers is finite. The bounds the runs need (`MaxPush`, `Rounds`, `MaxTime`, ...) are
constants too, so the theorems hold however large they are. Where a theorem needs more,
its statement has an `ASSUME` of its own, and the paragraph below says why.

A property is seldom inductive. Each module defines the invariant that is, in named
parts, proves that the parts hold initially and survive each action, and ends with the
theorems, which follow by temporal logic alone.

**`WorkStealingQueueProofs`**: of the code as it is written, with any fence, `TypeOK`
and `EachSideTakesOnce`; and `HandedOutOnce`, `OnlyWholeItems` and the refinement
`ImplementsDeque` for every behaviour in which no load of `_top` in `pop()` overtakes a
store of `_bottom` that still waits (`[][~Overtakes]_vars`). Something of the kind is
needed: with the fence the code has, the run `wsq_double_delivery` refutes
`HandedOutOnce`, and the step that does it is `Overtakes`. With a fence that drains the
store buffer no load overtakes (`FullFencePreventsOvertaking`), and the three hold of
every behaviour. Positions are counted for ever and position i is kept in slot i modulo
the capacity. Whatever waits in the store buffer is written at or behind the `_bottom`
that memory shows (`StoresBehind`), so that what lies between `_top` and that `_bottom`
is whole and stays until `_top` moves (`Readers`); and when the buffer is empty where
`_top` is loaded, no thief can be about to take a position that `pop()` takes without a
race (`ReservedIsMine`). `ItemsWait` adds that each position in use holds an item of its
own that nobody was given.

`EachSideTakesOnce` needs another invariant, for without the fence the owner may take a
position that is gone, and a thief may read a slot that is being written again. The
owner's half looks at the owner's own view only: the positions from the `_top` that
`pop()` has read up to its `_bottom` hold items of their own that it has not taken
(`OwnItemsWait`). The thieves' half never looks at what was popped: an item is in one
slot and on its way to at most one (`OneSlotEach`, `PendingAreNew`), and whichever
`_bottom` a thief reads, now or after any number of the waiting stores, no position
between `_top` and it holds an item that was stolen, unless a store before that one
overwrites it (`StolenAreGone`). The property is stated in this theorem only: the run
with the code's fence asks for `HandedOutOnce` alone, which it refutes.

**`FastPthreadMutexProofs`**: `TypeOK`, `NoLostWakeup` (signals or not),
`MutualExclusion` and `ImplementsLock`, the last two up to the first interrupted wait,
which is what the properties themselves say. `WakeupInv` strengthens `NoLostWakeup` by
what a thread about to sleep relies on; `LockInv` adds that the word is 0 exactly when
nobody is inside (`WordTellsHolder`), which exclusion needs because a thread enters on
reading 0. Each step then maps to an acquire, a release or a stutter of `MutexLock`; the
first interruption takes the lock from its holder, and after it the abstract lock rests.

**`SimpleThreadPoolProofs`**: `TypeOK` and `NothingLostOrDoubled`, and `NoStrandedTask`
for a pool with at least one worker (a pool of none strands whatever it is given). The
last two are inductive on their own, given the types; the types need that a worker about
to run has taken a task (`RunsWhatItTook`), because the task it runs decides what it
enqueues.

**`ToftThreadPoolProofs`**: `TypeOK`, `RunsInOrder`, `TerminateDrains` and
`NoUseAfterFree`. When `Terminate()` has returned every worker has left its loop and
what was in a list before its context's exit flag was set has run; what came later is
deleted unrun. The order of what ran is not inductive: what a context was given is what
it ran, then the rest of the batch its worker swapped in, then what is pending
(`NothingOutOfPlace`), and that every step keeps. For the drain the invariant says how
many of its tasks a worker that has seen its exit flag is still sure to run (`Due`), and
that every task that came in time is one of them (`NobodyLeavesEarly`): a worker leaves
only after a last swap under its lock, and who adds to it before that is in its list.
`NoUseAfterFree` needs that whoever is past the check of `m_exit` once it is set was
past it when it was set (`TerminateIsWhereItSays`; such callers are the exception the
property makes, and a finding), and that `m_num_busy_threads` counts the workers that
still run (`BusyAreCounted`).

**`ThreadsProofs`**: `HoldersAreKnown` and `ClassesImplementLock` for the locks,
`HandoversAreSound` for semaphores, threads and singletons, `CoroutinesKeepState` for
both kinds of coroutines. The parts share no state, so each has an invariant of its own,
and what is proved of the locks alone (`LockSpec`) carries over. They are stated for
`ThreadsSpec`, which `threads` runs. What is added to the properties: for the locks,
that the word is set for exactly one of the threads inside and readers are counted
(`TakenByOne`, `ReadersAreCounted`), as long as no `try_lock()` has given a wrong
answer, the exception the property makes too; for the semaphores that permits and those
who have one add up, for which the users must be finitely many; for `FiberThread` which
step of `run()` each hand-over waits for; for the singleton that one caller at a time is
in `call_once` and none once the holder is there (`OnceExcludes`); for the fibers that a
fiber that has begun is counted by its own stack (`ReferencesHold`), which is why its
destructor's assertion is never reached; for the coroutines that an unfinished one has
one slot, and that the one which runs beside `running_thread = -1` was resumed
(`SlotsFit`, `RunnerFits`).

The same module proves, of `FiberTimers` alone, for any users, pollers, periods and
set-backs of the clock, `TypeOK`, `SetIsSound`, `OneShotOnce` and `CancelIsFinal`. The
set can be searched because a timer that no set holds yet belongs to one `addTimer()`
(`CallsKnowTheirTimer`) and no timer is due before its period is over (`DueAfterStart`,
which `reset()` needs); a one-shot callback runs once because it is in one place: the
timer, the hands of one poller, or gone (`CallbackIsInOnePlace`). `NoOversleep` is
proved for a clock that is never set back (`MaxJumps = 0`), and `NeverEarly` for that
and a single poller. Both hypotheses are those of the run that checks them. After a
set-back `refresh()` may move a timer to an earlier time without a tickle. Of two
pollers one may read the clock and then wait for the lock until the other has noted a
time more than an hour later (`Hour`, a constant like the others): that looks like a
rollover, and everything is expired. What carries `NoOversleep` is that `m_tickled`, the
flag that suppresses tickles, is set only while somebody is awake or about to be woken
(`TickledIsWatched`).

**`StorageProofs`**: `BuffersKeepOrder` and `MemoryHasOneOwner`, for `StorageSpec`,
which is what `utilities` runs without the strings, bytes and words. One invariant for
each class:

* `RingBuffer`: the k-th element that waits is k places behind the reader, around the
  end (`LineIsThere`). Of `resize()` the theorem covers only the calls with the writer
  at 0, which is an empty ring; every other copies from behind the buffer. The property
  walks the ring with `NextIndex()`; the walk is proved to be defined and to be counting
  modulo the capacity (`WalkExists`).
* `ByteArray`: the node the cursor is at is the one its position is in (`ArrayShape`).
  The loop of `write()` and `read()` goes node by node and ends where a byte count
  reaches 0; it is a function defined by itself. `WalkResult` says in closed form where
  it leads, and the loop is proved to exist and to be that, by a least counterexample
  among the counts: so a byte is looked for where it was written, across any number of
  nodes.
* `MemoryPoolLiteImpl`: the rest of the current block is behind all its pieces.
* `MemoryPoolLiteAllocator`: each block is in the chain of one allocator or freed
  (`OwnersPart`); a slot of an allocator's blocks is held, never handed out, or spent,
  and the free list leads in one line through spent slots, no two of which have the same
  successor (`OneLine`). That is what `allocate()` needs: the slot it takes off the list
  is nobody's, and the one the list then begins with is another. A chain, and the slots
  a list leads through, are the smallest sets closed under the pointers.
* `fd_guard`: what guards, the program and nobody hold are different descriptors, and
  together the open ones (`FdsPart`).

The same module proves, of `SpscQueue`, `TypeOK`, `Fifo`, `NoDataRace`, `Bounded`,
`FailsOnlyWhenItMust` and the refinement `ImplementsFifo`. The inductive invariant
relates the two modification orders to the history: the length of each index's order
counts the completed calls of its thread (`Counts`), the k-th index is k-1 modulo N,
stated as "next is one more or wraps to 0" with the difference of the two orders below N
(`Ring`), the locals of a call are what its thread has last read (`Producing`,
`Consuming`), and the slots between the indices hold the elements sent but not yet got
(`Stored`). The last is what `Fifo` needs and does not say. Every lag is covered because
the invariant bounds what a thread *has read*, not what is current: a check that passes
on an old index passes on the newest too. For the refinement each step is a put, a get
or a stutter of `BoundedFifo`: an element is in the abstract queue from the store of the
write index to the store of the read index.

**`TextsProofs`**: `ViewsAreExact`, `StringsAreKept` and `WordsAreExact`, for
`TextSpec`. Each is proved of all strings (`String`, the sequences of bytes) and words
first, and carries over because the inputs are strings of the length the assumption on
`npos` allows (`TextInv`): no position in a text, nor in one that a replacement has made
longer, is the number that stands for "not found". What is asked of `WordsAreExact`
needs no byte and no bound, so the three theorems it rests on stand for themselves
(`WideArithmeticHolds`, `RetriesAlwaysBackOff`, `ItoaAlwaysReadsBack`). Of wide integers
they say what is so: subtraction and order are exact, `operator==` and `operator!=`
always give each other's answer, a sum is right exactly when nothing is added to the low
word.

* Views. A search finds the least or the greatest of a set of positions, and a search
  backwards is one forwards in the mirror: their sets are images of each other. A
  comparison is decided at the first difference, the least of a set again. What is cut
  off lies inside what it was cut from.
* Recursion. The prover has no induction over data for an arbitrary predicate, but it
  has sets: that a function defined by itself is there (`RecursionIsDefined`), and that
  it has the value it should (`NoLeastWrong`), follow from a least counterexample: a
  point where it is wrong would have another nearer to the end.
* Strings. `FlattenSeq()` and `Join()` grow by one part at a time. `Split()`,
  `replace()` and `Escape()` each put a string in the place of every character
  (`Spread`); splitting at a character and joining with it is that with the character
  itself, and reading back is the inverse because what is put in has a first character
  that tells how long it is.
* Words. The powers of two are the function that doubles (`Pow2`), a word is a number
  below one of them, a borrow is the difference of two residues; digits are written from
  the last to the first, and what the loop writes from any round on stands for the
  number that round begins with (`DigitsOut`).

**`BytesProofs`**: `BytesAreKept`, if a digest is `DigestLength` bytes
(`DigestsAreBytes`), which is what `hmac()` takes for granted of OpenSSL's functions and
what the digest of the run is. A codec works chunk by chunk (`EachOver`), so what it
does to a string follows from what it does to one chunk and to what comes after it
(`Blockwise`), by induction over the chunks (`Chunks`). One chunk is arithmetic: three
bytes are four digits of six bits, and two, or one, are three, or two, with zeros behind
(`EncodedShape`, `FourInThree`). A decoder stops at the first character that is no digit
(`DigitsAre`); the strict one accepts only what the lenient one reads to the end, and
has never written more than three bytes for four characters when it refuses one
(`NothingOverruns`). Hexadecimal is the same with chunks of one and two (`HexOf`). A
hash is the record of what is mixed into it: of `murmur3_hash()` with a size, of
`Hash()` and of the texts in front of their NUL the record gives back every byte
(`MixedOnce`); of `quick_hash()` with a size and of the `string_view` overloads it does
not, and the theorem says which inputs they do not tell apart
(`SomeHashesAlwaysMissBytes`). That the pads of HMAC keep two keys apart is one bit that
differs in their constants (`PadsDiffer`).

Only model-checked are the liveness properties (`Delivered`, `NothingForgotten`,
`EverybodyFinishes`, `AllTasksComplete`, `DestructorReturns`, `AddedTasksRun`,
`TerminateReturns`, `DueTimersFire`, `NobodyWaitsForEver`): fairness and `ENABLED` are
out of the prover's reach. Every invariant, action property and refinement that a run
checks is proved. A theorem about OpenSSL's digests themselves, or about what the
multiplications of the hashes make of a word, is out of the models' reach.

## 6. Plan

The model came in the order of importance: what runs on several threads without further
protection, and the protocol between timers and their pollers; the small locks and the
hand-over between creator and created; the sequential state machines, buffers and
functions. The proofs followed, in the same order. What could come next:

1. Liveness by hand-written ranking arguments: for the mutex and the pools, the steps
   that bring the end nearer are known, and that none of them takes it farther is an
   action property that the prover could show.
2. The methods of `ByteArray` for integers of variable length, once they are defined.

## 7. Not modelled

* `MpmcLockFreeQueue`: its header says that it has problems, its test is disabled,
  `push()` never returns true, and `pop()` stores the wrong counter. Nothing it promises
  could be stated.
* The methods of `ByteArray` that the header declares and no file defines.
* Random numbers and strings, stream operators, stack walking.
* Cryptography, zlib, jsoncpp, yaml-cpp and glog wrappers, files, processes: what they
  do is their library's or the system's.
* Atomic instructions, thread-local storage, compile-time code: no protocol of their
  own.
* The scheduler of fibers, and `ds/slice.h`: empty. `ds/array.h` is a vector, and its
  `insert()` does not compile once it is used.
