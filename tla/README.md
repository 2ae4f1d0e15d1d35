# TLA+ models of proto's thread runtime

proto runs POSIX threads as user-level threads over one forked worker process
per core. All workers share the thread control blocks (TCBs), the ready queues
and the user's memory. Each worker runs a scheduler loop (`src/xscheduler.cpp`)
that does four things in order:
1. takes a thread from its core's private queue, or else from the shared queue;
2. switches to that thread;
3. once the thread switches back, applies the events the thread left behind.
   These are "enqueue me on queue q" (YIELD) and "release spinlock l"
   (RELEASE_LOCK).

A thread that must publish itself somewhere before it stops running leaves such
an event, so the publication becomes visible only after its core has switched
away from its stack. Examples are a joinqueue or a condvar wait list. The
pthread calls are implemented on top of this:
- `xrun::spawn` puts the child on the shared queue.
- `xthread::join` and `xthread::exit` (`src/xthread.cpp`) link the joiner into
  the joinee's joinqueue, mark the joinee dead, use the dead queue and migrate
  the last thread back to its bound core.
- Spinning mutexes, condition variables and barriers are in
  `src/include/xmutex.h`, `src/include/xcondvar.h` and `src/xbarr.h`.
- Page ownership (`src/src/xprotect.cpp`, `src/include/pageowner.h`) is meant
  to migrate a thread to the core that owns a page it faults on. Protection is
  never switched on, though (see below).
- Thread ids come from a shared table (`src/include/xmap.h`).
- Memory comes from a shared bump heap (`src/include/xheap.h`), carved into
  per-core heaps (`src/include/xpheap.h`). The exported `proto_malloc`,
  `proto_calloc`, `proto_free` and `proto_realloc` (`src/src/libproto.cpp`)
  use a static buffer before libproto's initializer has finished and after
  its finalizer, and the core's heap in between.
- libproto's finalizer calls `xrun::finalize`. It moves the initial thread
  back to its bound core and kills the other workers.
- Every queue and wait list is an intrusive circular list (`src/include/list.h`).

## Modules

| module | models | state | actions |
|---|---|---|---|
| `Scheduler` | `schedulerThread`, `isRunnableThread`, `handleThreadEvents`, `threadYieldHoldingLock`, `threadYieldToRunQueue`, `xqueue` | `cthread`, `spc` (where each core's loop is), `evq` (scheduler event queue), `rq` (every xqueue), `held` (every spinlock); also declares all shared state | `SchedDequeuePQ`, `SchedDequeueSQ`, `SchedDispatch`, `SchedHandleEvents` |
| `Threads` (extends Scheduler) | `xrun::postinit`, `xrun::spawn`, `xthread::join`, `xthread::exit`, `xrun::finalize` | `pc`/`ph` (each thread's call and step), `status`, `isbounded`, `boundcore`, `joinq` | `PostInit`, `Spawn`, `JoinLock`, `JoinRelock`, `JoinReap`, `Exit`, `FinalizeMigrate`, `FinalizeKill`, `Cancel`, `SchedYield` |
| `Sync` (extends Scheduler) | `xmutex`, `xcondvar`, `xbarr` | `minit`, `mwait`, `mstatus`, `mowner`, `cinit`, `cwait`, `bmax`, `bwaiters`, `bwait`, `bhead`, `flag` | 27 actions, one per step of each call between points where another core can interfere, and one per destroy |
| `Runtime` (extends Threads, Sync) | the whole runtime | all of the above | `Next`: any step of any core's scheduler or of the thread it runs |
| `MCRuntime` | workloads for TLC | constants `tm ta tb tc m1 v1 b1` | |
| `TidMap` | `xmap` (`src/include/xmap.h`): `allocTid`, `registerThread`, `getThread`, `deregisterThread` | `map`, `now`, `first`, `threads`; per worker `cphase` (creating its scheduler thread or running user threads), `pend` (a tid allocated, not yet registered), `joining` | `SchedAlloc`, `SchedRegister`, `SpawnAlloc`, `SpawnRegister`, `JoinLookup`, `FreeThread` |
| `BumpHeap` | `xheap::malloc` (`src/include/xheap.h`) and the owner-table writes of `xprotect::setPagesOwner` | `position`, `remaining`, `hlock`, `owner`, `isProtected`; per core `hpc`, `req`, `got`; the returned `blocks` | `MallocLock`, `MallocBump`, `MallocSetOwner` |
| `ThreadLists` | the abstraction: lists as sequences of threads, a thread in at most one | `lists` | `AddTail`, `AddHead`, `TakeFirst`, `MoveOut`, `MoveIn` |
| `IntrusiveList` | the pointers of `src/include/list.h` as `xqueue`, the wait lists, the joinqueue and a broadcast use them | `mem` (each node's `next`/`prev`), `detached` | `Enqueue`, `PutJoineeQueue`, `Dequeue`, `CondBroadcast`, `BarrierRelease`, `EnqueueAllList` |
| `Allocator` | `proto_malloc`/`calloc`/`free`/`realloc`, `mytempmalloc`, the initializer and finalizer (`src/src/libproto.cpp`); `xrun::malloc`/`free`/`realloc`; `NewSourceHeap` and `PerProcessHeap` (`src/include/xpheap.h`); `objectHeader` | `phase` (before, inside or after the initialized window), `tempnext`, `remainning`, `mem` (every word: data, zero, header or free-list link), `bump`, `freel` (per core and size class), `live` (the blocks the program holds), `calls`, `exited` | `InitTempBuf`, `InitDone`, `Finalizer`, `ProtoMalloc`, `ProtoCalloc`, `ProtoFree`, `ProtoRealloc`, `ProtoMallocUsableSize` |
| `MCTidMap`, `MCBumpHeap`, `MCIntrusiveList`, `MCAllocator` | constants for TLC | | |

How the modules correspond to the code:
- **Cores and threads.** A core is a worker process. The thread a core executes
  is `cthread[c]` while `spc[c]` is `"run"`. `spc[c] = "yield"` is the moment
  after the thread's `THREAD_SWITCH` back to the scheduler and before
  `handleThreadEvents`.
- **Workloads.** A thread's workload is a sequence of pthread calls in
  `Prog[t]`. `pc[t]` is the call it is in and `ph[t]` is its step inside that
  call.
- **Step granularity.** Each call is split at the points where it takes or
  releases a spinlock or yields. A spinlock acquire is an await on
  `~held[l]`.
- **Lists.** The intrusive lists are sequences. A zero-filled list head
  (`next == NULL`) is the value `NullList`, because `isListEmpty` calls it
  non-empty.
- **`boundcore`.** The constructor never sets a spawned TCB's `boundcore`
  (`src/xthread.h:44`), and `setBoundCore` is called only for the initial
  thread (`src/xrun.h:497`). A spawned thread's `boundcore` is whatever its
  `MALLOC_SHARED` block held. That is 0 in fresh, zero-filled shared memory,
  and 0 again in a recycled TCB, whose `boundcore` was never written. So
  `Spawn` sets it to 0. Every thread that has joined (`isbounded`) is bound to
  core 0.
- **Barrier release.** The last arrival detaches the wait list into its local
  `head` (`bhead`) and resets `waiters` under the lock (`BarrierRelease`). It
  then unlocks and hands `head` to the shared queue as a separate step
  (`BarrierEnqueue`), so other cores can act in between.
- **Aborts.** An `abort()` or `PRFATAL` sets `fatal`, which disables every
  action.

- **Critical sections.** In `TidMap`, each `xmap` method runs under the map's
  cross-process lock and is one step. A tid is allocated and registered in two
  separate sections, and other workers can run between them. In `BumpHeap`,
  the bump is done under `_lock` and the owner-table write after the unlock.
  In `IntrusiveList`, every list routine runs under the lock of its list. A
  broadcast or barrier release is two steps: detach under the wait list's lock,
  then `enqueueAllList` under the run queue's lock.
- **Pointer routines.** Each `list.h` routine is a function from `mem` to
  `mem`. It applies its assignments in the code's order, so aliasing (an empty
  list, a head that is its own neighbour) comes out as in the code.
- **Refinement.** `IntrusiveList` maps a head to the ring reached from it by
  `next` pointers. The local head of a broadcast maps to `head.next` through
  `head.prev`, which is exactly what `enqueueAllList` splices.
- **Words.** `BumpHeap` keeps `size_t` arithmetic modulo `2^W`.

`Init` is the state before the first `pthread_create`. Only the initial
thread (tid 0, bound to core 0 but not marked bounded) runs, on core 0, and
there are no other workers yet. The first spawn runs `xrun::postinit`
(`PostInit`). Postinit forks a worker per other core. It then puts the initial
thread in core 0's private queue (`threadYieldInitially`) and switches to core
0's scheduler loop. Until then no yield is possible. A yield before postinit
would switch to a scheduler thread that does not exist.

When the initial thread returns from main, libproto's finalizer runs
`xrun::finalize`. If postinit never ran, finalize returns and the process
exits. Otherwise it first yields to its bound core's private queue, if it is on
another core (`FinalizeMigrate`), and then kills the other workers
(`FinalizeKill`). `Exited` is the end of the program. `Next` lets it stutter
there.

**Destroy.** `mutexDestroy`, `condDestroy` and `barrDestroy` are one step
each, without the spinlock, as in the code (spec.md says destroy runs under
it). The first two abort when `hasWaiters()`: the wait list is not empty, and
a zero-filled wait list counts as not empty. A mutex's wait list is
`listInit`'ed by `mutexInit` or by the lazy init of its first lock (`mwait`).
It then stays empty, because the wait-list branch of `mutexLock` is compiled
out. Destroying a static mutex that was never locked therefore aborts. So does
destroying a static condvar nobody has waited on. `barrDestroy` aborts while
`waiters > 0`. `pthread_cancel` (`xrun::cancel`, whose body is commented out)
and `sched_yield` (a stub) return without effect.

**Allocator.** Each `Allocator` call is one step of the calling core. Each
per-core heap is used only by its own worker, and that worker runs one thread
at a time. The shared heap's bump is taken under its lock. The program writes
a tag into every block it allocates. A block records how many of its words
must still hold the tag: after a realloc, that is the first min(old, new)
words.

The size classes of Heap Layers' Kingsley heap are powers of two. A free
object becomes the head of its class's list, and its first word becomes the
link. The Kingsley heap is not in the repository, so those operators are
marked spec-modelled. `proto_free(NULL)` stops at `xmemory::free`'s null test,
and `proto_malloc_usable_size` reads the header through `getSize`, which aborts
on a word that is not a header. The temp-buffer path starts with `remainning = 0`: a
`proto_malloc` before the initializer exits the process. These entry points
are exported, but the interposition that would route the program's `malloc`
to them is compiled out (`#if 0`).

## Properties

- `TypeOK`: the type invariant, checked in `pingpong`.
- `NoDoubleRun`: no thread is executed by two cores, and no thread a core is
  executing sits in a ready queue. Every blocking call relies on this through
  the yield-holding-lock protocol.
- `SingleLink`: a TCB is in at most one list, since every list uses its single
  `toqueue` node.
- `NoAbort`: no abort. This covers a join that finds its joinee alive, a
  mutex-owner mismatch, a NULL waiter dequeued from a zeroed condvar, and a
  mutex, condvar or barrier destroyed while its wait list is not empty.
- `MutualExclusion`: no two threads hold a mutex. This includes the re-lock at
  the end of a condvar wait.
- `BarrierRendezvous`: no thread completes its k-th wait on a barrier before
  every member of the barrier's group has arrived at its k-th wait.
- `NoRunAfterFree`: no core runs on a TCB that join has freed. After
  `xthread::exit` marks itself dead and queues itself, it still runs on its own
  stack until its `THREAD_SWITCH`. Only exit's own TCB lock, which the
  scheduler releases after the switch, keeps a joiner on another core from
  reaching `freeThread` (xthread.cpp:205) before that.
- `Termination` (liveness): the program exits. The initial thread's program
  runs to its end, and `xrun::finalize` kills the workers from core 0.
- `AllocTypeOK`: the allocator's type invariant. `remainning` never goes
  negative.
- `BlocksIntact`: every block the program holds still holds what it put
  there. That is its tag, zeroes from calloc, or the words a realloc copied.
  Two blocks sharing memory, a free list fed the wrong class, or a calloc or
  realloc touching the wrong words break it.
- `HeadersIntact`: the `objectHeader` of every live heap object is intact and
  covers the request. `getSize` and realloc read it.
- `TidTypeOK`, `ListTypeOK`: the type invariants of the other modules.
  `ListTypeOK` also requires each head's ring to be a list of TCB nodes.
- `AllocSkipsRegistered` (action property): `allocTid` never returns the tid of
  a registered thread.
- `TidsUnique`: a tid allocated and not yet registered is inside the table, is
  NULL there, and is held by no other allocation.
- `HeapInBounds`: every block `xheap::malloc` returns lies inside the heap.
- `DoublyLinked`: every head's ring closes, and every node's successor points
  back to it.
- `Refinement`: `IntrusiveList` implements `ThreadLists` under the mapping
  above (`Abs!ListsSpec` as a `PROPERTY`).
- `DeadQueueUnreaped`: the dead queue holds only dead, unreaped threads. This
  is what join's "Remove joinee from its queue" intends.

## Runs

| run | workload | cores | result |
|---|---|---|---|
| `pingpong` | two threads hand a flag back and forth with `pthread_mutex_init`/`pthread_cond_init` objects; main returns without joining, possibly on core 1; the worker starts with `sched_yield` | 2 | pass, 392 states |
| `broadcast` | the quicksort-shaped spawn/join tree, started by a static mutex taken before the first `pthread_create`, plus a broadcast hand-off, two rounds of a two-thread barrier, a `pthread_cancel` before a join, and the destroy of the mutex, condvar and barrier; `NoRunAfterFree` is checked here | 2 | pass, 6,206 states |
| `uniproc` | static mutex and condvar, lazily initialised; waits, broadcast, signals, nested spawn/join, then destroy of the mutex and condvar; checks `SingleLink`, `NoAbort` and `Termination` (one core cannot run a thread twice) | 1 | pass, 109 states |
| `deadqueue` | the parallel quicksort of `src/test/unit/test.cc` (`ForkJoinProg`) | 2 | violation of `DeadQueueUnreaped` |
| `lazy_mutex` | two threads take a static mutex for the first time | 2 | violation of `MutualExclusion` |
| `lazy_cond` | the uniproc workload | 2 | violation of `NoDoubleRun` |
| `static_signal` | a signal on a static condvar before any wait | 1 | violation of `NoAbort` |
| `tidmap` | `MaxThreads = 6`, two workers, five spawns with joins | 2 | pass, 18,939 states |
| `tid_collision` | `MaxThreads = 5`, four spawns | 2 | violation of `TidsUnique` |
| `heap_overrun` | a 10-byte heap of 2-byte pages, 5-bit words, requests of 3 and 4 bytes | 2 | violation of `HeapInBounds` |
| `alloc` | four-word temp buffer, 14 heap words, requests of 1 and 3 words, six calls, any order of initializer, finalizer and calls on either core | 2 | pass, 1,578,402 states |
| `lists` | three TCBs; a run queue, a wait list, a joinqueue and a local head | - | pass, 5,368 states |

Each passing run checks its properties for every interleaving of the two
cores. Between them, the passing runs fire every action.

The violation runs are code defects, listed under `findings` in
`PROJECT.json`:
- **`deadqueue`:** `removeFromDeadQueue` dequeues the head of the dead queue,
  not the joinee.
- **`lazy_mutex`:** `mutexInit` calls `lck.init()`, which releases the spinlock
  that `mutexLock` holds, before the MAGIC is written. A second first-time
  locker re-initialises the mutex and frees it under its holder. The unit
  test's `threads_mutex` is such a mutex.
- **`lazy_cond`:** the same release inside `condWait` lets a signaller requeue
  a waiter that has not yet switched out. Another core then runs it on a
  stack in use.
- **`static_signal`:** `condSignal` on a zeroed condvar unlinks a NULL waiter.
- **`tid_collision`:** `allocTid`'s scan after the wrap skips only registered
  entries. A tid that another worker allocated but has not yet registered is
  still NULL, so the scan returns it a second time. In the trace, a worker's
  scheduler thread and a user thread both get tid 3. The same scan neither
  wraps nor stops at `MAX_THREADS`.
- **`heap_overrun`:** the exhaustion test `*_remaining == 0 && *_remaining < sz`
  holds only at exactly zero. A request larger than a non-zero remainder wraps
  `_remaining` and returns a block past the heap's end.

Every property of every passing run has a mutant in `PROJECT.json`. A mutant
is an operator written next to the definition it replaces, and it models a
plausible slip in that code:
- a joiner that drops the joinee's lock before it yields (`JoinSuspendUnlocked`);
- a woken joiner left linked, left with a live joinee, or lost
  (`WakeJoinerLinked`, `WakeJoinerAlive`, `WakeJoinerLost`);
- a lock that skips the status test (`MutexCheckUnchecked`);
- a finalize that does not move back to the bound core (`FinalizeMigrateNoYield`);
- a condvar signal without the wait-list lock, one that leaves the waiter
  linked, or one that loses it (`CondSignalUnlocked`, `CondSignalLinked`,
  `CondSignalLost`);
- a `mytempmalloc` without its remainder check (`TempMallocNoCheck`);
- a calloc without its memset (`ProtoCallocNoMemset`);
- a realloc copying the whole old object, not min(old, new)
  (`XreallocCopyAll`);
- a barrier that keeps the old count (`BarrierReleaseNoReset`);
- an exit that does not take its own TCB lock (`ExitUnlocked`);
- a spawn whose `boundcore` lies past the core ids (`SpawnGarbageCore`);
- an `allocTid` without the later-sweep scan, or without the modulo
  (`AllocTidNoScan`, `AllocTidNoWrap`);
- an `__insert_between` that never sets `next->prev` (`InsertBetweenNoBack`);
- a `listInsertListTail` with its two links swapped (`InsertListTailSwapped`);
- a broadcast that does not re-initialise the wait list (`CondBroadcastNoInit`);
- a lazy `mutexInit` that skips `listInit(&waitlist)`, after which the
  destroy of the mutex aborts (`MutexInitFreeNoList`).

TLC finds the property violated under each of them.

## Bounds

- **Cores.** Two cores are the smallest number with parallelism.
- **Threads.** Up to four threads: a three-level spawn tree, or three threads
  around one condvar and one barrier.
- **Objects.** One mutex, one condvar and a barrier for two, used for two
  rounds.

- **Tid map.** A table of 5 or 6 entries with two workers is small enough for
  the cursor to wrap several times within 4-5 spawns. Entries past the array
  read as NULL.
- **Heap.** With 5-bit words, a 10-byte heap and requests of 3 and 4 bytes,
  the third request finds a 2-byte remainder.
- **Allocator.** A four-word temp buffer runs out within two requests of 3.
  Fourteen heap words hold objects of every class, with headers, and leave
  room for reuse. Six calls allow malloc, free, a malloc that reuses the
  freed object, and a realloc moving it, on either core's heap.
- **Lists.** Three nodes let a list hold two waiters while a third thread is
  enqueued during a broadcast.

Every race above needs only two cores and two threads, and the workloads give
each one a chance to happen. The barrier needs two rounds for the reset to
matter. The uniprocessor run is deterministic: one core admits exactly one
schedule.

## Fairness

`FairSpec` assumes each core's scheduler loop keeps running (weak fairness on
`SchedStep(c)`). A worker process never leaves `schedulerThread`'s `for(;;)`.

It assumes strong fairness on each core's user-thread steps. A thread spinning
on a spinlock or a mutex status (`mutexLock`'s `checkagain` loop) re-tests
forever, so it eventually gets through if the lock is free infinitely often.

There is no preemption: a thread runs until it yields. The model never takes a
core away from a thread; it only interleaves the cores.

## Not modelled

Components and their status are listed in `PROJECT.json`.

- **Page-ownership traps.** `xmemory`'s `protectAllMemory` and
  `unprotectAllMemory` have their `startProtection`/`stopProtection` calls
  commented out. As a result:
  - `_isProtected` stays false;
  - no page is ever made inaccessible;
  - `xprotect::handleAccessTrap` (the owner CAS and the migration of the
    faulting thread) is unreachable.

  `BumpHeap` keeps `isProtected` so that the owner write follows the code's
  branch. The owner table starts zero-filled (owned by core 0), and
  `setMemoryUnowned` skips the heap.
- **Allocator details.**
  - `ZoneHeap`'s page-granular chunking is abstracted to a bump of words.
  - The `nmemb * sz` overflow of `proto_calloc` is not modelled.
  - `xpheap::malloc` has no `return` statement (undefined behaviour). The model
    assumes the callee's pointer comes back, as an unoptimised build returns
    it.

Out of the model's reach:
- the process bootstrap's mechanics (forking, stack copying); its effect is
  `PostInit`;
- machine contexts;
- signal installation. It is never active: `xsignal::initialize` is commented
  out at xrun.h:102 and `signalKill` at xrun.h:439, and the SEGV path needs
  page protection, which is disabled;
- `pthread_exit` (it calls `_exit(0)`, ending the worker) and
  `pthread_mutex_trylock` (it returns 0 without locking);
- the logging and memory-map helpers.

spinlock.h is not part of the repository. Its acquire and release are modelled
as an await and a reset of `held`.
