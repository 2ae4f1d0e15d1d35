-------------------------------- MODULE Sync --------------------------------
(***************************************************************************)
(* proto's replacements for pthread mutexes, condition variables and      *)
(* barriers (src/include/xmutex.h, src/include/xcondvar.h, src/xbarr.h and *)
(* their wrappers in src/xrun.h).  Each object lives in the user's         *)
(* pthread_*_t, in shared memory, and is guarded by its own spinlock.      *)
(*                                                                         *)
(* The mutex spins: the wait-list branch of mutexLock is compiled out, so  *)
(* its wait list is zero until listInit and empty after.  A mutex or condvar *)
(* never passed to *_init starts zeroed and is initialised lazily by the   *)
(* first lock or wait, under its spinlock.  A condvar wait suspends with   *)
(* threadYieldHoldingLock(cv lock); signal and broadcast move waiters to   *)
(* the shared queue.  The barrier suspends all but the last arrival.       *)
(*                                                                         *)
(* Workload calls (Prog[t][i]):                                            *)
(*   [op |-> "mutex_init", obj |-> m]      [op |-> "lock", obj |-> m]     *)
(*   [op |-> "unlock", obj |-> m]          [op |-> "cond_init", obj |-> v] *)
(*   [op |-> "waitfor", obj |-> v, mx |-> m, val |-> k]                    *)
(*        while (flag != k) pthread_cond_wait(v, m)                        *)
(*   [op |-> "set", val |-> k]  flag = k   [op |-> "signal", obj |-> v]    *)
(*   [op |-> "broadcast", obj |-> v]                                       *)
(*   [op |-> "barrier_init", obj |-> b, val |-> n]                         *)
(*   [op |-> "barrier", obj |-> b]                                         *)
(*   [op |-> "mutex_destroy", obj |-> m]   [op |-> "cond_destroy", obj |-> v] *)
(*   [op |-> "barrier_destroy", obj |-> b]                                 *)
(***************************************************************************)
EXTENDS Scheduler

(* The shared state a synchronisation step that neither yields nor touches *)
(* a ready queue leaves alone.                                              *)
Rest == <<cthread, spc, evq, postinit, rq, status, isbounded, boundcore, joinq, fatal>>

SyncInit ==
    /\ minit = [m \in Mutexes |-> FALSE]
    /\ mwait = [m \in Mutexes |-> NullList]
    /\ mstatus = [m \in Mutexes |-> "UNLOCKED"]
    /\ mowner = [m \in Mutexes |-> Main]   \* owner 0 is tid 0
    /\ cinit = [v \in Conds |-> FALSE]
    /\ cwait = [v \in Conds |-> NullList]
    /\ bmax = [b \in Barriers |-> 0]
    /\ bwaiters = [b \in Barriers |-> 0]
    /\ bwait = [b \in Barriers |-> <<>>]
    /\ bhead = [t \in Threads |-> <<>>]
    /\ flag = 0

(* Thread t is executing on core c at step s of its current call.          *)
At(c, t, s) == OnCore(c, t) /\ ph[t] = s /\ ~Returned(t)
Call(c, t, op) == At(c, t, "go") /\ Instr(t).op = op

(* Leave the current call and go on with the next one.                     *)
Next1(t) == pc' = [pc EXCEPT ![t] = @ + 1] /\ ph' = [ph EXCEPT ![t] = "go"]
Goto(t, s) == ph' = [ph EXCEPT ![t] = s] /\ UNCHANGED pc

Acquire(l) == held' = [held EXCEPT ![l] = TRUE]
Release(l) == held' = [held EXCEPT ![l] = FALSE]

----------------------------------------------------------------------------
(*                               Mutex                                     *)

(* The mutex a lock step works on: the call's own, or the one a condvar    *)
(* wait re-locks before returning.                                         *)
MutexOf(t) == IF Instr(t).op = "lock" THEN Instr(t).obj ELSE Instr(t).mx

(* mutexLock has the mutex: pthread_mutex_lock returns, or the wait loop    *)
(* of a condvar wait re-checks its condition.                               *)
LockReturns(t) ==
    IF Instr(t).op = "lock" THEN Next1(t) ELSE Goto(t, "go")

(* markLocked(); owner = current->getTid(); unlock(); return.              *)
TakeMutex(t, m) ==
    /\ mstatus' = [mstatus EXCEPT ![m] = "LOCKED"]
    /\ mowner' = [mowner EXCEPT ![m] = t]
    /\ LockReturns(t)

(* xmutex::mutexInit, called from pthread_mutex_init.                      *)
MutexInit(c, t) ==
    /\ Call(c, t, "mutex_init")
    /\ LET m == Instr(t).obj IN
         /\ mwait' = [mwait EXCEPT ![m] = <<>>]
         /\ mstatus' = [mstatus EXCEPT ![m] = "UNLOCKED"]
         /\ Release(ML(m))
         /\ minit' = [minit EXCEPT ![m] = TRUE]
    /\ Next1(t)
    /\ UNCHANGED <<Rest, mowner, cinit, cwait, bmax, bwaiters, bwait, bhead, flag>>

(* mutexLock: lock(); if not initialised, mutexInit() runs its steps below. *)
MutexAcquire(c, t) ==
    /\ \/ Call(c, t, "lock")
       \/ At(c, t, "macq")
    /\ LET m == MutexOf(t) IN
         /\ ~held[ML(m)]
         /\ Acquire(ML(m))
         /\ Goto(t, IF minit[m] THEN "mcheck" ELSE "minit_free")
    /\ UNCHANGED <<Rest, syncVars>>

(* A lazy initialisation that leaves the wait list zero.                   *)
MutexInitFreeNoList(c, t) ==
    /\ At(c, t, "minit_free")
    /\ mstatus' = [mstatus EXCEPT ![MutexOf(t)] = "UNLOCKED"]
    /\ Goto(t, "minit_lck")
    /\ UNCHANGED <<Rest, held, minit, mwait, mowner, cinit, cwait, bmax,
                   bwaiters, bwait, bhead, flag>>

(* mutexInit, lazily: listInit(&waitlist); markLockFree().                 *)
MutexInitFree(c, t) ==
    /\ At(c, t, "minit_free")
    /\ mwait' = [mwait EXCEPT ![MutexOf(t)] = <<>>]
    /\ mstatus' = [mstatus EXCEPT ![MutexOf(t)] = "UNLOCKED"]
    /\ Goto(t, "minit_lck")
    /\ UNCHANGED <<Rest, held, minit, mowner, cinit, cwait, bmax,
                   bwaiters, bwait, bhead, flag>>

(* mutexInit, lazily: lck.init() resets the spinlock the caller holds.     *)
MutexInitLck(c, t) ==
    /\ At(c, t, "minit_lck")
    /\ Release(ML(MutexOf(t)))
    /\ Goto(t, "minit_set")
    /\ UNCHANGED <<Rest, syncVars>>

(* mutexInit, lazily: setInited().                                         *)
MutexInitSet(c, t) ==
    /\ At(c, t, "minit_set")
    /\ minit' = [minit EXCEPT ![MutexOf(t)] = TRUE]
    /\ Goto(t, "mcheck")
    /\ UNCHANGED <<Rest, held, mwait, mstatus, mowner, cinit, cwait, bmax,
                   bwaiters, bwait, bhead, flag>>

(* A lock that skips the status test and takes the mutex as it finds it.  *)
MutexCheckUnchecked(c, t) ==
    /\ At(c, t, "mcheck")
    /\ Release(ML(MutexOf(t)))
    /\ TakeMutex(t, MutexOf(t))
    /\ UNCHANGED <<Rest, minit, mwait, cinit, cwait, bmax, bwaiters, bwait, bhead, flag>>

(* mutexLock: the first test of the while loop; a free mutex is taken and  *)
(* the spinlock released, a taken one releases the spinlock and spins.     *)
MutexCheck(c, t) ==
    /\ At(c, t, "mcheck")
    /\ LET m == MutexOf(t) IN
         /\ Release(ML(m))
         /\ IF mstatus[m] = "UNLOCKED"
            THEN TakeMutex(t, m)
            ELSE Goto(t, "mspin") /\ UNCHANGED <<mstatus, mowner>>
    /\ UNCHANGED <<Rest, minit, mwait, cinit, cwait, bmax, bwaiters, bwait, bhead, flag>>

(* mutexLock, checkagain: spin with cpuRelax until the status reads free.  *)
MutexSpin(c, t) ==
    /\ At(c, t, "mspin")
    /\ mstatus[MutexOf(t)] = "UNLOCKED"
    /\ Goto(t, "mrelock")
    /\ UNCHANGED <<Rest, held, syncVars>>

(* mutexLock: lock() again and re-test; still taken means unlock() and     *)
(* goto checkagain.                                                         *)
MutexRelock(c, t) ==
    /\ At(c, t, "mrelock")
    /\ LET m == MutexOf(t) IN
         /\ ~held[ML(m)]
         /\ IF mstatus[m] = "UNLOCKED"
            THEN TakeMutex(t, m)
            ELSE Goto(t, "mspin") /\ UNCHANGED <<mstatus, mowner>>
    /\ UNCHANGED <<Rest, held, minit, mwait, cinit, cwait, bmax, bwaiters,
                   bwait, bhead, flag>>

(* mutexUnlock by t: under the spinlock, abort unless locked by t, then    *)
(* markLockFree().  The wait list is always empty: nothing is enqueued.     *)
MutexUnlockBy(t, m) ==
    /\ ~held[ML(m)]
    /\ IF mstatus[m] = "UNLOCKED" \/ mowner[m] # t
       THEN fatal' = "mutex unlocked by a thread that does not hold it"
            /\ UNCHANGED mstatus
       ELSE mstatus' = [mstatus EXCEPT ![m] = "UNLOCKED"] /\ UNCHANGED fatal

MutexUnlock(c, t) ==
    /\ Call(c, t, "unlock")
    /\ MutexUnlockBy(t, Instr(t).obj)
    /\ Next1(t)
    /\ UNCHANGED <<schedVars, rq, held, status, isbounded, boundcore, joinq,
                   minit, mwait, mowner, cinit, cwait, bmax, bwaiters, bwait, bhead, flag>>

(* xmutex::hasWaiters: !isListEmpty(&waitlist); a zero list is not empty. *)
MutexHasWaiters(m) == mwait[m] # <<>>

(* mutexDestroy: if hasWaiters(), PRERR and assert; else setUninited().    *)
(* It takes no spinlock; a zero wait list is not empty, so a mutex never   *)
(* initialised or locked has waiters.                                      *)
MutexDestroy(c, t) ==
    /\ Call(c, t, "mutex_destroy")
    /\ LET m == Instr(t).obj IN
         IF MutexHasWaiters(m)
         THEN fatal' = "mutex destroyed with waiters" /\ UNCHANGED <<minit, pc, ph>>
         ELSE minit' = [minit EXCEPT ![m] = FALSE] /\ Next1(t) /\ UNCHANGED fatal
    /\ UNCHANGED <<schedVars, rq, held, status, isbounded, boundcore, joinq,
                   mwait, mstatus, mowner, cinit, cwait, bmax, bwaiters, bwait, bhead, flag>>

----------------------------------------------------------------------------
(*                         Condition variable                              *)

(* xcondvar::condInit, called from pthread_cond_init.                      *)
CondInit(c, t) ==
    /\ Call(c, t, "cond_init")
    /\ LET v == Instr(t).obj IN
         /\ cwait' = [cwait EXCEPT ![v] = <<>>]
         /\ Release(CL(v))
         /\ cinit' = [cinit EXCEPT ![v] = TRUE]
    /\ Next1(t)
    /\ UNCHANGED <<Rest, minit, mwait, mstatus, mowner, bmax, bwaiters, bwait, bhead, flag>>

(* enqueueWaitlist: setThreadCondWaiting(); listInsertTail(waitlist).      *)
EnqueueCondWaiter(t, v) ==
    /\ status' = [status EXCEPT ![t] = "cond_waiting"]
    /\ cwait' = [cwait EXCEPT ![v] = Append(@, t)]

(* The condition of the workload's wait loop holds: no wait at all.        *)
WaitForDone(c, t) ==
    /\ Call(c, t, "waitfor")
    /\ flag = Instr(t).val
    /\ Next1(t)
    /\ UNCHANGED <<Rest, held, syncVars>>

(* condWait: lock(); an initialised condvar takes the waiter at once, a    *)
(* zeroed one goes through condInit() first.                                *)
CondWaitLock(c, t) ==
    /\ Call(c, t, "waitfor")
    /\ flag # Instr(t).val
    /\ LET v == Instr(t).obj IN
         /\ ~held[CL(v)]
         /\ Acquire(CL(v))
         /\ IF cinit[v]
            THEN EnqueueCondWaiter(t, v) /\ Goto(t, "cunlock")
            ELSE Goto(t, "cinit_list") /\ UNCHANGED <<status, cwait>>
    /\ UNCHANGED <<postinit, cthread, spc, evq, rq, isbounded, boundcore, joinq, fatal,
                   minit, mwait, mstatus, mowner, cinit, bmax, bwaiters, bwait, bhead, flag>>

(* condInit, lazily: listInit(&waitlist).                                  *)
CondInitList(c, t) ==
    /\ At(c, t, "cinit_list")
    /\ cwait' = [cwait EXCEPT ![Instr(t).obj] = <<>>]
    /\ Goto(t, "cinit_lck")
    /\ UNCHANGED <<Rest, held, minit, mwait, mstatus, mowner, cinit, bmax, bwaiters,
                   bwait, bhead, flag>>

(* condInit, lazily: lck.init() resets the spinlock the waiter holds.      *)
CondInitLck(c, t) ==
    /\ At(c, t, "cinit_lck")
    /\ Release(CL(Instr(t).obj))
    /\ Goto(t, "cinit_set")
    /\ UNCHANGED <<Rest, syncVars>>

(* condInit, lazily: mutex = NULL; setInited(); then condWait remembers    *)
(* the mutex and calls enqueueWaitlist.                                     *)
CondInitSet(c, t) ==
    /\ At(c, t, "cinit_set")
    /\ LET v == Instr(t).obj IN
         /\ cinit' = [cinit EXCEPT ![v] = TRUE]
         /\ EnqueueCondWaiter(t, v)
    /\ Goto(t, "cunlock")
    /\ UNCHANGED <<postinit, cthread, spc, evq, rq, held, isbounded, boundcore, joinq,
                   fatal, minit, mwait, mstatus, mowner, bmax, bwaiters, bwait, bhead, flag>>

(* condWait: pthread_mutex_unlock(mx), still on the waiter's core.         *)
CondMutexUnlock(c, t) ==
    /\ At(c, t, "cunlock")
    /\ MutexUnlockBy(t, Instr(t).mx)
    /\ Goto(t, "cyield")
    /\ UNCHANGED <<postinit, cthread, spc, evq, rq, held, status, isbounded, boundcore,
                   joinq, minit, mwait, mowner, cinit, cwait, bmax, bwaiters, bwait, bhead, flag>>

(* condWait: threadYieldHoldingLock(cv lock); once resumed the waiter      *)
(* calls pthread_mutex_lock(mx).                                            *)
CondYield(c, t) ==
    /\ At(c, t, "cyield")
    /\ ThreadYieldHoldingLock(c, CL(Instr(t).obj))
    /\ Goto(t, "macq")
    /\ UNCHANGED <<postinit, cthread, rq, held, status, isbounded, boundcore, joinq,
                   fatal, syncVars>>

(* A condSignal that takes the waiter without the condvar's spinlock.      *)
CondSignalUnlocked(c, t) ==
    /\ Call(c, t, "signal")
    /\ LET v == Instr(t).obj IN
         /\ cwait[v] \notin {NullList, <<>>}
         /\ cwait' = [cwait EXCEPT ![v] = Tail(@)]
         /\ Enqueue(SQ, Head(cwait[v]))
         /\ Next1(t)
    /\ UNCHANGED <<schedVars, held, status, isbounded, boundcore, joinq, minit, mwait,
                   mstatus, mowner, cinit, bmax, bwaiters, bwait, bhead, flag, fatal>>

(* A condSignal that enqueues the waiter and leaves it in the wait list.   *)
CondSignalLinked(c, t) ==
    /\ Call(c, t, "signal")
    /\ LET v == Instr(t).obj IN
         /\ ~held[CL(v)] /\ cwait[v] \notin {NullList, <<>>}
         /\ Enqueue(SQ, Head(cwait[v]))
         /\ Next1(t)
    /\ UNCHANGED <<schedVars, held, status, isbounded, boundcore, joinq, minit, mwait,
                   mstatus, mowner, cinit, cwait, bmax, bwaiters, bwait, bhead, flag, fatal>>

(* A condSignal that takes the waiter off the wait list and drops it.      *)
CondSignalLost(c, t) ==
    /\ Call(c, t, "signal")
    /\ LET v == Instr(t).obj IN
         /\ ~held[CL(v)] /\ cwait[v] \notin {NullList, <<>>}
         /\ cwait' = [cwait EXCEPT ![v] = Tail(@)]
         /\ Next1(t)
    /\ UNCHANGED <<schedVars, rq, held, status, isbounded, boundcore, joinq, minit, mwait,
                   mstatus, mowner, cinit, bmax, bwaiters, bwait, bhead, flag, fatal>>

(* condSignal(current, squeue): under the spinlock dequeue the first       *)
(* waiter, then enqueue it on the shared queue.  A zeroed wait list looks   *)
(* non-empty and dequeueWaitlist dereferences its NULL link.                *)
CondSignal(c, t) ==
    /\ Call(c, t, "signal")
    /\ LET v == Instr(t).obj IN
         /\ ~held[CL(v)]
         /\ CASE cwait[v] = NullList ->
                   /\ fatal' = "NULL waiter dequeued from a zeroed condvar"
                   /\ UNCHANGED <<rq, cwait, pc, ph>>
              [] cwait[v] = <<>> ->
                   Next1(t) /\ UNCHANGED <<rq, cwait, fatal>>
              [] OTHER ->
                   /\ cwait' = [cwait EXCEPT ![v] = Tail(@)]
                   /\ Enqueue(SQ, Head(cwait[v]))
                   /\ Next1(t)
                   /\ UNCHANGED fatal
    /\ UNCHANGED <<schedVars, held, status, isbounded, boundcore, joinq, minit, mwait,
                   mstatus, mowner, cinit, bmax, bwaiters, bwait, bhead, flag>>

(* condBroadcast(current, squeue): under the spinlock detach the whole     *)
(* wait list and listInit it, then enqueueAllList onto the shared queue.    *)
(* A zeroed wait list is detached as NULL links and spliced in.             *)
CondBroadcast(c, t) ==
    /\ Call(c, t, "broadcast")
    /\ LET v == Instr(t).obj IN
         /\ ~held[CL(v)]
         /\ IF cwait[v] = NullList
            THEN /\ fatal' = "NULL links spliced from a zeroed condvar"
                 /\ UNCHANGED <<rq, cwait, pc, ph>>
            ELSE /\ cwait' = [cwait EXCEPT ![v] = <<>>]
                 /\ rq' = [rq EXCEPT ![SQ] = @ \o cwait[v]]
                 /\ Next1(t)
                 /\ UNCHANGED fatal
    /\ UNCHANGED <<schedVars, held, status, isbounded, boundcore, joinq, minit, mwait,
                   mstatus, mowner, cinit, bmax, bwaiters, bwait, bhead, flag>>

(* xcondvar::hasWaiters: !isListEmpty(&waitlist).                          *)
CondHasWaiters(v) == cwait[v] # <<>>

(* condDestroy: if hasWaiters() (the wait list is not empty, or zero),     *)
(* PRERR and assert; else setUninited().  No spinlock is taken.            *)
CondDestroy(c, t) ==
    /\ Call(c, t, "cond_destroy")
    /\ LET v == Instr(t).obj IN
         IF CondHasWaiters(v)
         THEN fatal' = "condvar destroyed with waiters" /\ UNCHANGED <<cinit, pc, ph>>
         ELSE cinit' = [cinit EXCEPT ![v] = FALSE] /\ Next1(t) /\ UNCHANGED fatal
    /\ UNCHANGED <<schedVars, rq, held, status, isbounded, boundcore, joinq,
                   minit, mwait, mstatus, mowner, cwait, bmax, bwaiters, bwait, bhead, flag>>

(* The workload's write of the shared datum, made holding its mutex.       *)
SetFlag(c, t) ==
    /\ Call(c, t, "set")
    /\ flag' = Instr(t).val
    /\ Next1(t)
    /\ UNCHANGED <<Rest, held, minit, mwait, mstatus, mowner, cinit, cwait, bmax,
                   bwaiters, bwait, bhead>>

----------------------------------------------------------------------------
(*                               Barrier                                   *)

(* xbarr::barrInit(count).                                                 *)
BarrierInit(c, t) ==
    /\ Call(c, t, "barrier_init")
    /\ LET b == Instr(t).obj IN
         /\ bwait' = [bwait EXCEPT ![b] = <<>>]
         /\ Release(BL(b))
         /\ bmax' = [bmax EXCEPT ![b] = Instr(t).val]
         /\ bwaiters' = [bwaiters EXCEPT ![b] = 0]
    /\ Next1(t)
    /\ UNCHANGED <<Rest, minit, mwait, mstatus, mowner, cinit, cwait, bhead, flag>>

(* A release that leaves the waiter count of the finished round in place.  *)
BarrierReleaseNoReset(b, t) ==
    /\ IF bmax[b] > 1
       THEN /\ bhead' = [bhead EXCEPT ![t] = bwait[b]]
            /\ bwait' = [bwait EXCEPT ![b] = <<>>]
            /\ Goto(t, "brel")
       ELSE UNCHANGED <<bhead, bwait>> /\ Next1(t)
    /\ UNCHANGED bwaiters

(* The last arrival, under the lock: when maxthreads > 1 the wait list is  *)
(* moved to the local head (listRetrieveAllItems), then waiters = 0 and     *)
(* unlock(); with maxthreads = 1 the call returns here.                     *)
BarrierRelease(b, t) ==
    /\ IF bmax[b] > 1
       THEN /\ bhead' = [bhead EXCEPT ![t] = bwait[b]]
            /\ bwait' = [bwait EXCEPT ![b] = <<>>]
            /\ Goto(t, "brel")
       ELSE UNCHANGED <<bhead, bwait>> /\ Next1(t)
    /\ bwaiters' = [bwaiters EXCEPT ![b] = 0]

(* After unlock(): queue->enqueueAllList(&head) puts the detached waiters  *)
(* on the shared queue, and barrWait returns.                               *)
BarrierEnqueue(c, t) ==
    /\ At(c, t, "brel")
    /\ rq' = [rq EXCEPT ![SQ] = @ \o bhead[t]]
    /\ bhead' = [bhead EXCEPT ![t] = <<>>]
    /\ Next1(t)
    /\ UNCHANGED <<schedVars, held, status, isbounded, boundcore, joinq, fatal, minit, mwait,
                   mstatus, mowner, cinit, cwait, bmax, bwaiters, bwait, flag>>

(* xbarr::barrWait: lock(); waiters++; the last arrival releases the       *)
(* others, any other one enqueues itself and yields holding the lock.       *)
BarrierWait(c, t) ==
    /\ Call(c, t, "barrier")
    /\ LET b == Instr(t).obj IN
         /\ ~held[BL(b)]
         /\ IF bwaiters[b] + 1 >= bmax[b]
            THEN /\ BarrierRelease(b, t)
                 /\ UNCHANGED <<spc, evq, held, rq>>
            ELSE /\ bwaiters' = [bwaiters EXCEPT ![b] = @ + 1]
                 /\ bwait' = [bwait EXCEPT ![b] = Append(@, t)]
                 /\ Acquire(BL(b))
                 /\ ThreadYieldHoldingLock(c, BL(b))
                 /\ Goto(t, "bwait")
                 /\ UNCHANGED <<rq, bhead>>
    /\ UNCHANGED <<postinit, cthread, status, isbounded, boundcore, joinq, fatal, minit, mwait,
                   mstatus, mowner, cinit, cwait, bmax, flag>>

(* barrWait returns once the scheduler that was released resumes t.       *)
BarrierResume(c, t) ==
    /\ At(c, t, "bwait")
    /\ Next1(t)
    /\ UNCHANGED <<Rest, held, syncVars>>

(* barrDestroy: if waiters > 0, PRERR and assert; nothing else changes.    *)
BarrierDestroy(c, t) ==
    /\ Call(c, t, "barrier_destroy")
    /\ IF bwaiters[Instr(t).obj] > 0
       THEN fatal' = "barrier destroyed with waiters" /\ UNCHANGED <<pc, ph>>
       ELSE Next1(t) /\ UNCHANGED fatal
    /\ UNCHANGED <<schedVars, rq, held, status, isbounded, boundcore, joinq, syncVars>>

SyncStep(c) ==
    LET t == cthread[c] IN
    \/ MutexInit(c, t) \/ MutexAcquire(c, t) \/ MutexInitFree(c, t)
    \/ MutexInitLck(c, t) \/ MutexInitSet(c, t) \/ MutexCheck(c, t)
    \/ MutexSpin(c, t) \/ MutexRelock(c, t) \/ MutexUnlock(c, t)
    \/ CondInit(c, t) \/ WaitForDone(c, t) \/ CondWaitLock(c, t)
    \/ CondInitList(c, t) \/ CondInitLck(c, t) \/ CondInitSet(c, t)
    \/ CondMutexUnlock(c, t) \/ CondYield(c, t) \/ CondSignal(c, t)
    \/ CondBroadcast(c, t) \/ SetFlag(c, t)
    \/ BarrierInit(c, t) \/ BarrierWait(c, t) \/ BarrierEnqueue(c, t)
    \/ BarrierResume(c, t)
    \/ MutexDestroy(c, t) \/ CondDestroy(c, t) \/ BarrierDestroy(c, t)

(* The type of the synchronisation objects.                                *)
SyncTypeOK ==
    /\ minit \in [Mutexes -> BOOLEAN]
    /\ mwait \in [Mutexes -> {NullList, <<>>}]
    /\ mstatus \in [Mutexes -> {"UNLOCKED", "LOCKED"}]
    /\ mowner \in [Mutexes -> Threads]
    /\ cinit \in [Conds -> BOOLEAN]
    /\ cwait \in [Conds -> Seq(Threads) \cup {NullList}]
    /\ bmax \in [Barriers -> Nat]
    /\ bwaiters \in [Barriers -> Nat]
    /\ bwait \in [Barriers -> Seq(Threads)]
    /\ bhead \in [Threads -> Seq(Threads)]
    /\ flag \in Nat
=============================================================================
