----------------------------- MODULE Scheduler -----------------------------
(***************************************************************************)
(* The per-core cooperative scheduler of proto (src/xscheduler.cpp), the  *)
(* ready queues it serves (src/xqueue.h), the spinlocks that guard them,   *)
(* and the yield primitives user threads call to give their core back.    *)
(*                                                                         *)
(* Every core runs one worker process whose scheduler loop dequeues a      *)
(* thread from the core's private queue, else from the shared queue,       *)
(* switches to it, and, once the thread switches back, applies the events  *)
(* the thread left in the scheduler's event queue.  A thread that has to   *)
(* publish itself somewhere (a wait list, a ready queue) before it stops   *)
(* running leaves a RELEASE_LOCK or YIELD event, so that the publication   *)
(* only becomes visible after the switch.                                  *)
(*                                                                         *)
(* This module holds the state shared by every component: the scheduler   *)
(* of each core, the queues, the spinlocks, the thread control blocks and  *)
(* each thread's position in its workload.  Threads.tla and Sync.tla add   *)
(* the operations user threads call.                                       *)
(***************************************************************************)
EXTENDS Integers, Sequences, SequencesExt, FiniteSets

CONSTANTS
    Cores,      \* core ids 0..N-1, one worker process each
    Threads,    \* thread control blocks a run can allocate
    Main,       \* the initial thread, tid 0, bound to core 0
    NoThread,   \* a scheduler holding no user thread
    Mutexes,    \* pthread_mutex_t objects of the workload
    Conds,      \* pthread_cond_t objects of the workload
    Barriers,   \* pthread_barrier_t objects of the workload
    Prog        \* Prog[t]: the sequence of runtime calls thread t makes

ASSUME 0 \in Cores /\ Main \in Threads /\ NoThread \notin Threads

(* Queue identities: the private queue of a core, the shared queue and the *)
(* dead queue, all xqueue objects in shared memory.                        *)
PQ(c) == <<"pqueue", c>>
SQ == <<"squeue">>
DQ == <<"dqueue">>
QueueIds == {PQ(c) : c \in Cores} \cup {SQ, DQ}
ReadyQueues == {PQ(c) : c \in Cores} \cup {SQ}

(* Spinlock identities: the lock inside each TCB, mutex, condvar, barrier. *)
TL(t) == <<"tcb", t>>
ML(m) == <<"mutex", m>>
CL(v) == <<"cond", v>>
BL(b) == <<"barrier", b>>
LockIds == {TL(t) : t \in Threads} \cup {ML(m) : m \in Mutexes}
             \cup {CL(v) : v \in Conds} \cup {BL(b) : b \in Barriers}

VARIABLES
    cthread,    \* cthread[c]: the thread core c's scheduler picked (local `thread`)
    spc,        \* spc[c]: where core c is: "pq" | "sq" | "sel" | "run" | "yield",
                \* "unborn" before its process is forked, "killed" after finalize
    evq,        \* evq[c]: the scheduler TCB's event queue
    postinit,   \* xrun::postinitialized: the workers have been forked
    rq,         \* rq[q]: the contents of xqueue q, head first
    held,       \* held[l]: spinlock l is taken
    pc,         \* pc[t]: index of the runtime call thread t is in
    ph,         \* ph[t]: the step of that call thread t is at
    status,     \* status[t]: xthread::status, "none" before allocation, "freed" after
    isbounded,  \* xthread::isbounded
    boundcore,  \* xthread::boundcore
    joinq,      \* xthread::joinqueue, head first
    fatal,      \* "none", or why the program aborted
    \* the synchronisation objects of Sync.tla, in the user's shared memory:
    minit,      \* xmutex::init == MAGIC
    mwait,      \* xmutex::waitlist: NullList while zero, empty once listInit'ed
    mstatus,    \* xmutex::status
    mowner,     \* xmutex::owner
    cinit,      \* xcondvar::init == MAGIC
    cwait,      \* xcondvar::waitlist, or NullList while its links are zero
    bmax,       \* xbarr::maxthreads
    bwaiters,   \* xbarr::waiters
    bwait,      \* xbarr::waitlist
    bhead,      \* barrWait's local head: the wait list the last arrival detached
    flag        \* the shared datum the workload guards with its mutexes

schedVars == <<cthread, spc, evq, postinit>>
threadVars == <<pc, ph, status, isbounded, boundcore, joinq>>
syncVars == <<minit, mwait, mstatus, mowner, cinit, cwait, bmax, bwaiters, bwait, bhead, flag>>
vars == <<cthread, spc, evq, postinit, rq, held, pc, ph, status, isbounded,
          boundcore, joinq, fatal, syncVars>>

(* A zero-filled lnode: next == NULL, so isListEmpty() is false.           *)
NullList == <<"NULL">>

Events == [type : {"YIELD"}, thread : Threads, queue : QueueIds]
          \cup [type : {"RELEASE_LOCK"}, lock : LockIds]

ThreadStatus == {"none", "initial", "running", "cond_waiting", "dead", "freed"}

(* The runtime call thread t is in, and whether its function has returned. *)
Instr(t) == Prog[t][pc[t]]
Returned(t) == pc[t] > Len(Prog[t])

(* A thread is registered in xmap between its spawn and its reaping.       *)
Registered == {t \in Threads : status[t] \notin {"none", "freed"}}

(* Core c is executing thread t in t's own context: picked and switched to *)
(* and not yet switched back to the scheduler.                             *)
Running(c, t) == spc[c] \in {"run", "yield"} /\ cthread[c] = t

(* Core c is executing thread t and may take t's next step: an abort()     *)
(* ends every worker.                                                       *)
OnCore(c, t) == fatal = "none" /\ spc[c] = "run" /\ cthread[c] = t

----------------------------------------------------------------------------
(* xqueue::enqueue / dequeue on the model's queue function.                *)
Enqueue(q, t) == rq' = [rq EXCEPT ![q] = Append(@, t)]

(* isRunnableThread: a thread bound to another core is not runnable here.  *)
RunnableOn(t, c) == ~isbounded[t] \/ boundcore[t] = c

(* handleThreadEvents: the YIELD events naming queue q, in FIFO order, and *)
(* the locks the RELEASE_LOCK events name.                                  *)
YieldedTo(evs, q) ==
    LET ys == SelectSeq(evs, LAMBDA e : e.type = "YIELD" /\ e.queue = q)
    IN  [i \in 1..Len(ys) |-> ys[i].thread]
ReleasedBy(evs) ==
    {evs[i].lock : i \in {j \in 1..Len(evs) : evs[j].type = "RELEASE_LOCK"}}

(* One pass of the selection loop over a queue: dequeue its head; a        *)
(* runnable thread is picked, one bound elsewhere goes to the shared queue, *)
(* and an empty queue sends the loop on to `next`.                          *)
SchedTryQueue(c, q, next) ==
    IF rq[q] = <<>>
    THEN /\ spc' = [spc EXCEPT ![c] = next]
         /\ UNCHANGED <<rq, cthread>>
    ELSE LET t == Head(rq[q]) IN
         IF RunnableOn(t, c)
         THEN /\ rq' = [rq EXCEPT ![q] = Tail(@)]
              /\ cthread' = [cthread EXCEPT ![c] = t]
              /\ spc' = [spc EXCEPT ![c] = "sel"]
         ELSE /\ rq' = IF q = SQ THEN [rq EXCEPT ![SQ] = Append(Tail(@), t)]
                       ELSE [rq EXCEPT ![q] = Tail(@), ![SQ] = Append(@, t)]
              /\ spc' = [spc EXCEPT ![c] = next]
              /\ UNCHANGED cthread

(* schedulerThread: try the private queue first.                           *)
SchedDequeuePQ(c) ==
    /\ fatal = "none"
    /\ spc[c] = "pq"
    /\ SchedTryQueue(c, PQ(c), "sq")
    /\ UNCHANGED <<evq, postinit, held, threadVars, fatal, syncVars>>

(* schedulerThread: then the shared queue; nothing runnable means          *)
(* schedulerWait() and another pass from the private queue.                 *)
SchedDequeueSQ(c) ==
    /\ fatal = "none"
    /\ spc[c] = "sq"
    /\ SchedTryQueue(c, SQ, "pq")
    /\ UNCHANGED <<evq, postinit, held, threadVars, fatal, syncVars>>

(* schedulerThread: thread->lock(); hasPendingSignals(); thread->unlock(); *)
(* setCurrent(thread); THREAD_SWITCH(scheduler, thread).                    *)
SchedDispatch(c) ==
    /\ fatal = "none"
    /\ spc[c] = "sel"
    /\ ~held[TL(cthread[c])]
    /\ spc' = [spc EXCEPT ![c] = "run"]
    /\ UNCHANGED <<postinit, cthread, evq, rq, held, threadVars, fatal, syncVars>>

(* Back in the scheduler context after THREAD_SWITCH(current, scheduler):  *)
(* setCurrent(scheduler); handleThreadEvents drains the event queue.        *)
SchedHandleEvents(c) ==
    /\ fatal = "none"
    /\ spc[c] = "yield"
    /\ LET evs == evq[c] IN
         /\ rq' = [q \in QueueIds |-> rq[q] \o YieldedTo(evs, q)]
         /\ held' = [l \in LockIds |-> held[l] /\ l \notin ReleasedBy(evs)]
    /\ evq' = [evq EXCEPT ![c] = <<>>]
    /\ spc' = [spc EXCEPT ![c] = "pq"]
    /\ UNCHANGED <<postinit, cthread, threadVars, fatal, syncVars>>

SchedStep(c) ==
    \/ SchedDequeuePQ(c)
    \/ SchedDequeueSQ(c)
    \/ SchedDispatch(c)
    \/ SchedHandleEvents(c)

----------------------------------------------------------------------------
(* The yield primitives a user thread running on core c calls: each posts  *)
(* its event to c's scheduler (insertSchedulerEventQueue) and switches to   *)
(* the scheduler context.  The caller's action sets every other variable.   *)

(* Both need the core's scheduler thread, which postinit creates: a call   *)
(* that yields before the first pthread_create would switch to a NULL      *)
(* scheduler, and is not enabled here.                                      *)

(* threadYieldInitially(to): the initial thread enqueues itself on `to`   *)
(* directly, then switches to its core's scheduler.                        *)
ThreadYieldInitially(t, q) == Enqueue(q, t)

(* threadYieldHoldingLock(lock): the scheduler releases `l` after the switch. *)
ThreadYieldHoldingLock(c, l) ==
    /\ postinit
    /\ evq' = [evq EXCEPT ![c] = Append(@, [type |-> "RELEASE_LOCK", lock |-> l])]
    /\ spc' = [spc EXCEPT ![c] = "yield"]

(* threadYieldToRunQueue(to): the scheduler enqueues the caller after the switch. *)
ThreadYieldToRunQueue(c, t, q) ==
    /\ postinit
    /\ evq' = [evq EXCEPT ![c] = Append(@, [type |-> "YIELD", thread |-> t, queue |-> q])]
    /\ spc' = [spc EXCEPT ![c] = "yield"]

----------------------------------------------------------------------------
(* The state when main starts, after libproto's initializer ran           *)
(* xrun::initialize: setupInitialThread registered the initial thread      *)
(* (status initial, bound to core 0 but not marked bounded) and made it     *)
(* current; the queues are empty.  Core 0's process runs it directly: no    *)
(* scheduler thread and no other worker exists until postinit.             *)
SchedInit ==
    /\ cthread = [c \in Cores |-> IF c = 0 THEN Main ELSE NoThread]
    /\ spc = [c \in Cores |-> IF c = 0 THEN "run" ELSE "unborn"]
    /\ evq = [c \in Cores |-> <<>>]
    /\ postinit = FALSE
    /\ rq = [q \in QueueIds |-> <<>>]
    /\ held = [l \in LockIds |-> FALSE]
    /\ pc = [t \in Threads |-> 1]
    /\ ph = [t \in Threads |-> "go"]
    /\ status = [t \in Threads |-> IF t = Main THEN "initial" ELSE "none"]
    /\ isbounded = [t \in Threads |-> FALSE]
    /\ boundcore = [t \in Threads |-> 0]
    /\ joinq = [t \in Threads |-> <<>>]
    /\ fatal = "none"

(* The type of the shared state.                                           *)
SchedTypeOK ==
    /\ cthread \in [Cores -> Threads \cup {NoThread}]
    /\ spc \in [Cores -> {"pq", "sq", "sel", "run", "yield", "unborn", "killed"}]
    /\ evq \in [Cores -> Seq(Events)]
    /\ postinit \in BOOLEAN
    /\ rq \in [QueueIds -> Seq(Threads)]
    /\ held \in [LockIds -> BOOLEAN]
    /\ pc \in [Threads -> Nat]
    /\ status \in [Threads -> ThreadStatus]
    /\ isbounded \in [Threads -> BOOLEAN]
    /\ boundcore \in [Threads -> Cores]
    /\ joinq \in [Threads -> Seq(Threads)]
=============================================================================
