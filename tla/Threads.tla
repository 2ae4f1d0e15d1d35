------------------------------ MODULE Threads ------------------------------
(***************************************************************************)
(* Thread lifecycle of proto: xrun::spawn, xthread::join and xthread::exit *)
(* (src/xrun.h, src/xthread.cpp).  A spawned thread goes to the shared     *)
(* queue; a joiner links itself into the joinee's joinqueue and yields     *)
(* holding the joinee's TCB lock; an exiting thread marks itself dead,     *)
(* puts itself on the dead queue and hands the first joiner to a ready     *)
(* queue before yielding holding its own lock, never to run again.  The    *)
(* joiner, once resumed, takes a thread off the dead queue and frees the   *)
(* joinee.                                                                 *)
(***************************************************************************)
EXTENDS Scheduler

(* Thread t is executing on core c and is at the start of a call.          *)
AtCall(c, t, op) ==
    /\ OnCore(c, t)
    /\ ph[t] = "go" /\ ~Returned(t)
    /\ Instr(t).op = op

(* xrun::spawn calls postinit when postinitialized is false: the first     *)
(* pthread_create, made by the initial thread on core 0.  postinit sets up *)
(* the memory mappings, switches stacks, creates core 0's scheduler thread *)
(* (spawnSchedulerThread), sets postinitialized, forks a worker per other  *)
(* core (createOtherProcesses; each child's process::create runs           *)
(* initialize, spawnSchedulerThread and setcontext into its scheduler      *)
(* loop), and threadYieldInitially enqueues the initial thread on core 0's *)
(* private queue and switches to core 0's scheduler.  The spawn itself      *)
(* resumes once core 0 picks the initial thread again.                      *)
PostInit(c, t) ==
    /\ AtCall(c, t, "spawn")
    /\ ~postinit
    /\ postinit' = TRUE
    /\ spc' = [d \in Cores |-> "pq"]
    /\ cthread' = [d \in Cores |-> NoThread]
    /\ ThreadYieldInitially(t, PQ(c))
    /\ UNCHANGED <<evq, held, threadVars, fatal, syncVars>>

(* A spawn whose child's boundcore is read from memory past the core ids.  *)
SpawnGarbageCore(c, t) ==
    /\ AtCall(c, t, "spawn")
    /\ postinit
    /\ LET u == Instr(t).obj IN
         /\ status[u] = "none"
         /\ status' = [status EXCEPT ![u] = "running"]
         /\ isbounded' = [isbounded EXCEPT ![u] = FALSE, ![t] = FALSE]
         /\ boundcore' = [boundcore EXCEPT ![u] = Cardinality(Cores)]
         /\ Enqueue(SQ, u)
    /\ pc' = [pc EXCEPT ![t] = @ + 1]
    /\ UNCHANGED <<schedVars, held, ph, joinq, fatal, syncVars>>

(* xrun::spawn: allocTid, a TCB constructed with isbounded = false and an  *)
(* uninitialised boundcore, registerThread, xthread::spawn marks the parent *)
(* unbounded, insertGlobalQueue sets the child running on the shared queue. *)
(* setBoundCore is only called for the initial thread, so the child's       *)
(* boundcore is what MALLOC_SHARED's block held: 0 in fresh (zero-filled)   *)
(* shared memory and in a recycled TCB, whose boundcore was never written.  *)
Spawn(c, t) ==
    /\ AtCall(c, t, "spawn")
    /\ postinit
    /\ LET u == Instr(t).obj IN
         /\ status[u] = "none"
         /\ status' = [status EXCEPT ![u] = "running"]
         /\ isbounded' = [isbounded EXCEPT ![u] = FALSE, ![t] = FALSE]
         /\ boundcore' = [boundcore EXCEPT ![u] = 0]
         /\ Enqueue(SQ, u)
    /\ pc' = [pc EXCEPT ![t] = @ + 1]
    /\ UNCHANGED <<schedVars, held, ph, joinq, fatal, syncVars>>

(* xthread::isThreadDead.                                                  *)
IsThreadDead(j) == status[j] = "dead"

(* xthread::putDeadqueue: enqueue on the global dead queue.                *)
PutDeadqueue(t) == rq' = [rq EXCEPT ![DQ] = Append(@, t)]

(* xthread::hasJoiner: the joinqueue is not empty.                        *)
HasJoiner(t) == joinq[t] # <<>>

(* xthread::getJoiner: the first thread in the joinqueue.                 *)
GetJoiner(t) == Head(joinq[t])

(* A joiner that lets go of the joinee's lock before it switches out.    *)
JoinSuspendUnlocked(c, t, j) ==
    /\ joinq' = [joinq EXCEPT ![j] = Cons(t, @)]
    /\ spc' = [spc EXCEPT ![c] = "yield"]
    /\ UNCHANGED <<evq, held>>

(* The joiner t publishes itself in j's joinqueue, inserted at the head   *)
(* (putJoineeQueue), and suspends with threadYieldHoldingLock(joinee lock): *)
(* j's exit cannot hand t to a ready queue before t's core switched out.    *)
JoinSuspend(c, t, j) ==
    /\ joinq' = [joinq EXCEPT ![j] = Cons(t, @)]
    /\ held' = [held EXCEPT ![TL(j)] = TRUE]
    /\ ThreadYieldHoldingLock(c, TL(j))

(* xthread::join up to the yield: setBounded, getThread (abort on a self   *)
(* join or a missing joinee), joinee->lock(); a dead joinee is reaped at    *)
(* once (the lock is dropped again), otherwise the joiner suspends.         *)
JoinLock(c, t) ==
    /\ AtCall(c, t, "join")
    /\ LET j == Instr(t).obj IN
         /\ ~held[TL(j)]
         /\ isbounded' = [isbounded EXCEPT ![t] = TRUE]
         /\ CASE j = t \/ status[j] \in {"none", "freed"} ->
                   /\ fatal' = "join of itself or of a missing thread"
                   /\ UNCHANGED <<schedVars, held, ph, joinq>>
              [] IsThreadDead(j) ->
                   /\ ph' = [ph EXCEPT ![t] = "reap"]
                   /\ UNCHANGED <<schedVars, held, joinq, fatal>>
              [] OTHER ->
                   /\ JoinSuspend(c, t, j)
                   /\ ph' = [ph EXCEPT ![t] = "relock"]
                   /\ UNCHANGED <<postinit, cthread, fatal>>
    /\ UNCHANGED <<rq, pc, status, boundcore, syncVars>>

(* xthread::join after resuming: joinee->lock(), abort unless the joinee   *)
(* is dead, joinee->unlock().                                               *)
JoinRelock(c, t) ==
    /\ OnCore(c, t) /\ ph[t] = "relock"
    /\ LET j == Instr(t).obj IN
         /\ ~held[TL(j)]
         /\ IF IsThreadDead(j)
            THEN ph' = [ph EXCEPT ![t] = "reap"] /\ UNCHANGED fatal
            ELSE fatal' = "joinee is not dead" /\ UNCHANGED ph
    /\ UNCHANGED <<schedVars, rq, held, pc, status, isbounded, boundcore, joinq, syncVars>>

(* xthread::removeFromDeadQueue: dequeue the head of the dead queue.       *)
RemoveFromDeadQueue ==
    rq' = [rq EXCEPT ![DQ] = IF @ = <<>> THEN @ ELSE Tail(@)]

(* xthread::join after the joinee is known dead: removeFromDeadQueue, read *)
(* retval, freeThread (deregister from xmap), and when hasOneThreadOnly the *)
(* joiner goes back to its bound core with threadYieldToRunQueue.           *)
JoinReap(c, t) ==
    /\ OnCore(c, t) /\ ph[t] = "reap"
    /\ LET j == Instr(t).obj IN
         /\ RemoveFromDeadQueue
         /\ status' = [status EXCEPT ![j] = "freed"]
         /\ IF Cardinality(Registered \ {j}) = 1 /\ c # boundcore[t]
            THEN ThreadYieldToRunQueue(c, t, PQ(boundcore[t]))
            ELSE UNCHANGED <<evq, spc>>
    /\ pc' = [pc EXCEPT ![t] = @ + 1]
    /\ ph' = [ph EXCEPT ![t] = "go"]
    /\ UNCHANGED <<postinit, cthread, held, isbounded, boundcore, joinq, fatal, syncVars>>

(* A joiner woken but left linked in the joinqueue (no listRemoveNode).   *)
WakeJoinerLinked(t, j) ==
    LET q == IF isbounded[j] THEN PQ(boundcore[j]) ELSE SQ IN
    /\ status' = [status EXCEPT ![t] = "dead", ![j] = "running"]
    /\ rq' = [rq EXCEPT ![DQ] = Append(@, t), ![q] = Append(@, j)]
    /\ UNCHANGED joinq

(* A joiner woken while its joinee is left unmarked (no setThreadDead).    *)
WakeJoinerAlive(t, j) ==
    LET q == IF isbounded[j] THEN PQ(boundcore[j]) ELSE SQ IN
    /\ joinq' = [joinq EXCEPT ![t] = Tail(@)]
    /\ status' = [status EXCEPT ![j] = "running"]
    /\ rq' = [rq EXCEPT ![DQ] = Append(@, t), ![q] = Append(@, j)]

(* A joiner taken off the joinqueue and never enqueued.                    *)
WakeJoinerLost(t, j) ==
    /\ joinq' = [joinq EXCEPT ![t] = Tail(@)]
    /\ status' = [status EXCEPT ![t] = "dead", ![j] = "running"]
    /\ rq' = [rq EXCEPT ![DQ] = Append(@, t)]

(* xthread::exit with a joiner: status dead, putDeadqueue, getJoiner takes *)
(* the head of the joinqueue, sets it running and enqueues it on its bound  *)
(* core's private queue when bounded, else on the shared queue.             *)
WakeJoiner(t, j) ==
    LET q == IF isbounded[j] THEN PQ(boundcore[j]) ELSE SQ IN
    /\ joinq' = [joinq EXCEPT ![t] = Tail(@)]
    /\ status' = [status EXCEPT ![t] = "dead", ![j] = "running"]
    /\ rq' = [rq EXCEPT ![DQ] = Append(@, t), ![q] = Append(@, j)]

(* An exit that does not take its own TCB lock first.                     *)
ExitUnlocked(c, t) ==
    /\ OnCore(c, t)
    /\ ph[t] = "go" /\ Returned(t) /\ t # Main
    /\ IF HasJoiner(t)
       THEN WakeJoiner(t, GetJoiner(t))
       ELSE /\ status' = [status EXCEPT ![t] = "dead"]
            /\ PutDeadqueue(t)
            /\ UNCHANGED joinq
    /\ ThreadYieldHoldingLock(c, TL(t))
    /\ ph' = [ph EXCEPT ![t] = "exited"]
    /\ UNCHANGED <<postinit, cthread, held, pc, isbounded, boundcore, fatal, syncVars>>

(* xthread::exit, reached when a spawned thread's function returns         *)
(* (threadRun): lock itself, status dead, putDeadqueue, wake the first      *)
(* joiner if any, threadYieldHoldingLock(own lock), never to return.        *)
Exit(c, t) ==
    /\ OnCore(c, t)
    /\ ph[t] = "go" /\ Returned(t) /\ t # Main
    /\ ~held[TL(t)]
    /\ held' = [held EXCEPT ![TL(t)] = TRUE]
    /\ IF HasJoiner(t)
       THEN WakeJoiner(t, GetJoiner(t))
       ELSE /\ status' = [status EXCEPT ![t] = "dead"]
            /\ PutDeadqueue(t)
            /\ UNCHANGED joinq
    /\ ThreadYieldHoldingLock(c, TL(t))
    /\ ph' = [ph EXCEPT ![t] = "exited"]
    /\ UNCHANGED <<postinit, cthread, pc, isbounded, boundcore, fatal, syncVars>>

(* An xrun::finalize that never moves back to the bound core.              *)
FinalizeMigrateNoYield(c, t) ==
    /\ OnCore(c, t)
    /\ t = Main /\ Returned(t) /\ ph[t] = "go"
    /\ ph' = [ph EXCEPT ![t] = "fin"]
    /\ UNCHANGED <<postinit, cthread, spc, evq, rq, held, pc, status, isbounded, boundcore,
                   joinq, fatal, syncVars>>

(* libproto's finalizer, run when the initial thread's main returns, calls  *)
(* xrun::finalize.  Before postinit it returns at once and the process,    *)
(* the only one, exits.  Otherwise the initial thread switches to its bound *)
(* core with threadYieldToRunQueue unless it is on that core already.      *)
FinalizeMigrate(c, t) ==
    /\ OnCore(c, t)
    /\ t = Main /\ Returned(t) /\ ph[t] = "go"
    /\ CASE ~postinit ->
              /\ spc' = [d \in Cores |-> "killed"]
              /\ ph' = [ph EXCEPT ![t] = "exited"]
              /\ UNCHANGED evq
         [] c # boundcore[t] ->
              /\ ThreadYieldToRunQueue(c, t, PQ(boundcore[t]))
              /\ ph' = [ph EXCEPT ![t] = "fin"]
         [] OTHER ->
              /\ ph' = [ph EXCEPT ![t] = "fin"]
              /\ UNCHANGED <<evq, spc>>
    /\ UNCHANGED <<postinit, cthread, rq, held, pc, status, isbounded, boundcore,
                   joinq, fatal, syncVars>>

(* xrun::finalize, resumed: assert it runs on the bound core, SIGKILL the   *)
(* other workers, and the initial process exits.                            *)
FinalizeKill(c, t) ==
    /\ OnCore(c, t)
    /\ t = Main /\ ph[t] = "fin"
    /\ IF c = boundcore[t]
       THEN /\ spc' = [d \in Cores |-> "killed"]
            /\ ph' = [ph EXCEPT ![t] = "exited"]
            /\ UNCHANGED fatal
       ELSE /\ fatal' = "finalize off the bound core"
            /\ UNCHANGED <<spc, ph>>
    /\ UNCHANGED <<postinit, cthread, evq, rq, held, pc, status, isbounded, boundcore,
                   joinq, syncVars>>

(* pthread_cancel -> xrun::cancel, whose body is commented out: the target *)
(* goes on running and the call returns 0.                                 *)
Cancel(c, t) ==
    /\ AtCall(c, t, "cancel")
    /\ pc' = [pc EXCEPT ![t] = @ + 1]
    /\ UNCHANGED <<schedVars, rq, held, ph, status, isbounded, boundcore,
                   joinq, fatal, syncVars>>

(* sched_yield is a stub that returns 0 without switching threads.         *)
SchedYield(c, t) ==
    /\ AtCall(c, t, "sched_yield")
    /\ pc' = [pc EXCEPT ![t] = @ + 1]
    /\ UNCHANGED <<schedVars, rq, held, ph, status, isbounded, boundcore,
                   joinq, fatal, syncVars>>

(* The program has exited.                                                 *)
Exited == ph[Main] = "exited"

ThreadsStep(c) ==
    LET t == cthread[c] IN
    \/ PostInit(c, t)
    \/ FinalizeMigrate(c, t)
    \/ FinalizeKill(c, t)
    \/ Spawn(c, t)
    \/ JoinLock(c, t)
    \/ JoinRelock(c, t)
    \/ JoinReap(c, t)
    \/ Exit(c, t)
    \/ Cancel(c, t)
    \/ SchedYield(c, t)
=============================================================================
