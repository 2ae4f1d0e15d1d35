------------------------------ MODULE Runtime ------------------------------
(***************************************************************************)
(* The proto runtime as a whole: the per-core schedulers of Scheduler.tla *)
(* running user threads whose workload calls the lifecycle operations of   *)
(* Threads.tla and the synchronisation operations of Sync.tla.  Each core  *)
(* is one worker process; its scheduler and the user thread it switched to *)
(* take turns on it, while the cores run in parallel.                      *)
(***************************************************************************)
EXTENDS Threads, Sync

Init == SchedInit /\ SyncInit

(* A step of some core: of its scheduler, or of the user thread it runs.   *)
Next ==
    \/ \E c \in Cores : SchedStep(c) \/ ThreadsStep(c) \/ SyncStep(c)
    \/ Exited /\ UNCHANGED vars

(* Each worker process keeps running its scheduler loop; a user thread    *)
(* keeps executing until it yields, and one spinning on a spinlock or on a *)
(* mutex status that is free infinitely often eventually gets through.    *)
Fairness ==
    \A c \in Cores : WF_vars(SchedStep(c))
                    /\ SF_vars(ThreadsStep(c) \/ SyncStep(c))

Spec == Init /\ [][Next]_vars
FairSpec == Spec /\ Fairness

----------------------------------------------------------------------------
(* The type invariant.                                                     *)
TypeOK == SchedTypeOK /\ SyncTypeOK

(* How many times t occurs in the list s.                                  *)
Occurrences(s, t) == Cardinality({i \in DOMAIN s : s[i] = t})

(* Every list a TCB can be linked into through its single `toqueue` node:  *)
(* the ready and dead queues, joinqueues and the condvar and barrier wait   *)
(* lists, and the barrier list a last arrival has detached but not yet     *)
(* handed to the shared queue (a zeroed condvar list holds nobody).        *)
Links(t) ==
    SumFunction([q \in QueueIds |-> Occurrences(rq[q], t)])
    + SumFunction([u \in Threads |-> Occurrences(joinq[u], t)])
    + SumFunction([v \in Conds |->
                     IF cwait[v] = NullList THEN 0 ELSE Occurrences(cwait[v], t)])
    + SumFunction([b \in Barriers |-> Occurrences(bwait[b], t)])
    + SumFunction([u \in Threads |-> Occurrences(bhead[u], t)])

(* A thread is executed by at most one core at a time, and a thread a core *)
(* is executing is in no ready queue, so no other core can pick it up: the  *)
(* guarantee threadYieldHoldingLock and the YIELD event give to join, exit, *)
(* condvar wait and barrier wait (xscheduler.cpp).                          *)
NoDoubleRun ==
    /\ \A c1, c2 \in Cores : \A t \in Threads :
          Running(c1, t) /\ Running(c2, t) => c1 = c2
    /\ \A c \in Cores : \A q \in ReadyQueues :
          spc[c] \in {"run", "yield"} => ~Contains(rq[q], cthread[c])

(* A TCB is linked into at most one list at a time, since all of them use   *)
(* its one `toqueue` node (xqueue, joinqueue, the wait lists).              *)
SingleLink == \A t \in Threads : Links(t) <= 1

(* A TCB is freed only once no core runs on it: the exiting thread keeps  *)
(* executing on its own stack after it is marked dead and queued, up to its *)
(* THREAD_SWITCH, so join's freeThread (stack and TCB) must wait until its  *)
(* core has switched out; xthread::exit holds its own lock until the        *)
(* scheduler's RELEASE_LOCK, and join takes that lock before it reaps.      *)
NoRunAfterFree ==
    \A c \in Cores : spc[c] \in {"run", "yield"} /\ cthread[c] \in Threads =>
        status[cthread[c]] # "freed"

(* The program never aborts: no join of a live joinee returns, no mutex is *)
(* unlocked by a thread not holding it, no zeroed condvar is dereferenced.  *)
NoAbort == fatal = "none"

(* The program runs to its end: every join of the initial thread returns,  *)
(* no waiter is lost, no thread spins forever, and xrun::finalize gets the *)
(* initial thread back to its bound core and stops the workers.            *)
Termination == <>Exited

(* Thread t holds mutex m: the last lock or unlock of m it completed was a *)
(* lock, and it is not inside a condvar wait past its pthread_mutex_unlock. *)
MutexCallsBefore(t, m) ==
    {i \in 1..Len(Prog[t]) :
        i < pc[t] /\ Prog[t][i].op \in {"lock", "unlock"} /\ Prog[t][i].obj = m}
WaitReleasedMutex(t, m) ==
    /\ ~Returned(t)
    /\ Instr(t).op = "waitfor" /\ Instr(t).mx = m
    /\ ph[t] \in {"cyield", "macq", "minit_free", "minit_lck", "minit_set",
                  "mcheck", "mspin", "mrelock"}
Holding(t, m) ==
    /\ MutexCallsBefore(t, m) # {}
    /\ Prog[t][Max(MutexCallsBefore(t, m))].op = "lock"
    /\ ~WaitReleasedMutex(t, m)

(* Mutual exclusion (xmutex.h mutexLock/mutexUnlock, and the re-lock at the *)
(* end of condWait): no two threads hold the same mutex.                    *)
MutualExclusion ==
    \A m \in Mutexes : \A t1, t2 \in Threads :
        Holding(t1, m) /\ Holding(t2, m) => t1 = t2

(* Barrier calls on b that thread t completed, and those it arrived at.    *)
BarrierCalls(t, b) ==
    Cardinality({i \in 1..Len(Prog[t]) :
        i < pc[t] /\ Prog[t][i].op = "barrier" /\ Prog[t][i].obj = b})
BarrierArrivals(t, b) ==
    BarrierCalls(t, b)
    + (IF ph[t] \in {"bwait", "brel"} /\ Instr(t).obj = b THEN 1 ELSE 0)
BarrierGroup(b) ==
    {t \in Threads : \E i \in 1..Len(Prog[t]) :
        Prog[t][i].op = "barrier" /\ Prog[t][i].obj = b}

(* Barrier rendezvous across rounds (xbarr.h barrWait): no thread leaves    *)
(* its k-th wait on a barrier before every thread of the barrier's group    *)
(* arrived at its k-th wait; the waiter count must be reset each round.    *)
BarrierRendezvous ==
    \A b \in Barriers : \A t, u \in BarrierGroup(b) :
        BarrierCalls(t, b) <= BarrierArrivals(u, b)

(* The dead queue holds only exited threads nobody has reaped: join removes *)
(* its joinee from it before freeing the TCB (xthread.cpp, join).           *)
DeadQueueUnreaped == \A t \in ToSet(rq[DQ]) : status[t] = "dead"
=============================================================================
