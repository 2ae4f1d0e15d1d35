----------------------------- MODULE MCRuntime -----------------------------
(***************************************************************************)
(* Workloads that instantiate Runtime for TLC.  Threads, mutexes, condvars *)
(* and barriers are model values; each workload is the sequence of runtime *)
(* calls each thread makes, shaped after the repository's test programs.  *)
(***************************************************************************)
EXTENDS Runtime

CONSTANTS tm, ta, tb, tc, m1, v1, b1

(* Workload calls, written once.                                           *)
Spawn_(t) == [op |-> "spawn", obj |-> t]
Join_(t) == [op |-> "join", obj |-> t]
Lock_(m) == [op |-> "lock", obj |-> m]
Unlock_(m) == [op |-> "unlock", obj |-> m]
WaitFor_(v, m, k) == [op |-> "waitfor", obj |-> v, mx |-> m, val |-> k]
Set_(k) == [op |-> "set", val |-> k]
Signal_(v) == [op |-> "signal", obj |-> v]
Broadcast_(v) == [op |-> "broadcast", obj |-> v]
Barrier_(b) == [op |-> "barrier", obj |-> b]
Destroy_(kind, o) == [op |-> kind, obj |-> o]
Cancel_(t) == [op |-> "cancel", obj |-> t]
Yield_ == [op |-> "sched_yield"]

(* Parallel quicksort (test/unit/test.cc): every p_quicksort level takes  *)
(* threads_mutex (m1, statically initialised) to decide whether to fork,   *)
(* forks its left half, recurses on its right half, then joins the child;  *)
(* a child ends with num_threads-- under m1.  The initial thread forks ta  *)
(* and, in its right-half recursion, tb, which it joins first; ta forks    *)
(* tc.  tb and tc find halves too small to fork.                           *)
ForkJoinThreads == {tm, ta, tb, tc}
ForkJoinProg ==
    [t \in ForkJoinThreads |->
        CASE t = tm -> << Lock_(m1), Unlock_(m1), Spawn_(ta),
                          Lock_(m1), Unlock_(m1), Spawn_(tb), Join_(tb), Join_(ta) >>
          [] t = ta -> << Lock_(m1), Unlock_(m1), Spawn_(tc), Join_(tc),
                          Lock_(m1), Unlock_(m1) >>
          [] OTHER -> << Lock_(m1), Unlock_(m1) >>]

(* Ping-pong (spec section 8): the two threads hand a flag back and forth  *)
(* under m1, each waiting on v1 for the other's value.  The initial thread *)
(* does not join: woken by the worker's signal, it may resume on core 1    *)
(* and return from main there, so xrun::finalize must move it to core 0.   *)
(* The worker starts with a sched_yield.                                   *)
PingPongThreads == {tm, ta}
PingPongProg ==
    [t \in PingPongThreads |->
        IF t = tm
        THEN << [op |-> "mutex_init", obj |-> m1], [op |-> "cond_init", obj |-> v1],
                Spawn_(ta), Lock_(m1), Set_(1), Signal_(v1),
                WaitFor_(v1, m1, 2), Unlock_(m1) >>
        ELSE << Yield_, Lock_(m1), WaitFor_(v1, m1, 1), Set_(2), Signal_(v1),
                Unlock_(m1) >>]

(* Ping-pong on statically initialised (zeroed) m1 and v1.  The initial   *)
(* thread locks m1 before spawning and waits on v1 first, so its lock and  *)
(* its first wait run the lazy initialisation of both.  Its broadcast wakes *)
(* both workers; the second then hands the flag back to it for one more    *)
(* round, while the first forks and joins a thread of its own.  Once both *)
(* are joined the initial thread destroys m1 and v1.                        *)
StaticThreads == {tm, ta, tb, tc}
StaticPingPongProg ==
    [t \in StaticThreads |->
        CASE t = tm -> << Lock_(m1), Spawn_(ta), Spawn_(tb), WaitFor_(v1, m1, 1),
                          Set_(2), Broadcast_(v1), WaitFor_(v1, m1, 3), Set_(4),
                          Signal_(v1), Unlock_(m1),
                          Join_(ta), Join_(tb), Destroy_("mutex_destroy", m1),
                          Destroy_("cond_destroy", v1) >>
          [] t = ta -> << Spawn_(tc), Lock_(m1), Set_(1), Signal_(v1),
                          WaitFor_(v1, m1, 2), Unlock_(m1), Join_(tc) >>
          [] t = tb -> << Lock_(m1), WaitFor_(v1, m1, 2), Set_(3), Signal_(v1),
                          WaitFor_(v1, m1, 4), Unlock_(m1) >>
          [] OTHER -> << >>]

(* Ping-pong on a zeroed v1 with the initial thread signalling first: a    *)
(* pthread_cond_signal with no waiter, legal on PTHREAD_COND_INITIALIZER.  *)
SignalFirstProg ==
    [t \in PingPongThreads |->
        IF t = tm
        THEN << Spawn_(ta), Lock_(m1), Set_(1), Signal_(v1),
                WaitFor_(v1, m1, 2), Unlock_(m1), Join_(ta) >>
        ELSE << Lock_(m1), WaitFor_(v1, m1, 1), Set_(2), Signal_(v1), Unlock_(m1) >>]

(* Two threads take a statically initialised m1 for the first time at the  *)
(* same moment, each running mutexLock's lazy initialisation.              *)
LazyMutexProg ==
    [t \in PingPongThreads |->
        IF t = tm
        THEN << Spawn_(ta), Lock_(m1), Unlock_(m1), Join_(ta) >>
        ELSE << Lock_(m1), Unlock_(m1) >>]

(* Fork/join, broadcast and barrier on two cores.  The initial thread     *)
(* first locks the statically initialised m1 alone, before the first        *)
(* pthread_create forks the workers, then spawns two threads, wakes the    *)
(* first with a broadcast, joins the first, cancels and joins the second,  *)
(* and destroys m1, v1 and b1.  The first forks and joins a thread of its  *)
(* own, which takes m1, and meets the second twice at a barrier for two.   *)
(* The shape of the parallel quicksort of test/unit/test.cc with a barrier *)
(* and a condvar hand-off.                                                  *)
BroadcastThreads == {tm, ta, tb, tc}
BroadcastProg ==
    [t \in BroadcastThreads |->
        CASE t = tm -> << Lock_(m1), Unlock_(m1), [op |-> "cond_init", obj |-> v1],
                          [op |-> "barrier_init", obj |-> b1, val |-> 2],
                          Spawn_(ta), Spawn_(tb), Lock_(m1), Set_(1), Broadcast_(v1),
                          Unlock_(m1), Join_(ta), Cancel_(tb), Join_(tb),
                          Destroy_("mutex_destroy", m1), Destroy_("cond_destroy", v1),
                          Destroy_("barrier_destroy", b1) >>
          [] t = ta -> << Spawn_(tc), Lock_(m1), WaitFor_(v1, m1, 1), Unlock_(m1),
                          Barrier_(b1), Barrier_(b1), Join_(tc) >>
          [] t = tb -> << Barrier_(b1), Barrier_(b1), Lock_(m1), WaitFor_(v1, m1, 1),
                          Unlock_(m1) >>
          [] OTHER -> << Lock_(m1), Unlock_(m1) >>]
=============================================================================
