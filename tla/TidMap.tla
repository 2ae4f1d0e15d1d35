------------------------------ MODULE TidMap ------------------------------
(***************************************************************************)
(* The thread table of proto (src/include/xmap.h): a fixed array `map` of *)
(* MAX_THREADS TCB pointers in shared memory, the cursor `now`, the flag   *)
(* `first` (still in the first sweep) and the live user-thread counter      *)
(* `threads`, all under one cross-process lock.  Every critical section of *)
(* xmap is one atomic step here; a tid is allocated (allocTid) and later   *)
(* registered (registerThread) in two separate sections, so other cores     *)
(* allocate in between.                                                     *)
(*                                                                         *)
(* Users: setupInitialThread registers tid 0 (xrun.h); each worker process *)
(* allocates and registers its scheduler thread as a non-user thread       *)
(* (process::spawnSchedulerThread); xrun::spawn allocates and registers    *)
(* user threads; xthread::join looks the joinee up (getThread) and frees it *)
(* (freeThread -> deregisterThread).                                        *)
(***************************************************************************)
EXTENDS Integers, FiniteSets

CONSTANTS
    MaxThreads,   \* xdefines::MAX_THREADS, the length of `map`
    Cores,        \* worker processes 0..CPU_CORES-1
    MaxSpawns     \* bound on the user threads the workload spawns

ASSUME MaxThreads \in Nat \ {0} /\ 0 \in Cores /\ MaxSpawns \in Nat

(* The words read as map[i] for i >= MaxThreads lie past the array, in the *)
(* zero-filled rest of the object's shared mapping: they read as NULL.      *)
(* Enough of them are modelled for every thread the workload can create.   *)
Slots == 0 .. (MaxThreads + Cardinality(Cores) + MaxSpawns)

NoTid == -1

VARIABLES
    map,      \* map[i]: "null", or the kind of TCB registered at tid i
    now,      \* xmap::now
    first,    \* xmap::first
    threads,  \* xmap::threads
    cphase,   \* where each worker is: allocating / registering its scheduler, or running user threads
    pend,     \* pend[c]: the tid a spawn on core c allocated and has not yet registered
    joining,  \* joining[c]: the joinee a join on core c looked up and has not yet freed
    spawned,  \* user threads spawned so far
    tfatal    \* an abort() of xthread::join

tidVars == <<map, now, first, threads, cphase, pend, joining, spawned, tfatal>>

(* xmap::xmap, then setupInitialThread (tid 0, a user thread) and core 0's *)
(* spawnSchedulerThread in postinit (allocTid returns 1), before the other *)
(* workers are forked.                                                      *)
TidInit ==
    /\ map = [i \in Slots |-> CASE i = 0 -> "user" [] i = 1 -> "sched" [] OTHER -> "null"]
    /\ now = 2 % MaxThreads
    /\ first = (now # 0)
    /\ threads = 1
    /\ cphase = [c \in Cores |-> IF c = 0 THEN "user" ELSE "sched_alloc"]
    /\ pend = [c \in Cores |-> NoTid]
    /\ joining = [c \in Cores |-> NoTid]
    /\ spawned = 0
    /\ tfatal = FALSE

(* The first NULL entry at or after i: `while(map[now] != NULL) now++`.    *)
FirstNull(i) == CHOOSE j \in Slots : j >= i /\ map[j] = "null"
                                     /\ \A k \in i .. (j - 1) : map[k] # "null"

(* The tid allocTid hands out: `now` itself during the first sweep. *)
NextTid == IF first THEN now ELSE FirstNull(now)

(* An allocTid without the scan of the later sweeps.                       *)
AllocTidNoScan(c) ==
    /\ pend' = [pend EXCEPT ![c] = now]
    /\ now' = (now + 1) % MaxThreads
    /\ first' = (first /\ now' # 0)

(* An allocTid whose cursor is not taken modulo the table length.         *)
AllocTidNoWrap(c) ==
    /\ pend' = [pend EXCEPT ![c] = NextTid]
    /\ now' = NextTid + 1
    /\ first' = (first /\ now' # 0)

(* xmap::allocTid: tid = the scanned cursor, now = (now + 1) % max, and    *)
(* first is cleared once now wraps to 0.                                    *)
AllocTid(c) ==
    /\ pend' = [pend EXCEPT ![c] = NextTid]
    /\ now' = (NextTid + 1) % MaxThreads
    /\ first' = (first /\ now' # 0)

(* A registerThread that counts every thread, scheduler threads included.  *)
RegisterThreadAll(c, kind) ==
    /\ map' = [map EXCEPT ![pend[c]] = kind]
    /\ threads' = threads + 1
    /\ pend' = [pend EXCEPT ![c] = NoTid]

(* xmap::registerThread: map[tid] = thread, threads++ for a user thread.   *)
RegisterThread(c, kind) ==
    /\ map' = [map EXCEPT ![pend[c]] = kind]
    /\ threads' = threads + (IF kind = "user" THEN 1 ELSE 0)
    /\ pend' = [pend EXCEPT ![c] = NoTid]

(* xmap::getThread: map[tid] when 0 <= tid <= max, else NULL.              *)
GetThread(tid) == IF tid >= 0 /\ tid <= MaxThreads THEN map[tid] ELSE "null"

(* process::spawnSchedulerThread on a forked worker: allocTid ...          *)
SchedAlloc(c) ==
    /\ cphase[c] = "sched_alloc"
    /\ AllocTid(c)
    /\ cphase' = [cphase EXCEPT ![c] = "sched_reg"]
    /\ UNCHANGED <<map, threads, joining, spawned, tfatal>>

(* ... then registerThread(tid, thread, false).                            *)
SchedRegister(c) ==
    /\ cphase[c] = "sched_reg"
    /\ RegisterThread(c, "sched")
    /\ cphase' = [cphase EXCEPT ![c] = "user"]
    /\ UNCHANGED <<now, first, joining, spawned, tfatal>>

(* xrun::spawn, run by a user thread on core c: allocTid ...               *)
SpawnAlloc(c) ==
    /\ cphase[c] = "user" /\ pend[c] = NoTid /\ joining[c] = NoTid
    /\ spawned < MaxSpawns
    /\ AllocTid(c)
    /\ spawned' = spawned + 1
    /\ UNCHANGED <<map, threads, cphase, joining, tfatal>>

(* ... then registerThread(tid, thread, true).                             *)
SpawnRegister(c) ==
    /\ cphase[c] = "user" /\ pend[c] # NoTid
    /\ RegisterThread(c, "user")
    /\ UNCHANGED <<now, first, cphase, joining, spawned, tfatal>>

(* Tids a thread can join: user threads other than the initial one, that   *)
(* no other join has taken.                                                 *)
Joinable == {i \in Slots \ {0} : map[i] = "user" /\ \A d \in Cores : joining[d] # i}

(* xthread::join: getThread(tid); a NULL joinee aborts.                    *)
JoinLookup(c) ==
    /\ cphase[c] = "user" /\ pend[c] = NoTid /\ joining[c] = NoTid
    /\ \E tid \in Joinable :
         IF GetThread(tid) = "null"
         THEN tfatal' = TRUE /\ UNCHANGED joining
         ELSE joining' = [joining EXCEPT ![c] = tid] /\ UNCHANGED tfatal
    /\ UNCHANGED <<map, now, first, threads, cphase, pend, spawned>>

(* xthread::freeThread: xmap::deregisterThread sets map[tid] = NULL and    *)
(* decrements threads.                                                      *)
FreeThread(c) ==
    /\ joining[c] # NoTid
    /\ map' = [map EXCEPT ![joining[c]] = "null"]
    /\ threads' = threads - 1
    /\ joining' = [joining EXCEPT ![c] = NoTid]
    /\ UNCHANGED <<now, first, cphase, pend, spawned, tfatal>>

TidNext ==
    /\ ~tfatal
    /\ \E c \in Cores :
         \/ SchedAlloc(c) \/ SchedRegister(c)
         \/ SpawnAlloc(c) \/ SpawnRegister(c)
         \/ JoinLookup(c) \/ FreeThread(c)

TidSpec == TidInit /\ [][TidNext]_tidVars

----------------------------------------------------------------------------
(* The type invariant.                                                     *)
TidTypeOK ==
    /\ map \in [Slots -> {"null", "user", "sched"}]
    /\ now \in 0 .. (MaxThreads - 1)
    /\ first \in BOOLEAN
    /\ threads \in Nat
    /\ cphase \in [Cores -> {"sched_alloc", "sched_reg", "user"}]
    /\ pend \in [Cores -> Slots \cup {NoTid}]
    /\ joining \in [Cores -> Slots \cup {NoTid}]
    /\ spawned \in 0 .. MaxSpawns
    /\ tfatal \in BOOLEAN

(* allocTid never hands out the tid of a registered thread: during the    *)
(* first sweep the cursor is past every tid registered so far, and after   *)
(* it the scan skips non-NULL entries.                                      *)
AllocSkipsRegistered ==
    [][\A c \in Cores : pend[c] = NoTid /\ pend'[c] # NoTid => map[pend'[c]] = "null"]_tidVars

(* allocTid hands out only free entries of the table: a tid it returned   *)
(* and that is not yet registered indexes the map (spec.md: a full thread  *)
(* table aborts), is NULL there and is held by no other allocation, so the *)
(* registerThread that follows never overwrites a live TCB.               *)
TidsUnique ==
    \A c \in Cores : pend[c] # NoTid =>
        /\ pend[c] < MaxThreads
        /\ map[pend[c]] = "null"
        /\ \A d \in Cores \ {c} : pend[d] # pend[c]
=============================================================================
