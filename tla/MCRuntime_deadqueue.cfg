CONSTANTS
    tm = tm
    ta = ta
    tb = tb
    tc = tc
    m1 = m1
    v1 = v1
    b1 = b1
    NoThread = NoThread
    Cores = {0, 1}
    Threads <- ForkJoinThreads
    Main = tm
    Mutexes = {m1}
    Conds = {}
    Barriers = {}
    Prog <- ForkJoinProg
SPECIFICATION Spec
CHECK_DEADLOCK FALSE
INVARIANT DeadQueueUnreaped
