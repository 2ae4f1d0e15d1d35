CONSTANTS
    tm = tm
    ta = ta
    tb = tb
    tc = tc
    m1 = m1
    v1 = v1
    b1 = b1
    NoThread = NoThread
    Cores = {0, 1}
    Threads <- BroadcastThreads
    Main = tm
    Mutexes = {m1}
    Conds = {v1}
    Barriers = {b1}
    Prog <- BroadcastProg
SPECIFICATION FairSpec
INVARIANT NoDoubleRun
INVARIANT SingleLink
INVARIANT NoAbort
INVARIANT MutualExclusion
INVARIANT BarrierRendezvous
INVARIANT NoRunAfterFree
PROPERTY Termination
