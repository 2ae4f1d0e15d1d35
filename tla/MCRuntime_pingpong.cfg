CONSTANTS
    tm = tm
    ta = ta
    tb = tb
    tc = tc
    m1 = m1
    v1 = v1
    b1 = b1
    NoThread = NoThread
    Cores = {0, 1}
    Threads <- PingPongThreads
    Main = tm
    Mutexes = {m1}
    Conds = {v1}
    Barriers = {}
    Prog <- PingPongProg
SPECIFICATION FairSpec
INVARIANT TypeOK
INVARIANT NoDoubleRun
INVARIANT SingleLink
INVARIANT NoAbort
INVARIANT MutualExclusion
PROPERTY Termination
