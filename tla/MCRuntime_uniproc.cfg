CONSTANTS
    tm = tm
    ta = ta
    tb = tb
    tc = tc
    m1 = m1
    v1 = v1
    b1 = b1
    NoThread = NoThread
    Cores = {0}
    Threads <- StaticThreads
    Main = tm
    Mutexes = {m1}
    Conds = {v1}
    Barriers = {}
    Prog <- StaticPingPongProg
SPECIFICATION FairSpec
INVARIANT SingleLink
INVARIANT NoAbort
PROPERTY Termination
