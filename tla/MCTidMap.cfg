CONSTANTS
    MaxThreads = 6
    Cores <- MCCores
    MaxSpawns = 5
INIT TidInit
NEXT TidNext
CHECK_DEADLOCK FALSE
INVARIANT TidTypeOK
PROPERTY AllocSkipsRegistered
