CONSTANTS
    MaxThreads = 5
    Cores <- MCCores
    MaxSpawns = 4
INIT TidInit
NEXT TidNext
CHECK_DEADLOCK FALSE
INVARIANT TidsUnique
