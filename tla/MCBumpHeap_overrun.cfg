CONSTANTS
    Cores <- MCCores
    W = 5
    PageSize = 2
    HeapStart = 16
    HeapSize = 10
    Requests <- MCRequests
    MaxMallocs = 3
    NoCore = NoCore
INIT HeapInit
NEXT HeapNext
CHECK_DEADLOCK FALSE
INVARIANT HeapInBounds
