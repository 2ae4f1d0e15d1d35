CONSTANTS
    Cores <- MCCores
    TempWords = 4
    HeapWords = 14
    Sizes = {1, 3}
    MaxCalls = 6
INIT AllocInit
NEXT AllocNext
INVARIANTS
    AllocTypeOK
    BlocksIntact
    HeadersIntact
