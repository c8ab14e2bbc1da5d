SPECIFICATION Spec
CONSTANTS
    PageWords = 32
    AddrPages = 4
    MaxPages = 4
    InitialPages = 1
    HeapBase = 4
    Requests <- MCRequests
INVARIANTS
    BreakIsTopOfMemory
