SPECIFICATION Spec
CONSTANTS
    PageWords = 32
    AddrPages = 4
    MaxPages = 4
    InitialPages = 1
    HeapBase = 24
    Requests = {2, 7, 11, 120}
    Arrays <- MCArrays
    Alignments <- MCAlignments
    MinLargeSize = 12
    MaxLive = 2
INVARIANT Tiled
PROPERTIES
    GrowsOnlyWhenFull
    RefinesSysAlloc
    RefinesAllocSpec
