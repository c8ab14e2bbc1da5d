SPECIFICATION Spec
CONSTANTS
    PageWords = 32
    AddrPages = 4
    MaxPages = 3
    InitialPages = 1
    HeapBase = 8
    Requests = {2, 7, 11, 120}
    Arrays <- MCArrays
    Alignments <- MCAlignments
    MinLargeSize = 12
    MaxLive = 3
INVARIANTS
    TagsAgree
    NoFreeNeighbours
    BlocksHonoured
    Tiled
    BinsMatch
    NoChunkLeaked
