SPECIFICATION Spec
CONSTANTS
    PageWords = 32
    AddrPages = 8
    MaxPages = 6
    InitialPages = 1
    HeapBase = 4
    Requests <- MCRequests
INVARIANTS
    TypeOK
    BelowBreak
    SegmentsNeverAbut
    ForeignPagesUntouched
    TopAtSegmentEnd
    FootprintIsSegments
PROPERTIES
    FailureIsRefusal
    GrownPagesAreOwned
