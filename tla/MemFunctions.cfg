SPECIFICATION Spec
CONSTANTS
    MemSize = 208
    Base = 128
    Threshold = 100
    Calls <- MCCalls
    Contents <- MCContents
INVARIANTS
    ExactResult
    InBounds
PROPERTY Terminates
CHECK_DEADLOCK FALSE
