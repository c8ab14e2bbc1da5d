SPECIFICATION Spec
CONSTANTS
    MaxTests  = 3
    LogCap    = 11
    Length    <- MCLength
    NoteSizes = {0, 1, 4}
    MaxLinked = 4
    MaxSteps  = 2
INVARIANTS
    SummaryTrue
    ExitTellsTruth
    LogFaithful
PROPERTY Terminates
CHECK_DEADLOCK FALSE
