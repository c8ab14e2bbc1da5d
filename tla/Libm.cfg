SPECIFICATION Spec
CONSTANTS
    Calls <- MCCalls
INVARIANTS
    ExactResult
    RootsRight
    LogsRight
    PowersRight
    AnglesRight
    ReductionAccurate
    ReductionInBounds
    TrigRight
