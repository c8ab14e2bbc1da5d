SPECIFICATION Spec
CONSTANT Root = 32
INVARIANTS
    TypeOK
    ReturnsLeastPrime
PROPERTY Terminates
CHECK_DEADLOCK FALSE
