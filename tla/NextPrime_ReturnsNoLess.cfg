SPECIFICATION Spec
CONSTANT Root = 16
INVARIANT ReturnsNoLess
CHECK_DEADLOCK FALSE
