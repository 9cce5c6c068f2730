SPECIFICATION Spec
CONSTANT MaxQueue = 2
INVARIANT ConnectedIsRegistered
CHECK_DEADLOCK FALSE
