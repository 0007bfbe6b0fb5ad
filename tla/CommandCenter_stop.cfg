SPECIFICATION Spec
CONSTANTS
  MaxConns = 2
CHECK_DEADLOCK FALSE
INVARIANT StopDisconnects
