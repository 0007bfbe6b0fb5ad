SPECIFICATION Spec
CONSTANTS
  MaxConns = 3
CHECK_DEADLOCK FALSE
INVARIANT Attended
INVARIANT StopsQuietly
PROPERTY LossNoticed
