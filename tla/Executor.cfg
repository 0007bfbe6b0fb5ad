SPECIFICATION Spec
CONSTANTS
  NumTasks = 5
  MaxConcurrency = 1
  MaxStarts = 2
  Known = {1, 2, 4, 5}
  Endings = {"done", "failed", "cancelled"}
CHECK_DEADLOCK FALSE
INVARIANT SlotsConserved
INVARIANT BegunInOrder
PROPERTY PendingBegun
PROPERTY ImplementsPool
