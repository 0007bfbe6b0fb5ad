SPECIFICATION ForwardSpec
CONSTANTS
  v1 = v1
  v2 = v2
  Forwards <- MCForwards
  Values = {v1, v2}
  Read = Read
  NoValue = NoValue
  NoForward = NoForward
  OpOf <- MCOpOf
  Ttl <- MCTtl
  Large = {1, 3}
  EnableCache = TRUE
  MaxCache = 2
  Resets = FALSE
CHECK_DEADLOCK FALSE
INVARIANT WritesDelivered
