SPECIFICATION HealthSpec
CONSTANTS
  Peers = {r1, r2}
  MaxStarts = 1
  Slow = {}
  PingResets = TRUE
CHECK_DEADLOCK FALSE
PROPERTY DeadRoutedAround
