SPECIFICATION Spec
CONSTANTS
  v1 = v1
  v2 = v2
  Forwards <- MCForwards
  Values = {v1, v2}
  Read = Read
  NoValue = NoValue
  NoForward = NoForward
  OpOf <- MCOpOf
  Ttl <- MCTtl
  Large = {1, 3}
  EnableCache = TRUE
  MaxCache = 2
  Resets = TRUE
  Peers = {r1, r2}
  MaxStarts = 2
  Slow = {r2}
  PingResets = TRUE
INVARIANT CacheBounded
INVARIANT AnswerMatches
PROPERTY ForgottenStaysForgotten
PROPERTY ExecutionsRecorded
PROPERTY KeepsPromise
PROPERTY DeadMarked
PROPERTY LiveRestored
PROPERTY OldResultsOnly
CHECK_DEADLOCK FALSE
