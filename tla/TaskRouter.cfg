SPECIFICATION Spec
CONSTANTS
  Calls = {1, 2}
  a1 = a1
  a2 = a2
  k1 = k1
  k2 = k2
  Agents = {a1, a2}
  Relays = {k1, k2}
  TaskOf <- MCTaskOf
  FirstNodes <- MCNodes
  FirstHealthy <- MCHealthy
  RelayOrder <- MCRelays
  MaxChanges = 2
  MaxFlips = 1
  Large = {1}
  NoRelay = NoRelay
INVARIANT TwiceOnlyAfterSilence
INVARIANT AnswerFromRun
INVARIANT EvenSpread
PROPERTY RouteReturns
CHECK_DEADLOCK FALSE
