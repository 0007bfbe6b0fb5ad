SPECIFICATION Spec
CONSTANTS
  n1 = n1
  Nodes = {n1}
  Conns = {c1}
  Requests = {r1, r2}
  Ids = {r1, r2}
  NodeOf <- SingleOwner
  Target <- SingleTarget
  MessageId <- FreshIds
  NoConn = NoConn
  NoRequest = NoRequest
  NoId = NoId
  Endings = {"eof", "reset"}
  HighWater = 9
  MaxHeartbeats = 1
CHECK_DEADLOCK FALSE
PROPERTY KeepsPromise
PROPERTY DeadRouteForgotten
