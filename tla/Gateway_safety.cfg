SPECIFICATION Spec
CONSTANTS
  n1 = n1
  Nodes = {n1}
  Conns = {c1, c2}
  Requests = {r1, r2}
  Ids = {r1, r2}
  NodeOf <- SingleOwner
  Target <- SingleTarget
  MessageId <- FreshIds
  NoConn = NoConn
  NoRequest = NoRequest
  NoId = NoId
  Endings = {"eof"}
  HighWater = 9
  MaxHeartbeats = 0
CHECK_DEADLOCK FALSE
INVARIANT OwnAnswer
INVARIANT AckFirst
INVARIANT RoutedIsServed
PROPERTY AnswerReachesWaiter
