SPECIFICATION SpecWithLivePeers
CONSTANTS
  n1 = n1
  Nodes = {n1}
  Conns = {c1}
  Requests = {r1, r2}
  Ids = {r1, r2}
  NodeOf <- SingleOwner
  Target <- SingleTarget
  MessageId <- RepeatedId
  NoConn = NoConn
  NoRequest = NoRequest
  NoId = NoId
  Endings = {"reset"}
  HighWater = 0
  MaxHeartbeats = 1
CHECK_DEADLOCK FALSE
PROPERTY SettledUnlessStuck
