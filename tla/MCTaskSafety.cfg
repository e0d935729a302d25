SPECIFICATION ChainsSpec
CONSTANTS
  t1 = t1
  t2 = t2
  a = a
  b = b
  Tasks = {t1, t2}
  Apis = {"DISCOVER", "HEARTBEAT"}
  Services <- One
  HttpListed = TRUE
  FailedMax = 2
  MaxMoves = 1
  MaxRev = 1
  None = None
INVARIANTS
  TypeOK
  RequestsGoToServers
  RequestHasServer
  SuccessIsWhole
PROPERTIES
  TaskEnds
  ListsFollowServers
