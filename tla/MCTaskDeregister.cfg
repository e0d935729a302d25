SPECIFICATION Spec
CONSTANTS
  t1 = t1
  t2 = t2
  a = a
  b = b
  Tasks = {t1}
  Apis = {"REGISTER", "DEREGISTER"}
  Services <- One
  HttpListed = TRUE
  FailedMax = 2
  MaxMoves = 0
  MaxRev = 0
  None = None
INVARIANTS
  RequestsGoToServers
