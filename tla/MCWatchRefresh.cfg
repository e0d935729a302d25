SPECIFICATION FairSpec
CONSTANTS
  s1 = s1
  s2 = s2
  u1 = u1
  u2 = u2
  x1 = x1
  x2 = x2
  x3 = x3
  Services = {s1}
  Users = {u1}
  Series = {x1, x2}
  MaxRev = 1
  instances = instances
  inbound = inbound
  outbound = outbound
  Parts = {instances, inbound, outbound}
  Table <- MCTable
  Listed <- MCListed
  None = None
PROPERTIES
  WatchReturns
  UnwatchReturns
  WatchedEventuallyFresh
  ExitFreesManager
