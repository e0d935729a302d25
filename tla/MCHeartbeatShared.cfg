SPECIFICATION Spec
CONSTANTS
  s1 = s1
  s2 = s2
  i1 = i1
  i2 = i2
  u1 = u1
  u2 = u2
  x1 = x1
  x2 = x2
  x3 = x3
  Services = {s1, s2}
  Instances = {i1}
  Registrations <- Shared
  Users = {u1}
  Series = {x1, x2}
  HandlerThreads = 2
  None = None
INVARIANTS
  RegisteredBeatsItself
