SPECIFICATION Spec
CONSTANTS
  s1 = s1
  s2 = s2
  i1 = i1
  i2 = i2
  u1 = u1
  u2 = u2
  x1 = x1
  x2 = x2
  x3 = x3
  Services = {s1, s2}
  Instances = {i1}
  Registrations <- Mixed
  Users = {u1, u2}
  Series = {x1, x2, x3}
  HandlerThreads = 2
  None = None
SYMMETRY Symmetry
PROPERTIES
  ImplementsRegisteredService
INVARIANTS
  TypeOK
  RegisteredIsBeating
  RegisterOkAccepted
