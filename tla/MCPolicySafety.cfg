SPECIFICATION Spec
CONSTANTS
  c1 = c1
  c2 = c2
  None = None
  Calls = {c1, c2}
  MaxFails = 1
  MaxAddrs = 3
  MaxRef = 2
  Configs <- Confs
  Fragments <- URLs
  InstanceLists <- Lists
  RuleLists <- RuleSets
SYMMETRY Symmetry
CHECK_DEADLOCK FALSE
INVARIANTS
  TypeOK
  AddressesLive
  NothingLeaks
  StrictStaysNear
  MetaHonoured
  ProportionalDraws
PROPERTIES
  UnfitIsLastResort
  NearbyKeepsRegion
  BestDestination
