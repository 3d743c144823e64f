SPECIFICATION Spec
CONSTANTS
  Services = {s1, s2}
  Pools = {p1, p2}
  VirtualServers = {v1, v2}
  NoID = none
SYMMETRY MCSymmetry
INVARIANTS
  TypeOK
  PoolsOnce
  OwnStatistics
CHECK_DEADLOCK FALSE
