SPECIFICATION ExporterSpec
CONSTANTS
  CoreKinds = {"ManagementClusterNodes", "LogicalSwitch"}
  PagedKinds = {}
  ClusterNodes = "ManagementClusterNodes"
  FirewallKinds = {"ManagerNodeFirewall"}
  LoginHost = "vip"
  Nodes = {n1}
  Collectors <- MCCollectors
  MaxPages = 1
  MaxCycles = 2
  PartsOf <- MCPartsOf
  ReadOrder <- MCReadOrder
  Scrapes = {r1}
INVARIANTS
  ExporterTypeOK
  WordsReadWereGathered
PROPERTIES
  StampedIsFinal
  ImplementsGather
  ImplementsSnapshotCache
CHECK_DEADLOCK FALSE
