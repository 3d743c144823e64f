SPECIFICATION FairSpec
CONSTANTS
  CoreKinds = {"ManagementClusterNodes", "LogicalSwitch"}
  PagedKinds = {"LogicalSwitch"}
  ClusterNodes = "ManagementClusterNodes"
  FirewallKinds = {"ManagerNodeFirewall"}
  LoginHost = "vip"
  Nodes = {n1, n2}
  Collectors <- MCCollectors
  MaxPages = 2
  MaxCycles = 2
INVARIANTS
  TypeOK
  NoStraggler
  OneMessageEach
  PublishedComplete
PROPERTIES
  ImplementsCollectorCycle
  CycleEnds
  CleanCyclePublishes
CHECK_DEADLOCK FALSE
