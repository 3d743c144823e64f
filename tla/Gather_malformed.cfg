SPECIFICATION Spec
CONSTANTS
  CoreKinds = {"ManagementClusterNodes", "LogicalSwitch"}
  PagedKinds = {"LogicalSwitch"}
  ClusterNodes = "ManagementClusterNodes"
  FirewallKinds = {"ManagerNodeFirewall", "ManagerNodeFirewallSections"}
  LoginHost = "vip"
  Nodes = {n1}
  Collectors <- MCCollectors
  MaxPages = 2
  MaxCycles = 2
PROPERTIES
  MalformedPayloadIsolated
CHECK_DEADLOCK FALSE
