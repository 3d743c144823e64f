SPECIFICATION FairSpec
CONSTANTS
  MaxPage = 2
  MaxListed = 2
  Nodes = {e1, e2, h1}
  Edges = {e1, e2}
  NoNode = noNode
  Zeros = zeros
  LocalIPs = {ip1, ip2}
  Remotes = {r1}
  ReportedStates = {"UP", "odd"}
  MaxTunnels = 2
  Tier0s = {t1, t2}
  LocaleServices = {l1}
  Addresses = {b1}
  Sources = {s1}
  EdgeIDs = {x1}
  OddPaths = {}
  NoEdge = noEdge
  MaxServices = 2
  MaxSessions = 2
  IPPoolIDs = {p1, shadow1}
  ShadowPools = {shadow1}
  CertificateIDs = {c1, c2}
  DisplayNames = {"a", "b"}
  NoName = ""
  Times = {0, 1, 2}
  MaxAttempts = 4
INVARIANTS
  TypeOK
  EdgesInOrder
  TunnelsOnce
  TunnelsComplete
  BGPNothingLost
  PoolsNothingLost
  NamesOfTheirOwn
  WholeListings
  
  SummaryCorrect
  LoopsAgree
PROPERTIES
  ImplementsCollectorCall
  CollectorReturns
CHECK_DEADLOCK FALSE
