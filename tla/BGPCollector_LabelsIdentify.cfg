SPECIFICATION BGPSpec
CONSTANTS
  MaxPage = 2
  MaxListed = 2
  Tier0s = {t1, t2}
  LocaleServices = {l1}
  Addresses = {b1}
  Sources = {s1}
  EdgeIDs = {x1}
  OddPaths = {o1, o2}
  NoEdge = noEdge
  MaxServices = 1
  MaxSessions = 2
INVARIANT LabelsIdentify
CHECK_DEADLOCK FALSE
