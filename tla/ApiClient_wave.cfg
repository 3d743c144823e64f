SPECIFICATION FairSpec
CONSTANTS
  Workers = {w1, w2, w3}
  Lister = none
  NoLister = none
  SessionOf <- OwnSession
  RequestsPerSecond = 2
  RequestsPerSecondTimeout = 0
  Gets = 2
  Rounds = 1
PROPERTY AllJoin
CHECK_DEADLOCK FALSE
