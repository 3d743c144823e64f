SPECIFICATION FairSpec
CONSTANTS
  Workers = {w1, w2, w3}
  Lister = main
  NoLister = none
  SessionOf <- OneSession
  RequestsPerSecond = 2
  RequestsPerSecondTimeout = 1
  Gets = 2
  Rounds = 2
INVARIANTS
  TypeOK
  DenseQueue
  AlwaysDrainable
  LoginAlone
PROPERTY AllJoin
CHECK_DEADLOCK FALSE
