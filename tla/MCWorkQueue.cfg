SPECIFICATION FairSpec
CONSTANTS
  w1 = w1
  w2 = w2
  w3 = w3
  c1 = c1
  c2 = c2
  c3 = c3
  c4 = c4
  NULL = NULL
  Workers <- MCWorkers
  Clients <- MCClients
  MAX_CLIENTS = 2
  MaxFds = 3
INVARIANTS
  TypeOK
  ListIsFifo
  EnoughAwake
  OwnConnections
PROPERTY
  EveryConnectionEnds
