SPECIFICATION FairSpec
CONSTANTS
  c1 = c1
  p1 = p1
  w1 = w1
  w2 = w2
  a = a
  b = b
  main = main
  Text = Text
  NoConn = NoConn
  NoLine = NoLine
  NoHash = NoHash
  Garbage = Garbage
  Absent = Absent
  Empty = Empty
  Main = main
  Clis <- MCClis
  Proxies <- MCProxies
  Workers <- MCWorkers
  Branches <- MCBranches
  Segments <- MCSegments
  Contents <- MCContents
  LocalHeads <- MCLocalHeads
  Conns <- MCConns
  MaxConns <- MCMaxConns
  MaxFaults = 1
  Faults = {"crash", "emfile", "libgit", "kill", "edit"}
CHECK_DEADLOCK FALSE
INVARIANTS
  TypeOK
  AckIsStored
  NoMutualWait
  GitIsWhole
PROPERTIES
  ImplementsStore
  EveryCommandEnds
