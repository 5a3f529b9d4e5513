SPECIFICATION FairSpec
CONSTANTS
  p1 = p1
  p2 = p2
  NoProxy = NoProxy
  Proxies <- MCProxies
  Names = {"a", "b"}
  JunkName = "junk"
  MaxSize = 3
  Capacity = 2
  StatusLists <- MCStatusListsUnreadable
  Faults = {"down", "kill", "shrink"}
CHECK_DEADLOCK FALSE
INVARIANTS
  TypeOK
  InStep
  WholePush
  OneWinner
  NoMutualWait
PROPERTY
  EveryPushEnds
