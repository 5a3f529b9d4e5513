SPECIFICATION FairSpec
CONSTANTS
  p1 = p1
  p2 = p2
  NoProxy = NoProxy
  Proxies <- MCProxies
  Names = {"a", "b"}
  JunkName = "junk"
  MaxSize = 3
  Capacity = 2
  StatusLists <- MCStatusListsUnreadable
  Faults = {}
CHECK_DEADLOCK FALSE
PROPERTY
  PushIsAnswered
