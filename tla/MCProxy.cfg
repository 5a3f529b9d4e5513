SPECIFICATION FairSpec
CONSTANTS
  c1 = c1
  c2 = c2
  f1 = f1
  f2 = f2
  NoLine = NoLine
  NoCommit = NoCommit
  Clients <- MCClients
  Files <- MCFiles
  Scripts <- MCScripts
  MaxLines = 5
  MaxQueued = 2
  MaxVersion = 2
  MaxFaults = 1
  Faults = {"kill", "redis", "server", "ipcrm", "write"}
CHECK_DEADLOCK FALSE
INVARIANTS
  TypeOK
  QueueKeepsOrder
  IgnoredNeedsRedis
  VersionsInOrder
PROPERTIES
  PushCoversEdits
  EveryLineIsTaken
