SPECIFICATION Spec
CONSTANTS
  c1 = c1
  c2 = c2
  f1 = f1
  f2 = f2
  NoLine = NoLine
  NoCommit = NoCommit
  Clients <- MCOneClient
  Files <- MCOneFile
  Scripts <- MCAnyFour
  MaxLines = 4
  MaxQueued = 1
  MaxVersion = 1
  MaxFaults = 0
  Faults = {}
CHECK_DEADLOCK FALSE
PROPERTY
  CommittedIsPushed
