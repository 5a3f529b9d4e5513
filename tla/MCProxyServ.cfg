SPECIFICATION FairSpec
CONSTANTS
  Branches = {"master", "dev"}
  Master = "master"
  MaxCommands = 3
  MaxWords = 2
  NoCommand = NoCommand
  Absent = Absent
  Empty = Empty
  Commit = Commit
  FileHash = FileHash
  Faults = {"redis", "server", "ipcrm", "kill"}
CHECK_DEADLOCK FALSE
INVARIANTS
  TypeOK
  AsTyped
PROPERTY
  EveryCommandEnds
