SPECIFICATION Spec
CONSTANTS
  w1 = w1
  w2 = w2
  c1 = c1
  c2 = c2
  c3 = c3
  x = x
  y = y
  NoWorker = NoWorker
  NoClient = NoClient
  NoHash = NoHash
  Garbage = Garbage
  ZeroHash = ZeroHash
  Absent = Absent
  Empty = Empty
  JunkName = "junk"
  Partial = Partial
  BadBlob = BadBlob
  Names <- MCNames
  Blobs <- MCBlobs
  FileLists <- MCFileLists
  Workers <- MCWorkers
  Clients <- MCClients
  Branches = {"main"}
  MaxManifestEntries = 2
  Faults = {"cut"}
SYMMETRY Symmetry
INVARIANTS
  TypeOK
  FreeHeadIsTip
  LinearHistory
  FilesStay
PROPERTY
  ImplementsBranchLog
