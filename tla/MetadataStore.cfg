SPECIFICATION Spec
CONSTANTS
  s1 = s1
  s2 = s2
  p1 = p1
  f1 = f1
  f2 = f2
  CutHash = CutHash
  NoHash = NoHash
  ChunkIds = {0, 1}
  Servers <- MCServers
  Paths = {p1}
  Hashes = {h1}
  Files = {f1, f2}
  Vectors <- MCVectors
  ReplicationFactor = 2
  DiskFaults = TRUE
INVARIANTS TypeOK CountsExact ReturnedIsRestored NothingInvented
