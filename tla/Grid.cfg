SPECIFICATION Spec
CONSTANTS
  f1 = f1
  s1 = s1
  s2 = s2
  s3 = s3
  Files = {f1}
  Uploads = {1, 2}
  EmptyUploads = {2}
  Downloads = {d1}
  Deletes = {x1}
  Failovers = {}
  Servers = {s1, s2}
  ChunkIds = {0, 1}
  ReplicationFactor = 2
  Configured = {}
  Registered = {}
  Added = {}
  DefaultPort = {}
  MaxFaults = 0
  Hashes = {1, 2}
  CutHash = CutHash
  NoHash = NoHash
  Paths <- MCPaths
  FileOf <- MCFileOf
INVARIANTS TypeOK DownloadedIsCommitted CleanDownloadSucceeds
SYMMETRY ServerSymmetry
CHECK_DEADLOCK FALSE
