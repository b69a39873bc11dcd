SPECIFICATION Spec
CONSTANTS
  f1 = f1
  s1 = s1
  s2 = s2
  s3 = s3
  Files = {f1}
  Uploads = {1}
  EmptyUploads = {}
  Downloads = {}
  Deletes = {}
  Failovers = {s1}
  Servers = {s1, s2, s3}
  ChunkIds = {0}
  ReplicationFactor = 2
  Configured = {}
  Registered = {s1, s2, s3}
  Added = {}
  DefaultPort = {}
  MaxFaults = 1
  Hashes = {1}
  CutHash = CutHash
  NoHash = NoHash
  Paths <- MCPaths
  FileOf <- MCFileOf
PROPERTY FailoverKeepsReplicas
CHECK_DEADLOCK FALSE
