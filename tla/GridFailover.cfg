SPECIFICATION FairSpec
CONSTANTS
  f1 = f1
  s1 = s1
  s2 = s2
  s3 = s3
  Files = {f1}
  Uploads = {1}
  EmptyUploads = {}
  Downloads = {d1}
  Deletes = {x1}
  Failovers = {s1}
  Servers = {s1, s2, s3}
  ChunkIds = {0}
  ReplicationFactor = 2
  Configured = {s3}
  Registered = {s1, s2}
  Added = {s2, s3}
  DefaultPort = {s1, s3}
  MaxFaults = 1
  Hashes = {1}
  CutHash = CutHash
  NoHash = NoHash
  Paths <- MCPaths
  FileOf <- MCFileOf
INVARIANT CleanDownloadSucceeds
PROPERTIES NoResurrection RequestsEnd
CHECK_DEADLOCK FALSE
