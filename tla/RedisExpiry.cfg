SPECIFICATION Spec
CONSTANTS
  s1 = s1  s2 = s2  s3 = s3  u1 = u1  u2 = u2  x1 = x1  f1 = f1
  cut = cut  empty = empty
  ChunkIds = {0, 1}
  Servers <- TheServers
  Paths <- ThePaths
  Hashes <- TheUploads
  CutHash = cut
  NoHash = empty
  Files <- OneFile
  Uploads <- TheUploads
  Deletes = {x1}
  Failovers = {s1}
  FileOf <- OfFile
  Vectors <- TheVectors
  ReplicationFactor = 2
  MaxFaults = 1
PROPERTY OnlyDeletionForgets
CHECK_DEADLOCK FALSE
