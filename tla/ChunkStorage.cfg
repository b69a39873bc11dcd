SPECIFICATION FairSpec
CONSTANTS
  ChunkIds = {c1, c2}
  Data = {d1, d2}
  NoData = NoData
  Garbage = Garbage
  Readers = {r1, r2}
  MaxStores = 3
  PoolSize = 2
INVARIANTS TypeOK RegistryNamesWholeFiles
PROPERTIES ImplementsRegister RetrievalsReturn
