SPECIFICATION FairSpec
CONSTANTS
  n1 = n1
  n2 = n2
  n3 = n3
  Nodes <- TwoNodes
  ServerId <- MCServerId
  Config <- TwoConfig
  Timeout = 0
  MaxMissed = 1
  HeartbeatLoss = TRUE
  MaxRestarts = 1
  MaxId = 3
INVARIANTS TypeOK AddressesUnique OneFailoverPerServer
PROPERTIES LiveIsRegistered SilentIsNoticed FailoversEnd
