SPECIFICATION Spec
CONSTANTS
  n1 = n1
  n2 = n2
  n3 = n3
  Nodes <- ThreeNodes
  ServerId <- MCServerId
  Config <- NoConfig
  Timeout = 1
  MaxMissed = 2
  HeartbeatLoss = FALSE
  MaxRestarts = 0
  MaxId = 5
PROPERTIES LiveIsNotKilled
