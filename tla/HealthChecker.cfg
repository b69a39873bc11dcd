\* config/health_checker.json: rounds of 30 s, a timeout of 60 s, 3 misses
SPECIFICATION FairSpec
CONSTANTS
  n1 = n1
  n2 = n2
  Nodes <- TwoServers
  Timeout = 2
  MaxMissed = 3
  MaxGap = 3
  MaxCrashes = 3
INVARIANTS TypeOK OneTriggerPerSilence StatusBalances
PROPERTIES RunningIsNotMarked SilentIsMarked BeatingIsHealthy
