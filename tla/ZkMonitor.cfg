SPECIFICATION Spec
CONSTANTS
  Heads = {1, 2, 3}
  Configured = {1, 2}
  UsageOf <- MCUsageOf
  MaxChanges = 3
INVARIANTS TypeOK ElectedIsUndominated FormerLeaderIsChecked
PROPERTY LeaderComesUp
