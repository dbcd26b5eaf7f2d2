SPECIFICATION FairSpec
CONSTANTS
  Slots = {0, 1}
  Accounts <- OneNpc
  Npcs = {1}
  NumServers = 3
  RingCap = 3
  HiderQuota = 2
  LongPass = 3
  MaxMeddling = 2
CHECK_DEADLOCK FALSE
INVARIANTS PolicyKnowsTheRules ViewsAreBlind ReportAddsUp
PROPERTIES CheapGoalsGetPaid
