\* One move that pays the last goal at once, and no tick after it.
SPECIFICATION Spec
CONSTANTS
  Hiders = {0, 1}
  HiderCount = 2
  NumServers = 3
  Modes = {"PAY_GOAL", "BOOST_CPU"}
  PayGoal = "PAY_GOAL"
  ApCost <- MCApCost
  ApRegen = 1
  ApCap = 3
  StartAp = 0
  StartLoa = 1
  PoolPerHider = 1
  SeekerTokens = 2
  OpensPerTick = 1
  MaxWager = 2
  MetricGoals = {0}
  CountGoals = {2}
  CountNeeded = 3
  RewardTarget = 1
  RingCap = 2
  HiderQuota = 1
  MaxAdvance = 3
  EventCap = 2
  MaxRevision = 4
INVARIANTS UndecidedWhileActive
