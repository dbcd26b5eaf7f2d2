SPECIFICATION Spec
CONSTANTS
  Slots = {0, 1}
  Accounts <- TwoPlayers
  NumServers = 2
  RecordHiders = 2
  RecordServers = 2
  RecordHistory = 3
  RecordGoals = 3
  Policies = {"baseline", "eager", "wild"}
  ModelOf <- Models
  QuietTicks = {0, 252}
  MaxTicks = 5
  MaxMoves = 4
  Moved <- Hands
CHECK_DEADLOCK FALSE
INVARIANTS MemoryIsTrue OnlyActsMakeNoise SeekerIsBlind RestoredAsSaved
