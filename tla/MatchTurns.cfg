\* Accounts take as many seats as there are, leave them one by one and come back.
SPECIFICATION Spec
CONSTANTS
  npc = npc
  Accounts = {"ann", "bob", "cid"}
  Host = "ann"
  SeatCount = 3
  Npcs <- MCNpcs
  Capacity <- MCCapacity
  MaxTurn = 6
PROPERTIES TurnerFollowsTheSeats MovesComeBackWithTheTurn KeepsTurnOrder
