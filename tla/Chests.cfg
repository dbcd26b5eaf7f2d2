\* Two builders, three critters, two chests, bags of three slots, two turns, no
\* more blows after the first that hurts.  The model stops when all is spent.
SPECIFICATION Spec
CONSTANTS
  SlotCount = 3
  KeyStack = 9
  Builders = {1, 2}
  Critters = {3, 4, 5}
  RoleOf <- MCRoleOf
  ChestSet = {6, 7}
  Blows <- MCBlows
  Scenes <- MCScenes
  Targets = {1}
  MaxDamage = 1
  MaxTurns = 2
CHECK_DEADLOCK FALSE
INVARIANTS DuelsAreDecided AfflictionsSettle
PROPERTIES NothingGoesMissing LootersAreBitten
