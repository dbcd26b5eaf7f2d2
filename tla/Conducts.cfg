CONSTANTS
  Unset = Unset
  NoVar = NoVar
  SlotCount = 2
  KeyStack = 9
  Dungeons <- MCDungeons
SPECIFICATION FairSpec
CHECK_DEADLOCK TRUE
INVARIANTS WorldIsConsistent NestingIsPaidFor ErrandsMakeSense
PROPERTIES LootOnlyLostToAFullStash ThievesFinish
