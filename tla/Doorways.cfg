\* Each of the three dungeons.
CONSTANTS
  a = a
  b = b
  c = c
  d = d
  e = e
  p1 = p1
  p2 = p2
  hero = hero
  rogue = rogue
  ghoul = ghoul
  lever = lever
  lever2 = lever2
  altar = altar
  SlotCount = 4
  KeyStack = 2
  Dungeons <- Three
SPECIFICATION Spec
INVARIANTS DoorsAgree DoorwaysAreSafe
PROPERTIES NothingIsLost
