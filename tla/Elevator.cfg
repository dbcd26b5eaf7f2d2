\* Five levels, the middle one paid for; a keyer and a rider; four keys.
CONSTANTS
  Top = 4
  First = 2
  Car = Car
  Away = Away
  p1 = p1
  p2 = p2
  hero = hero
  rider = rider
  guest = guest
  Players = {p1, p2}
  Keys <- TwoEach
  Characters = {hero, rider, guest}
  Keyers = {hero, rider}
  Actions <- OnePerTurn
  Moves <- OnePerTurn
  Sides <- EachAlone
SPECIFICATION Spec
INVARIANTS ShaftIsSafe
PROPERTIES RunsALift
