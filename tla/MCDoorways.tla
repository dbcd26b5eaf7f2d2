----------------------------- MODULE MCDoorways ------------------------------
(***************************************************************************)
(* Three small dungeons for Doorways.  Directions: 0 north, 1 east,        *)
(* 2 south, 3 west.  Every bag has four slots.                             *)
(***************************************************************************)
EXTENDS Doorways, TLC

CONSTANTS a, b, c, d, e,        \* rooms
          p1, p2,               \* players
          hero, rogue, ghoul,   \* characters that move
          lever, lever2, altar  \* objects

\* No wall of a room leads anywhere, or carries a door, but those given.
Linked(walls) == [i \in Dirs |-> IF i \in DOMAIN walls THEN walls[i] ELSE NoRoom]
Built(walls) == [i \in Dirs |-> IF i \in DOMAIN walls THEN walls[i] ELSE "WALL"]

Some(item, n) == [item |-> item, stacks |-> n]

\* A bag whose first slots are taken by cubes, so that one slot is left.
OneSlotLeft(slot) == <<Some("CUBE_DORMANT", 1), Some("CUBE_DORMANT", 1), Some("CUBE_DORMANT", 1), slot>>

-----------------------------------------------------------------------------
(* Locks: four rooms in a ring, a key door or a latch on every wall, and a *)
(* jailer's cell to the north.  Two characters of two players share three  *)
(* keys; the hero turns them and the rogue walks about as well.            *)

LocksRooms == {a, b, c, d, e}
LocksDungeon ==
  [ rooms |-> LocksRooms, roomZero |-> a, floors |-> {1},
    adjacent |->
      a :> Linked(0 :> e @@ 1 :> b @@ 2 :> c) @@ b :> Linked(3 :> a @@ 2 :> d)
      @@ c :> Linked(0 :> a @@ 1 :> d) @@ d :> Linked(0 :> b @@ 3 :> c) @@ e :> Linked(2 :> a),
    above |-> [r \in LocksRooms |-> NoRoom], below |-> [r \in LocksRooms |-> NoRoom],
    gates |-> <<>>,
    doors |->
      a :> Built(0 :> "JAILER_INGRESS_KEYLESS" @@ 1 :> "KEEPER_INGRESS_KEYLESS" @@ 2 :> "LATCH_INGRESS_CLOSED")
      @@ b :> Built(3 :> "KEEPER_EGRESS_KEYLESS" @@ 2 :> "SHARER_KEYED")
      @@ c :> Built(0 :> "LATCH_EGRESS_CLOSED" @@ 1 :> "SHIFTER_EGRESS_KEYED")
      @@ d :> Built(0 :> "SHARER_KEYED" @@ 3 :> "SHIFTER_INGRESS_KEYED")
      @@ e :> Built(2 :> "JAILER_EGRESS_KEYLESS"),
    bags |-> p1 :> OneSlotLeft(Some("KEY", 1)) @@ p2 :> OneSlotLeft(NoItem),
    location |-> hero :> At("FLOOR", a, 1) @@ rogue :> At("FLOOR", c, 1),
    traits |-> [x \in {hero, rogue} |-> {"ACTOR", "KEYER"}],
    actions |-> [x \in {hero, rogue} |-> 1], moves |-> hero :> 0 @@ rogue :> 1,
    switches |-> {}, sacraments |-> {}, sides |-> {{hero}, {rogue}}, hasMonkey |-> FALSE ]

-----------------------------------------------------------------------------
(* Phases: two covenant doors, a blue and an orange door, two switches and *)
(* a sacrament, used by a hero and a ghoul.  Objects do nothing themselves. *)

Objects == {lever, lever2, altar}
Cast == {hero, ghoul} \cup Objects
Idle == [x \in Cast |-> IF x \in Objects THEN 0 ELSE 1]
PhasesRooms == {a, b, c, d}
PhasesDungeon ==
  [ rooms |-> PhasesRooms, roomZero |-> a, floors |-> {1, 2},
    adjacent |->
      a :> Linked(1 :> b @@ 2 :> c) @@ b :> Linked(3 :> a @@ 2 :> d)
      @@ c :> Linked(0 :> a @@ 1 :> d) @@ d :> Linked(0 :> b @@ 3 :> c),
    above |-> [r \in PhasesRooms |-> NoRoom], below |-> [r \in PhasesRooms |-> NoRoom],
    gates |-> <<>>,
    doors |->
      a :> Built(1 :> "COVENANT_CLOSED" @@ 2 :> "TOGGLER_BLUE_CLOSED")
      @@ b :> Built(3 :> "COVENANT_CLOSED" @@ 2 :> "TOGGLER_ORANGE_OPEN")
      @@ c :> Built(0 :> "TOGGLER_BLUE_CLOSED" @@ 1 :> "COVENANT_CLOSED")
      @@ d :> Built(0 :> "TOGGLER_ORANGE_OPEN" @@ 3 :> "COVENANT_CLOSED"),
    bags |-> p1 :> [s \in Slots |-> NoItem],
    location |->
      hero :> At("FLOOR", a, 1) @@ ghoul :> At("FLOOR", d, 1)
      @@ lever :> At("FLOOR", a, 2) @@ lever2 :> At("FLOOR", d, 2) @@ altar :> At("FLOOR", b, 2),
    traits |-> hero :> {"ACTOR"} @@ ghoul :> {"ACTOR", "UNDEAD"} @@ [x \in Objects |-> {}],
    actions |-> Idle, moves |-> Idle,
    switches |-> {lever, lever2}, sacraments |-> {altar}, sides |-> {Cast}, hasMonkey |-> FALSE ]

-----------------------------------------------------------------------------
(* Shafts and gates: a over b, joined by a pole and a ladder, a time gate  *)
(* from b to its future c, a lightning rod and a way out.  The hero has    *)
(* hands for the cubes, the rogue follows.                                 *)

ShaftsRooms == {a, b, c}
ShaftsDungeon ==
  [ rooms |-> ShaftsRooms, roomZero |-> b, floors |-> {1},
    adjacent |-> [r \in ShaftsRooms |-> Linked(<<>>)],
    above |-> a :> NoRoom @@ b :> a @@ c :> NoRoom,
    below |-> a :> b @@ b :> NoRoom @@ c :> NoRoom,
    gates |-> b :> c @@ c :> b,
    doors |->
      a :> Built(0 :> "LIGHTNING_ROD_DORMANT" @@ 1 :> "POLE_1_TOP" @@ 3 :> "LADDER_1_TOP")
      @@ b :> Built(0 :> "TIME_GATE_EMPTY" @@ 1 :> "POLE_1_BOTTOM" @@ 3 :> "LADDER_1_BOTTOM")
      @@ c :> Built(0 :> "TIME_GATE_EMPTY" @@ 2 :> "EXIT"),
    bags |-> p1 :> <<Some("CUBE_AWAKENED", 1), Some("COIN", 2), Some("FOOD", 1), NoItem>>,
    location |-> hero :> At("FLOOR", a, 1) @@ rogue :> At("FLOOR", b, 1),
    traits |-> [x \in {hero, rogue} |-> {"ACTOR", "KEYER"}],
    actions |-> hero :> 1 @@ rogue :> 0, moves |-> [x \in {hero, rogue} |-> 1],
    switches |-> {}, sacraments |-> {}, sides |-> {{hero, rogue}}, hasMonkey |-> TRUE ]

Three == {LocksDungeon, PhasesDungeon, ShaftsDungeon}
JustLocks == {LocksDungeon}
=============================================================================
