------------------------------ MODULE Doorways ------------------------------
(***************************************************************************)
(* A dungeon between its requests: where the characters stand, the doors   *)
(* on the walls, the keys and cubes in the players' inventories, and what  *)
(* a character may still do this turn.                                     *)
(*                                                                         *)
(* A request names a player, a character and a room freely: nothing ties   *)
(* the character to the player, and only the use of a character checks     *)
(* that it stands in the room.  A request that fails is not saved, so each *)
(* action here is a whole activation that succeeds.  The maps of occupied  *)
(* cells are rebuilt from the locations for each request.                  *)
(***************************************************************************)
EXTENDS Inventory, Doors

CONSTANT Dungeons      \* the dungeons a match may be set up with

NoRoom == "no room"
Dirs == 0 .. 3
Flip(d) == (d + 2) % 4
North == 0

VARIABLES
  dungeon,     \* the dungeon of the match, which stays as it is
  doors,       \* the door on each wall
  loc,         \* where each character is
  bags,        \* the inventory of each player
  spent,       \* actions and moves each character has spent this turn
  pious,       \* characters with the trait PIETY
  isBlueOpen,  \* the phase of the blue and orange doors
  switch       \* the colour each switch shows

vars == <<dungeon, doors, loc, bags, spent, pious, isBlueOpen, switch>>

Rooms == dungeon.rooms
RoomZero == dungeon.roomZero             \* an exited character is said to be there
Floors == dungeon.floors                 \* floor cells of a room
Adjacent == dungeon.adjacent             \* the room behind each wall, or NoRoom
Above == dungeon.above                   \* the rooms reached through a shaft, or NoRoom
Below == dungeon.below
GateTo == dungeon.gates                  \* time gate rooms: where the gate leads
Bag == dungeon.bags                      \* inventories as the match starts
Players == DOMAIN Bag
FirstLocation == dungeon.location
Characters == DOMAIN FirstLocation
RoleTraits == dungeon.traits             \* among "ACTOR", "KEYER" and "UNDEAD"
Actions == dungeon.actions               \* what a character's role grants per turn
Moves == dungeon.moves
Switches == dungeon.switches             \* characters that are toggler switches
Sacraments == dungeon.sacraments         \* and those that are sacraments of forgiveness
Sides == dungeon.sides                   \* sets of characters whose turns start together
HasMonkey == dungeon.hasMonkey           \* does leaving take a coin and food?

Location ==
       [type : {"FLOOR"}, room : Rooms, data : Floors]
  \cup [type : {"DOOR", "DOOR_SHARED", "SHAFT_TOP", "SHAFT_BOTTOM"}, room : Rooms, data : Dirs]
  \cup [type : {"EXITED_DUNGEON"}, room : {RoomZero}, data : {0}]

At(type, room, data) == [type |-> type, room |-> room, data |-> data]

\* Both sides of every wall that carries a shared doorway agree: the walls lead
\* to each other, and the doors belong together.
Mates(d1, d2) ==
  LET sides == {"INGRESS", "EGRESS"}
      t1 == DoorTraits[d1]
      t2 == DoorTraits[d2]
  IN  /\ t1 \ sides = t2 \ sides
      /\ t1 \cap sides = sides \ (t2 \cap sides) \/ (t1 \cup t2) \cap sides = {}

\* The pairs that the setup of a dungeon puts on walls and in shafts, and the doors
\* that only locks and switches make.
Togglers == {"TOGGLER_BLUE_CLOSED", "TOGGLER_BLUE_OPEN", "TOGGLER_ORANGE_CLOSED", "TOGGLER_ORANGE_OPEN"}
TimeGates == {"TIME_GATE_AWAKENED", "TIME_GATE_DORMANT", "TIME_GATE_EMPTY"}
Later == {"COVENANT_OPEN", "TOGGLER_BLUE_OPEN", "TOGGLER_ORANGE_CLOSED"}
Foot == [POLE_1_TOP |-> "POLE_1_BOTTOM", LADDER_1_TOP |-> "LADDER_1_BOTTOM"]

\* The rooms lie in a grid, so that every way has a way back.
IsGrid(m) ==
  /\ m.roomZero \in m.rooms /\ NoRoom \notin m.rooms
  /\ m.adjacent \in [m.rooms -> [Dirs -> m.rooms \cup {NoRoom}]]
  /\ m.above \in [m.rooms -> m.rooms \cup {NoRoom}] /\ m.below \in [m.rooms -> m.rooms \cup {NoRoom}]
  /\ \A r, n \in m.rooms :
       /\ \A d \in Dirs : m.adjacent[r][d] = n => m.adjacent[n][Flip(d)] = r
       /\ m.above[r] = n <=> m.below[n] = r

\* Doorways, shafts and time gates come in pairs.
IsFurnished(m) ==
  /\ m.doors \in [m.rooms -> [Dirs -> Door \ Later]]
  /\ \A r \in m.rooms, d \in Dirs :
       LET door == m.doors[r][d]
           back == m.doors[m.adjacent[r][d]][Flip(d)]
       IN  /\ isSharedDoorway(door) => m.adjacent[r][d] \in m.rooms /\ Mates(door, back)
           /\ door \in Togglers => back = door
           /\ door \in DOMAIN Foot => m.below[r] \in m.rooms /\ m.doors[m.below[r]][d] = Foot[door]
           /\ door = "LADDER_1_BOTTOM" => m.above[r] \in m.rooms /\ m.doors[m.above[r]][d] = "LADDER_1_TOP"
  /\ DOMAIN m.gates \subseteq m.rooms
  /\ \A r \in DOMAIN m.gates : m.gates[r] \in DOMAIN m.gates /\ m.doors[r][North] \in TimeGates

IsDungeon(m) ==
  /\ IsGrid(m) /\ IsFurnished(m)
  /\ IsFiniteSet(m.rooms) /\ IsFiniteSet(DOMAIN m.bags)
  /\ m.bags \in [DOMAIN m.bags -> Inventories]
  /\ m.location \in [DOMAIN m.location -> [type : {"FLOOR"}, room : m.rooms, data : m.floors]]
  /\ \A c \in DOMAIN m.location :
       /\ \A e \in DOMAIN m.location : c # e => m.location[c] # m.location[e]
       /\ m.traits[c] \subseteq {"ACTOR", "KEYER", "UNDEAD"}
       /\ m.actions[c] \in Nat /\ m.moves[c] \in Nat
  /\ m.switches \cup m.sacraments \subseteq DOMAIN m.location
  /\ m.hasMonkey \in BOOLEAN

ASSUME DungeonAssumption == \A m \in Dungeons : IsDungeon(m)

-----------------------------------------------------------------------------
(* Cells.                                                                  *)

\* The cell on the other side of a wall, in NoRoom when the wall leads nowhere.
Opposite(r, d) == <<Adjacent[r][d], Flip(d)>>

\* The door cells that a location occupies.
DoorCells(l) ==
  CASE l.type = "DOOR"         -> {<<l.room, l.data>>}
    [] l.type = "DOOR_SHARED"  -> {<<l.room, l.data>>, Opposite(l.room, l.data)}
    [] l.type = "SHAFT_TOP"    -> {<<l.room, l.data>>, <<Below[l.room], l.data>>}
    [] l.type = "SHAFT_BOTTOM" -> {<<l.room, l.data>>, <<Above[l.room], l.data>>}
    [] OTHER                   -> {}

isDoorOccupied(r, d) == \E c \in Characters : <<r, d>> \in DoorCells(loc[c])
isFloorOccupied(r, f) == At("FLOOR", r, f) \in {loc[c] : c \in Characters}

validateSharedDoorNotOccupied(r, d) ==
  /\ ~isDoorOccupied(r, d)
  /\ Adjacent[r][d] \in Rooms
  /\ ~isDoorOccupied(Adjacent[r][d], Flip(d))

RoomsOf(l) == {l.room} \cup {cell[1] : cell \in DoorCells(l)}
validateCharacterWithinRoom(c, r) == r \in RoomsOf(loc[c])

\* What a character is when a request is taken up.
traitsComputed(c) ==
  RoleTraits[c] \cup (IF c \in pious THEN {"PIETY"} ELSE {})
                \cup (IF spent[c].actions < Actions[c] THEN {"ACTION_READY"} ELSE {})

takeCharacterAction(c) ==
  /\ spent[c].actions < Actions[c]
  /\ spent' = [spent EXCEPT ![c].actions = @ + 1]

takeMove(c) ==
  /\ spent[c].moves < Moves[c]
  /\ spent' = [spent EXCEPT ![c].moves = @ + 1]

updateCharacterLocation(c, l) == loc' = [loc EXCEPT ![c] = l]

-----------------------------------------------------------------------------
(* Moving.                                                                 *)

MoveToFloor(c, r, f) ==
  /\ takeMove(c)
  /\ ~isFloorOccupied(r, f)
  /\ updateCharacterLocation(c, At("FLOOR", r, f))
  /\ UNCHANGED <<doors, bags, pious, isBlueOpen, switch>>

\* Only the cell on the near side is looked at; a shared doorway takes both.
MoveToDoor(c, r, d) ==
  LET n == Adjacent[r][d]
      isShared == n \in Rooms /\ isSharedDoorway(doors[n][Flip(d)])
  IN  /\ isWalkable(doors[r][d])
      /\ takeMove(c)
      /\ ~isDoorOccupied(r, d)
      /\ updateCharacterLocation(c, IF isShared THEN At("DOOR_SHARED", n, Flip(d))
                                                ELSE At("DOOR", r, d))
      /\ UNCHANGED <<doors, bags, pious, isBlueOpen, switch>>

\* A pole is climbed down, a ladder both ways; both cells have to be free.
UseShaft(c, r, d) ==
  \E down \in BOOLEAN :
    LET n == IF down THEN Below[r] ELSE Above[r]
    IN  /\ doors[r][d] \in IF down THEN {"POLE_1_TOP", "LADDER_1_TOP"} ELSE {"LADDER_1_BOTTOM"}
        /\ n \in Rooms
        /\ takeMove(c)
        /\ ~isDoorOccupied(r, d) /\ ~isDoorOccupied(n, d)
        /\ updateCharacterLocation(c, At(IF down THEN "SHAFT_BOTTOM" ELSE "SHAFT_TOP", n, d))
        /\ UNCHANGED <<doors, bags, pious, isBlueOpen, switch>>

ExitDungeon(p, c, r, d) ==
  /\ doors[r][d] = "EXIT"
  /\ takeMove(c)
  /\ ~isDoorOccupied(r, d)
  /\ HasMonkey => Has(bags[p], "COIN") /\ Has(bags[p], "FOOD")
  /\ updateCharacterLocation(c, At("EXITED_DUNGEON", RoomZero, 0))
  /\ UNCHANGED <<doors, bags, pious, isBlueOpen, switch>>

-----------------------------------------------------------------------------
(* Locks.                                                                  *)

\* (mutant) the door on the far side of the wall is left as it was.
setNearDoor(rule, r, d) ==
  [q \in Rooms |-> [e \in Dirs |->
    IF <<q, e>> = <<r, d>> THEN findByTraits(Becomes(rule, doors[q][e])) ELSE doors[q][e]]]

\* A rule's effect on the doors: the family it shuts, then the two sides.
setSharedDoorsByTrait(rule, r, d) ==
  [q \in Rooms |-> [e \in Dirs |->
    LET door == ShutWithAll(rule, doors[q][e])
    IN  IF <<q, e>> \in {<<r, d>>, Opposite(r, d)}
          THEN findByTraits(Becomes(rule, door)) ELSE door]]

\* (mutant) the key stays with the player who opens a lock.
KeepTheKey(rule, v) == IF rule.gives # {} THEN giveItem(v, "KEY") ELSE v

KeyPaid(rule, v) ==
  IF rule.takes # {} THEN takeItem(v, "KEY")
  ELSE IF rule.gives # {} THEN giveItem(v, "KEY") ELSE v

UseLock(p, c, r, d) ==
  LET door == doors[r][d]
      rule == TheRule(door)
  IN  /\ door \in RuleDoors
      /\ takeCharacterAction(c)
      /\ rule.actor \subseteq traitsComputed(c)
      /\ rule.unless \cap DoorTraits[door] = {}
      /\ rule.takes # {} => Has(bags[p], "KEY")
      /\ rule.gives # {} => Accepts(bags[p], "KEY")
      /\ rule.clearance => validateSharedDoorNotOccupied(r, d)
      /\ Adjacent[r][d] \in Rooms
      /\ HasDoor(Becomes(rule, door))
      /\ HasDoor(Becomes(rule, doors[Adjacent[r][d]][Flip(d)]))
      /\ doors' = setSharedDoorsByTrait(rule, r, d)
      /\ bags' = [bags EXCEPT ![p] = KeyPaid(rule, @)]
      /\ UNCHANGED <<loc, pious, isBlueOpen, switch>>

\* Putting a cube into a time gate or a rod, or taking it out.
Fill(v, taken, door) == [bag |-> takeItem(v, taken), door |-> door]
Drain(v, given, door) == [bag |-> giveItem(v, given), door |-> door]
Exchange(door, v) ==
  CASE door = "TIME_GATE_AWAKENED" /\ Accepts(v, "CUBE_AWAKENED")
         -> {Drain(v, "CUBE_AWAKENED", "TIME_GATE_EMPTY")}
    [] door = "TIME_GATE_DORMANT" /\ Accepts(v, "CUBE_DORMANT")
         -> {Drain(v, "CUBE_DORMANT", "TIME_GATE_EMPTY")}
    [] door = "TIME_GATE_EMPTY" /\ Has(v, "CUBE_AWAKENED")
         -> {Fill(v, "CUBE_AWAKENED", "TIME_GATE_AWAKENED")}
    [] door = "LIGHTNING_ROD_AWAKENED" /\ Accepts(v, "CUBE_AWAKENED")
         -> {Drain(v, "CUBE_AWAKENED", "LIGHTNING_ROD_EMPTY")}
    [] door = "LIGHTNING_ROD_DORMANT" /\ Accepts(v, "CUBE_DORMANT")
         -> {Drain(v, "CUBE_DORMANT", "LIGHTNING_ROD_EMPTY")}
    [] door = "LIGHTNING_ROD_EMPTY" /\ Has(v, "CUBE_DORMANT")
         -> {Fill(v, "CUBE_DORMANT", "LIGHTNING_ROD_AWAKENED")}
    [] OTHER -> {}

UseCube(p, c, r, d) ==
  \E x \in Exchange(doors[r][d], bags[p]) :
    /\ takeCharacterAction(c)
    /\ "KEYER" \in traitsComputed(c)
    /\ doors' = [doors EXCEPT ![r][d] = x.door]
    /\ bags' = [bags EXCEPT ![p] = x.bag]
    /\ UNCHANGED <<loc, pious, isBlueOpen, switch>>

\* Through a time gate; the cell at the other end is not looked at.
UseTimeGate(c, r) ==
  /\ r \in DOMAIN GateTo /\ doors[r][North] = "TIME_GATE_AWAKENED"
  /\ takeMove(c)
  /\ ~isDoorOccupied(r, North)
  /\ doors' = [doors EXCEPT ![r][North] = "TIME_GATE_DORMANT", ![GateTo[r]][North] = "TIME_GATE_DORMANT"]
  /\ updateCharacterLocation(c, At("DOOR", GateTo[r], North))
  /\ UNCHANGED <<bags, pious, isBlueOpen, switch>>

-----------------------------------------------------------------------------
(* Using another character: an object acts and the target pays.            *)

Used(object, c, r) ==
  /\ validateCharacterWithinRoom(object, r) /\ validateCharacterWithinRoom(c, r)
  /\ "ACTOR" \in RoleTraits[c]
  /\ takeCharacterAction(c)

toggleDoors(blue) ==
  [r \in Rooms |-> [d \in Dirs |->
    CASE doors[r][d] \in {"TOGGLER_BLUE_OPEN", "TOGGLER_BLUE_CLOSED"}
           -> IF blue THEN "TOGGLER_BLUE_OPEN" ELSE "TOGGLER_BLUE_CLOSED"
      [] doors[r][d] \in {"TOGGLER_ORANGE_OPEN", "TOGGLER_ORANGE_CLOSED"}
           -> IF blue THEN "TOGGLER_ORANGE_CLOSED" ELSE "TOGGLER_ORANGE_OPEN"
      [] OTHER -> doors[r][d]]]

UseSwitch(s, c, r) ==
  /\ Used(s, c, r)
  /\ switch' = [t \in Switches |-> IF switch[s] = "ORANGE" THEN "BLUE" ELSE "ORANGE"]
  /\ isBlueOpen' = ~isBlueOpen
  /\ doors' = toggleDoors(~isBlueOpen)
  /\ UNCHANGED <<loc, bags, pious>>

UseSacrament(s, c, r) ==
  /\ Used(s, c, r)
  /\ "UNDEAD" \notin RoleTraits[c] /\ c \notin pious
  /\ pious' = pious \cup {c}
  /\ UNCHANGED <<doors, loc, bags, isBlueOpen, switch>>

\* The turn of a side begins and its characters are fresh.
StartTurn(side) ==
  /\ spent' = [c \in Characters |-> IF c \in side THEN [actions |-> 0, moves |-> 0] ELSE spent[c]]
  /\ UNCHANGED <<doors, loc, bags, pious, isBlueOpen, switch>>

-----------------------------------------------------------------------------

Init ==
  /\ dungeon \in Dungeons
  /\ doors = dungeon.doors
  /\ loc = FirstLocation
  /\ bags = Bag
  /\ spent = [c \in Characters |-> [actions |-> 0, moves |-> 0]]
  /\ pious = {}
  /\ isBlueOpen = FALSE
  /\ switch \in [Switches -> {"BLUE", "ORANGE"}]

Next ==
  /\ UNCHANGED dungeon
  /\ \/ \E c \in Characters, r \in Rooms : \/ \E f \in Floors : MoveToFloor(c, r, f)
                                           \/ UseTimeGate(c, r)
                                           \/ \E s \in Switches : UseSwitch(s, c, r)
                                           \/ \E s \in Sacraments : UseSacrament(s, c, r)
     \/ \E c \in Characters, r \in Rooms, d \in Dirs :
          \/ MoveToDoor(c, r, d)
          \/ UseShaft(c, r, d)
          \/ \E p \in Players : ExitDungeon(p, c, r, d) \/ UseLock(p, c, r, d) \/ UseCube(p, c, r, d)
     \/ \E side \in Sides : StartTurn(side)

Spec == Init /\ [][Next]_vars

-----------------------------------------------------------------------------
(* Properties.                                                             *)

TypeOK ==
  /\ dungeon \in Dungeons
  /\ doors \in [Rooms -> [Dirs -> Door]]
  /\ loc \in [Characters -> Location]
  /\ bags \in [Players -> Inventories]
  /\ \A c \in Characters : spent[c] \in [actions : 0 .. Actions[c], moves : 0 .. Moves[c]]
  /\ pious \in SUBSET Characters
  /\ isBlueOpen \in BOOLEAN
  /\ switch \in [Switches -> {"BLUE", "ORANGE"}]

\* The two sides of a shared doorway carry doors that belong together, whatever
\* locks, switches and covenants did to them, each side by its own traits.  So has
\* it the change of SHIFTER_LOCK, "clear DOOR_KEYED" on both sides (Rule.enum:173,
\* ActivatorSetSharedDoorsByTrait.cpp:29-49); the line above it has the ingress
\* become KEYED as the egress becomes KEYLESS (Rule.enum:172), which never happens.
SidesAgree ==
  \A r \in Rooms, d \in Dirs : isSharedDoorway(doors[r][d]) =>
    Mates(doors[r][d], doors[Adjacent[r][d]][Flip(d)])

\* Nobody stands in a doorway of a keeper, a jailer, a sharer, a shifter or a
\* latch while its door is barred, on either side.
NobodyInABarredDoorway ==
  \A c \in Characters : \A cell \in DoorCells(loc[c]) :
    DoorTraits[doors[cell[1]][cell[2]]] \cap (KeyFamilies \cup {"LATCH"}) # {} =>
      isWalkable(doors[cell[1]][cell[2]])

\* No two characters share a cell, floor or door, but where a time gate ends.
OneCharacterPerCell ==
  \A c, e \in Characters : c # e =>
    /\ loc[c].type = "FLOOR" => loc[c] # loc[e]
    /\ \A cell \in DoorCells(loc[c]) \cap DoorCells(loc[e]) :
         cell[1] \in DOMAIN GateTo /\ cell[2] = North

\* Opening a covenant door shuts the one that was open: at most one wall of the
\* dungeon has its covenant door open.
OneCovenantAtATime ==
  \A r, q \in Rooms, d, e \in Dirs :
    doors[r][d] = "COVENANT_OPEN" /\ doors[q][e] = "COVENANT_OPEN" =>
      <<q, e>> \in {<<r, d>>, Opposite(r, d)}

\* The blue doors are open exactly in the phase when the orange ones are shut.
ColoursFollowThePhase ==
  \A r \in Rooms, d \in Dirs :
    /\ doors[r][d] = "TOGGLER_BLUE_OPEN" => isBlueOpen
    /\ doors[r][d] = "TOGGLER_BLUE_CLOSED" => ~isBlueOpen
    /\ doors[r][d] = "TOGGLER_ORANGE_OPEN" => ~isBlueOpen
    /\ doors[r][d] = "TOGGLER_ORANGE_CLOSED" => isBlueOpen

\* What locks, switches and covenants do to the doors of a wall, of a family and
\* of a colour, they do to all of them.
DoorsAgree == SidesAgree /\ OneCovenantAtATime /\ ColoursFollowThePhase

\* Doorways keep apart who stands in them, and no lock is turned on anybody.
DoorwaysAreSafe == TypeOK /\ NobodyInABarredDoorway /\ OneCharacterPerCell

\* Cubes in the bags, where each fills a slot, and behind the walls.  A passage
\* through a time gate may leave a second cube at the other end, but no step loses one.
CarriedCubes == {slot \in Players \X Slots : bags[slot[1]][slot[2]].item \in {"CUBE_AWAKENED", "CUBE_DORMANT"}}
CubeDoors == {"TIME_GATE_AWAKENED", "TIME_GATE_DORMANT", "LIGHTNING_ROD_AWAKENED", "LIGHTNING_ROD_DORMANT"}
PlacedCubes == {cell \in Rooms \X Dirs : doors[cell[1]][cell[2]] \in CubeDoors}
Cubes == Cardinality(CarriedCubes) + Cardinality(PlacedCubes)
CubesAreNeverLost == [][Cubes' >= Cubes]_vars

\* The keys as a ledger sees them: every key is in a bag or in the lock of an
\* open doorway, and a step moves one key of one player in or out of one lock.
Keyed == {cell \in Rooms \X Dirs :
            DoorTraits[doors[cell[1]][cell[2]]] \cap KeyFamilies # {}
            /\ "KEYED" \in DoorTraits[doors[cell[1]][cell[2]]]}
KeysHeld == [p \in Players |-> Held(bags[p], "KEY")]
KeyedWalls == {{cell, Opposite(cell[1], cell[2])} : cell \in Keyed}
Ledger == INSTANCE KeyLedger WITH held <- KeysHeld, keyed <- KeyedWalls
KeepsALedgerOfKeys == Ledger!Spec

\* Neither keys nor cubes get lost between bags, locks, gates and rods, however
\* full a bag is (Inventory.cpp:122).
NothingIsLost == KeepsALedgerOfKeys /\ CubesAreNeverLost

=============================================================================
