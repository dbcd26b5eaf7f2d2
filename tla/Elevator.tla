------------------------------ MODULE Elevator -------------------------------
(***************************************************************************)
(* An elevator between its requests: one room, the car, whose south wall   *)
(* is linked to one level of a column, and the doors that tell which       *)
(* levels are paid for and where the car is.  The buttons are the doors on *)
(* the car's north and south walls: pressed, a button drives the car one   *)
(* level up or down, or buys that level with a key.                        *)
(*                                                                         *)
(* A level is known to be paid only by its door, and the buttons are drawn *)
(* anew from the doors around the car by each press.  As in Doorways a     *)
(* request names player, character and room freely and an action here is   *)
(* an activation that succeeds; floor cells are not told apart.            *)
(***************************************************************************)
EXTENDS Naturals, FiniteSets

CONSTANTS
  Top,                \* the highest level
  First,              \* the level that is paid for from the start
  Car, Away,          \* the elevator's room; a place that is not a doorway of it
  Players, Keys,      \* elevator keys each player has found
  Characters, Keyers, \* characters, and those whose role can handle keys
  Actions, Moves,     \* what a character may do each turn
  Sides               \* sets of characters whose turns start together

Levels == 0 .. Top

ASSUME ElevatorAssumption ==
  /\ Top \in Nat /\ First \in Levels
  /\ Car \notin Levels /\ Away \notin Levels /\ Car # Away
  /\ Keys \in [Players -> Nat]
  /\ Keyers \subseteq Characters
  /\ Actions \in [Characters -> Nat] /\ Moves \in [Characters -> Nat]

VARIABLES
  outer,   \* the door on each level's wall to the elevator
  button,  \* the button on the car's north and south doors
  level,   \* the level that the car's south wall is linked to
  linked,  \* levels whose wall is linked to the car
  stands,  \* the room that a character's shared doorway names, or Away
  held,    \* elevator keys of each player
  spent    \* actions and moves each character has spent this turn

vars == <<outer, button, level, linked, stands, held, spent>>

Outer == {"OPEN_KEYED", "CLOSED_CALL_BUTTON", "CLOSED_KEYLESS"}
Walls == {"NORTH", "SOUTH"}
Buttons == {"NONE", "MOVING", "PAYING"}

getExteriorType(isPresent, isPaid) ==
  IF ~isPaid THEN "CLOSED_KEYLESS" ELSE IF isPresent THEN "OPEN_KEYED" ELSE "CLOSED_CALL_BUTTON"

getInteriorType(isExisting, isPaid) ==
  IF ~isExisting THEN "NONE" ELSE IF isPaid THEN "MOVING" ELSE "PAYING"

isKeyed(door) == door \in {"OPEN_KEYED", "CLOSED_CALL_BUTTON"}

\* Room.above and Room.below along the column; Top + 1 and Car are no levels.
Beyond(l, w) == IF w = "NORTH" THEN l + 1 ELSE IF l = 0 THEN Car ELSE l - 1

IsLevel(l) == l \in Levels
IsPaid(l) == IsLevel(l) /\ isKeyed(outer[l])

-----------------------------------------------------------------------------
(* Standing in the doorway between the car and a level.                    *)

\* The cells a character takes, each named by its room.
DoorCells(c) ==
  CASE stands[c] = Away -> {}
    [] stands[c] = Car  -> {Car, level}
    [] OTHER            -> {stands[c]} \cup (IF stands[c] \in linked THEN {Car} ELSE {})

isDoorOccupied(r) == \E c \in Characters : r \in DoorCells(c)

takeMove(c) ==
  /\ spent[c].moves < Moves[c]
  /\ spent' = [spent EXCEPT ![c].moves = @ + 1]

takeAction(c) ==
  /\ spent[c].actions < Actions[c]
  /\ spent' = [spent EXCEPT ![c].actions = @ + 1]

\* Into the doorway from the car, whose south door is always open, or from a
\* level.  The location names the room on the other side.
MoveToDoor(c, r) ==
  /\ r = Car \/ (r \in linked /\ outer[r] = "OPEN_KEYED")
  /\ ~isDoorOccupied(r)
  /\ takeMove(c)
  /\ stands' = [stands EXCEPT ![c] = IF r = Car THEN level ELSE Car]
  /\ UNCHANGED <<outer, button, level, linked, held>>

MoveToFloor(c) ==
  /\ takeMove(c)
  /\ stands' = [stands EXCEPT ![c] = Away]
  /\ UNCHANGED <<outer, button, level, linked, held>>

-----------------------------------------------------------------------------
(* Pressing a button.                                                      *)

\* What has to be so for either kind of press.
Pressed(c, w) ==
  /\ button[w] # "NONE"
  /\ c \in Keyers
  /\ IsLevel(Beyond(level, w))
  /\ takeAction(c)

\* The buttons after the neighbouring level in direction w was bought.
BoughtButtons(w) ==
  [e \in Walls |-> getInteriorType(IsLevel(Beyond(level, e)), e = w \/ IsPaid(Beyond(level, e)))]

\* The buttons after the car went in direction w: back is known to be paid for,
\* and the door of the next level but one is looked at.
ArrivalButtons(w) ==
  LET subsequent == Beyond(Beyond(level, w), w)
  IN  [e \in Walls |-> getInteriorType(e # w \/ IsLevel(subsequent), e # w \/ IsPaid(subsequent))]

\* (mutant) the key is not looked for.
PayUnchecked(p, c, w) ==
  LET next == Beyond(level, w)
  IN  /\ Pressed(c, w)
      /\ ~IsPaid(next)
      /\ held' = [held EXCEPT ![p] = @ - 1]
      /\ outer' = [outer EXCEPT ![next] = getExteriorType(FALSE, TRUE)]
      /\ button' = BoughtButtons(w)
      /\ UNCHANGED <<level, linked, stands>>

\* The neighbouring level is bought: its door gets a call button, and the car's
\* own level is set up again.
Pay(p, c, w) ==
  LET next == Beyond(level, w)
  IN  /\ Pressed(c, w)
      /\ ~IsPaid(next)
      /\ held[p] > 0
      /\ held' = [held EXCEPT ![p] = @ - 1]
      /\ outer' = [outer EXCEPT ![next] = getExteriorType(FALSE, TRUE),
                                ![level] = getExteriorType(TRUE, TRUE)]
      /\ button' = BoughtButtons(w)
      /\ linked' = linked \cup {level}
      /\ UNCHANGED <<level, stands>>

\* (mutant) nobody looks at the doorway.
MoveBlindly(c, w) ==
  LET next == Beyond(level, w)
  IN  /\ Pressed(c, w) /\ IsPaid(next)
      /\ outer' = [outer EXCEPT ![next] = getExteriorType(TRUE, TRUE),
                                ![level] = getExteriorType(FALSE, TRUE)]
      /\ button' = ArrivalButtons(w)
      /\ level' = next /\ linked' = linked \cup {next}
      /\ UNCHANGED <<stands, held>>

\* The car goes to a paid level when none of its doors is occupied: the walls
\* are linked there, and the level it leaves gets a call button.
MoveCar(c, w) ==
  LET next == Beyond(level, w)
  IN  /\ Pressed(c, w)
      /\ IsPaid(next)
      /\ ~isDoorOccupied(Car)
      /\ outer' = [outer EXCEPT ![next] = getExteriorType(TRUE, TRUE),
                                ![level] = getExteriorType(FALSE, TRUE)]
      /\ button' = ArrivalButtons(w)
      /\ level' = next
      /\ linked' = linked \cup {next}
      /\ UNCHANGED <<stands, held>>

\* The turn of a side begins and its characters are fresh.
StartTurn(side) ==
  /\ spent' = [c \in Characters |-> IF c \in side THEN [actions |-> 0, moves |-> 0] ELSE spent[c]]
  /\ UNCHANGED <<outer, button, level, linked, stands, held>>

-----------------------------------------------------------------------------

Init ==
  /\ outer = [l \in Levels |-> getExteriorType(l = First, l = First)]
  /\ button = [w \in Walls |-> getInteriorType(IsLevel(Beyond(First, w)), FALSE)]
  /\ level = First
  /\ linked = {First}
  /\ stands = [c \in Characters |-> Away]
  /\ held = Keys
  /\ spent = [c \in Characters |-> [actions |-> 0, moves |-> 0]]

Next ==
  \/ \E c \in Characters :
       \/ \E r \in {Car} \cup Levels : MoveToDoor(c, r)
       \/ MoveToFloor(c)
       \/ \E w \in Walls : MoveCar(c, w) \/ \E p \in Players : Pay(p, c, w)
  \/ \E side \in Sides : StartTurn(side)

Spec == Init /\ [][Next]_vars

-----------------------------------------------------------------------------
(* Properties.                                                             *)

TypeOK ==
  /\ outer \in [Levels -> Outer]
  /\ button \in [Walls -> Buttons]
  /\ level \in Levels
  /\ linked \in SUBSET Levels
  /\ stands \in [Characters -> {Car, Away} \cup Levels]
  /\ held \in [Players -> Nat]
  /\ spent \in [Characters -> [actions : Nat, moves : Nat]]
  /\ \A c \in Characters : spent[c].actions <= Actions[c] /\ spent[c].moves <= Moves[c]

\* One level's door to the elevator is open: that of the level the car is linked
\* to, and both walls know it.
OneOpenLevel ==
  /\ \A l \in Levels : outer[l] = "OPEN_KEYED" <=> l = level
  /\ level \in linked

\* A button is there exactly for a level that exists, and says what pressing it
\* will do now: drive there or buy it.
ButtonsTellTheTruth ==
  \A w \in Walls : button[w] = getInteriorType(IsLevel(Beyond(level, w)), IsPaid(Beyond(level, w)))

\* At most one character stands in the car's doorway, and the level it stands
\* at is where the car is: the car never leaves anybody in the shaft.
NobodyInTheShaft ==
  /\ \A c \in Characters : stands[c] \in Levels => stands[c] = level
  /\ \A c, d \in Characters : c # d => DoorCells(c) \cap DoorCells(d) = {}

\* The levels that are paid for follow each other without a gap.
PaidLevelsAreARow ==
  \A l, m \in Levels : IsPaid(l) /\ IsPaid(m) => \A k \in l .. m : IsPaid(k)

\* The car, the shaft and the buttons: nobody falls, and every door and button
\* that a ride or a purchase redraws shows what is behind it.
ShaftIsSafe == OneOpenLevel /\ ButtonsTellTheTruth /\ NobodyInTheShaft /\ PaidLevelsAreARow

\* The elevator as its riders know it: a place among paid levels, see Lift.
Ride == INSTANCE Lift WITH paid <- {l \in Levels : IsPaid(l)}
RunsALift == Ride!Spec
==============================================================================
