--------------------------- MODULE ElevatorProofs ----------------------------
(***************************************************************************)
(* Theorems about Elevator, for any number of levels, characters, players  *)
(* and keys.  All of its invariants are proved together: the doors of the  *)
(* levels, the buttons, the doorway and the row of paid levels each rest   *)
(* on the others.                                                          *)
(***************************************************************************)
EXTENDS Elevator, TLAPS

IInv ==
  /\ TypeOK
  /\ OneOpenLevel
  /\ ButtonsTellTheTruth
  /\ NobodyInTheShaft
  /\ PaidLevelsAreARow

-----------------------------------------------------------------------------
(* Lemmas about the operators.                                             *)

\* The level beyond a wall, and the way back from it.
LEMMA BeyondFacts ==
  ASSUME NEW l \in Levels, NEW w \in Walls, IsLevel(Beyond(l, w))
  PROVE  /\ Beyond(l, w) \in Levels
         /\ Beyond(l, w) # l
         /\ \A e \in Walls : e # w => Beyond(Beyond(l, w), e) = l
         /\ Beyond(Beyond(l, w), w) \notin {l, Beyond(l, w)}
         /\ Beyond(l, w) = l + 1 \/ Beyond(l, w) = l - 1
<1> USE ElevatorAssumption DEF Beyond, IsLevel, Levels, Walls
<1>1. CASE w = "NORTH"
  BY <1>1
<1>2. CASE w = "SOUTH"
  <2>1. l # 0 /\ Beyond(l, w) = l - 1
    BY <1>2
  <2>2. Beyond(Beyond(l, w), w) \notin {l, Beyond(l, w)}
    BY <1>2, <2>1
  <2>3. \A e \in Walls : e # w => Beyond(Beyond(l, w), e) = l
    BY <1>2, <2>1
  <2> QED
    BY <2>1, <2>2, <2>3
<1> QED
  BY <1>1, <1>2

\* What the doors of the levels look like.
LEMMA ExteriorFacts ==
  /\ getExteriorType(TRUE, TRUE) = "OPEN_KEYED"
  /\ getExteriorType(FALSE, TRUE) = "CLOSED_CALL_BUTTON"
  /\ getExteriorType(FALSE, FALSE) = "CLOSED_KEYLESS"
  BY DEF getExteriorType

\* Using up an action or a move stays within what a character may do.
LEMMA SpentTyped ==
  ASSUME TypeOK, NEW c \in Characters, takeAction(c) \/ takeMove(c)
  PROVE  /\ spent' \in [Characters -> [actions : Nat, moves : Nat]]
         /\ \A d \in Characters : spent'[d].actions <= Actions[d] /\ spent'[d].moves <= Moves[d]
<1> USE ElevatorAssumption DEF TypeOK
<1>1. CASE takeAction(c)
  <2>1. /\ spent[c].actions \in Nat /\ spent[c].actions + 1 <= Actions[c]
        /\ spent' = [spent EXCEPT ![c].actions = @ + 1]
    BY <1>1 DEF takeAction
  <2>2. /\ spent' \in [Characters -> [actions : Nat, moves : Nat]]
        /\ spent'[c].actions = spent[c].actions + 1 /\ spent'[c].moves = spent[c].moves
        /\ \A d \in Characters \ {c} : spent'[d] = spent[d]
    BY <2>1
  <2> QED
    BY <2>1, <2>2
<1>2. CASE takeMove(c)
  <2>1. /\ spent[c].moves \in Nat /\ spent[c].moves + 1 <= Moves[c]
        /\ spent' = [spent EXCEPT ![c].moves = @ + 1]
    BY <1>2 DEF takeMove
  <2>2. /\ spent' \in [Characters -> [actions : Nat, moves : Nat]]
        /\ spent'[c].moves = spent[c].moves + 1 /\ spent'[c].actions = spent[c].actions
        /\ \A d \in Characters \ {c} : spent'[d] = spent[d]
    BY <2>1
  <2> QED
    BY <2>1, <2>2
<1> QED
  BY <1>1, <1>2

\* While the car's doorway is free nobody stands in it, from either side.
LEMMA FreeDoorway ==
  ASSUME TypeOK, OneOpenLevel, NobodyInTheShaft, ~isDoorOccupied(Car)
  PROVE  \A c \in Characters : stands[c] = Away
  BY ElevatorAssumption DEF TypeOK, OneOpenLevel, NobodyInTheShaft, isDoorOccupied, DoorCells

-----------------------------------------------------------------------------
(* The invariant is kept by each action.                                   *)

LEMMA InitInvariant == Init => IInv
<1> SUFFICES ASSUME Init PROVE IInv
  OBVIOUS
<1> USE ElevatorAssumption, ExteriorFacts DEF Init
<1>1. \A l \in Levels : outer[l] = IF l = First THEN "OPEN_KEYED" ELSE "CLOSED_KEYLESS"
  OBVIOUS
<1>2. \A l \in Levels : IsPaid(l) <=> l = First
  BY <1>1 DEF IsPaid, isKeyed, IsLevel
<1>3. TypeOK
  <2>1. outer \in [Levels -> Outer]
    BY DEF Outer, getExteriorType
  <2>2. button \in [Walls -> Buttons]
    BY DEF getInteriorType, Buttons
  <2>3. /\ spent \in [Characters -> [actions : Nat, moves : Nat]]
        /\ \A c \in Characters : spent[c].actions <= Actions[c] /\ spent[c].moves <= Moves[c]
    OBVIOUS
  <2>4. /\ level \in Levels /\ linked \in SUBSET Levels
        /\ stands \in [Characters -> {Car, Away} \cup Levels] /\ held \in [Players -> Nat]
    OBVIOUS
  <2> QED
    BY ONLY <2>1, <2>2, <2>3, <2>4 DEF TypeOK
<1>4. OneOpenLevel
  BY <1>1 DEF OneOpenLevel
<1>5. ButtonsTellTheTruth
  <2> SUFFICES ASSUME NEW w \in Walls
               PROVE  button[w] = getInteriorType(IsLevel(Beyond(level, w)), IsPaid(Beyond(level, w)))
    BY DEF ButtonsTellTheTruth
  <2>1. ~IsPaid(Beyond(First, w))
    BY <1>2, BeyondFacts DEF IsPaid
  <2> QED
    BY <2>1 DEF getInteriorType
<1>6. NobodyInTheShaft
  BY DEF NobodyInTheShaft, DoorCells
<1>7. PaidLevelsAreARow
  BY <1>2 DEF PaidLevelsAreARow, Levels
<1> QED
  BY <1>3, <1>4, <1>5, <1>6, <1>7 DEF IInv

LEMMA MoveToDoorKeeps ==
  ASSUME IInv, NEW c \in Characters, NEW r \in {Car} \cup Levels, MoveToDoor(c, r)
  PROVE  IInv'
<1> USE ElevatorAssumption DEF IInv, MoveToDoor
<1>1. TypeOK'
  BY SpentTyped DEF TypeOK
<1>2. OneOpenLevel'
  BY DEF OneOpenLevel
<1>3. /\ ButtonsTellTheTruth'
      /\ PaidLevelsAreARow'
  BY DEF ButtonsTellTheTruth, PaidLevelsAreARow, IsPaid, IsLevel
<1>4. r = Car \/ r = level
  BY DEF OneOpenLevel
<1>5. \A d \in Characters : stands[d] = Away
  BY <1>4 DEF isDoorOccupied, DoorCells, TypeOK, OneOpenLevel, NobodyInTheShaft
<1>6. stands'[c] \in {Car, level} /\ \A d \in Characters \ {c} : stands'[d] = Away
  BY <1>4, <1>5 DEF TypeOK
<1>7. NobodyInTheShaft'
  BY <1>6 DEF NobodyInTheShaft, DoorCells, TypeOK
<1> QED
  BY <1>1, <1>2, <1>3, <1>7

LEMMA MoveToFloorKeeps ==
  ASSUME IInv, NEW c \in Characters, MoveToFloor(c)
  PROVE  IInv'
<1> USE ElevatorAssumption DEF IInv, MoveToFloor
<1>1. TypeOK'
  BY SpentTyped DEF TypeOK
<1>2. OneOpenLevel' /\ ButtonsTellTheTruth' /\ PaidLevelsAreARow'
  BY DEF OneOpenLevel, ButtonsTellTheTruth, PaidLevelsAreARow, IsPaid, IsLevel
<1>3. \A d \in Characters : stands'[d] \in {stands[d], Away}
  BY DEF TypeOK
<1>4. NobodyInTheShaft'
  <2>1. \A d \in Characters : DoorCells(d)' \in {{}, DoorCells(d)}
    BY <1>3 DEF DoorCells
  <2> QED
    BY <1>3, <2>1 DEF NobodyInTheShaft
<1> QED
  BY <1>1, <1>2, <1>4

LEMMA PayKeeps ==
  ASSUME IInv, NEW p \in Players, NEW c \in Characters, NEW w \in Walls, Pay(p, c, w)
  PROVE  IInv'
<1> DEFINE next == Beyond(level, w)
<1> USE ElevatorAssumption, ExteriorFacts DEF IInv, Pay, Pressed
<1>1. /\ next \in Levels /\ level \in Levels /\ next # level
      /\ next = level + 1 \/ next = level - 1
  BY BeyondFacts DEF TypeOK
<1>2. \A l \in Levels : outer'[l] = IF l = next THEN "CLOSED_CALL_BUTTON"
                                    ELSE IF l = level THEN "OPEN_KEYED" ELSE outer[l]
  BY <1>1 DEF TypeOK
<1>3. \A l : IsPaid(l)' <=> l = next \/ IsPaid(l)
  BY <1>1, <1>2 DEF IsPaid, IsLevel, isKeyed, OneOpenLevel
<1>4. TypeOK'
  <2>1. outer' \in [Levels -> Outer]
    BY <1>1 DEF TypeOK, Outer
  <2>2. button' \in [Walls -> Buttons]
    BY DEF BoughtButtons, getInteriorType, Buttons
  <2>3. held' \in [Players -> Nat]
    BY DEF TypeOK
  <2> QED
    BY <1>1, <2>1, <2>2, <2>3, SpentTyped DEF TypeOK
<1>5. OneOpenLevel'
  BY <1>1, <1>2 DEF OneOpenLevel, TypeOK
<1>6. ButtonsTellTheTruth'
  <2> SUFFICES ASSUME NEW e \in Walls
               PROVE  button'[e] = getInteriorType(IsLevel(Beyond(level, e)), IsPaid(Beyond(level, e))')
    BY DEF ButtonsTellTheTruth, IsLevel
  <2>1. button'[e] = getInteriorType(IsLevel(Beyond(level, e)), e = w \/ IsPaid(Beyond(level, e)))
    BY DEF BoughtButtons
  <2>2. Beyond(level, e) = next <=> e = w
    BY <1>1 DEF Beyond, Walls, Levels
  <2>3. IsPaid(Beyond(level, e))' <=> e = w \/ IsPaid(Beyond(level, e))
    BY <1>3, <2>2
  <2> QED
    BY <2>1, <2>3 DEF getInteriorType
<1>7. NobodyInTheShaft'
  BY <1>1 DEF NobodyInTheShaft, DoorCells, TypeOK, OneOpenLevel
<1>8. PaidLevelsAreARow'
  <2> SUFFICES ASSUME NEW l \in Levels, NEW m \in Levels, IsPaid(l)', IsPaid(m)', NEW k \in l .. m
               PROVE  IsPaid(k)'
    BY DEF PaidLevelsAreARow
  <2>1. IsPaid(level)
    BY <1>1 DEF OneOpenLevel, IsPaid, IsLevel, isKeyed
  <2>2. k \in Levels
    BY DEF Levels
  <2>3. CASE l # next /\ m # next
    BY <2>3, <1>3 DEF PaidLevelsAreARow
  <2>4. CASE l = next
    BY <2>1, <2>2, <2>4, <1>1, <1>3 DEF PaidLevelsAreARow, Levels
  <2>5. CASE m = next
    BY <2>1, <2>2, <2>5, <1>1, <1>3 DEF PaidLevelsAreARow, Levels
  <2> QED
    BY <2>3, <2>4, <2>5
<1> QED
  BY <1>4, <1>5, <1>6, <1>7, <1>8

LEMMA MoveCarKeeps ==
  ASSUME IInv, NEW c \in Characters, NEW w \in Walls, MoveCar(c, w)
  PROVE  IInv'
<1> DEFINE next == Beyond(level, w)
<1> USE ElevatorAssumption DEF IInv
<1>1. /\ next \in Levels /\ level \in Levels /\ next # level
      /\ \A e \in Walls : e # w => Beyond(next, e) = level
      /\ Beyond(next, w) \notin {level, next}
  BY BeyondFacts DEF TypeOK, MoveCar, Pressed
<1>2. /\ level' = next /\ linked' = linked \cup {next}
      /\ UNCHANGED <<stands, held>>
      /\ IsPaid(next) /\ ~isDoorOccupied(Car) /\ takeAction(c)
  BY DEF MoveCar, Pressed
<1>3. /\ outer' = [outer EXCEPT ![next] = "OPEN_KEYED", ![level] = "CLOSED_CALL_BUTTON"]
      /\ button' = ArrivalButtons(w)
  BY ExteriorFacts DEF MoveCar
<1>4. \A l \in Levels : outer'[l] = IF l = level THEN "CLOSED_CALL_BUTTON"
                                    ELSE IF l = next THEN "OPEN_KEYED" ELSE outer[l]
  BY <1>1, <1>3 DEF TypeOK
<1>5. \A l : IsPaid(l)' <=> IsPaid(l)
  BY <1>1, <1>2, <1>4 DEF IsPaid, IsLevel, isKeyed, OneOpenLevel
<1>6. IsPaid(level)
  BY <1>1 DEF OneOpenLevel, IsPaid, IsLevel, isKeyed
<1>7. TypeOK'
  <2>1. outer' \in [Levels -> Outer]
    BY <1>1, <1>3 DEF TypeOK, Outer
  <2>2. button' \in [Walls -> Buttons]
    BY <1>3 DEF ArrivalButtons, getInteriorType, Buttons
  <2>3. /\ spent' \in [Characters -> [actions : Nat, moves : Nat]]
        /\ \A d \in Characters : spent'[d].actions <= Actions[d] /\ spent'[d].moves <= Moves[d]
    BY <1>2, SpentTyped
  <2> QED
    BY <1>1, <1>2, <2>1, <2>2, <2>3 DEF TypeOK
<1>8. OneOpenLevel'
  BY <1>1, <1>2, <1>4 DEF OneOpenLevel
<1>9. ButtonsTellTheTruth'
  <2> SUFFICES ASSUME NEW e \in Walls, NEW k, k = Beyond(next, e)
               PROVE  button'[e] = getInteriorType(IsLevel(k), IsPaid(k)')
    BY <1>2 DEF ButtonsTellTheTruth, IsLevel, IsPaid, Beyond
  <2>1. button'[e] = getInteriorType(e # w \/ IsLevel(Beyond(next, w)), e # w \/ IsPaid(Beyond(next, w)))
    BY <1>3 DEF ArrivalButtons
  <2>2. CASE e = w
    BY <2>1, <2>2, <1>5 DEF getInteriorType
  <2>3. CASE e # w
    BY <2>1, <2>3, <1>1, <1>5, <1>6 DEF getInteriorType, IsLevel
  <2> QED
    BY <2>2, <2>3
<1>10. NobodyInTheShaft'
  <2>1. \A d \in Characters : stands'[d] = Away
    BY <1>2, FreeDoorway
  <2> QED
    BY <2>1 DEF NobodyInTheShaft, DoorCells
<1>11. PaidLevelsAreARow'
  BY <1>5 DEF PaidLevelsAreARow
<1> QED
  BY <1>7, <1>8, <1>9, <1>10, <1>11

LEMMA StartTurnKeeps ==
  ASSUME IInv, NEW side \in Sides, StartTurn(side)
  PROVE  IInv'
<1> USE ElevatorAssumption DEF IInv, StartTurn
<1>1. TypeOK'
  BY DEF TypeOK
<1>2. OneOpenLevel' /\ ButtonsTellTheTruth' /\ NobodyInTheShaft' /\ PaidLevelsAreARow'
  BY DEF OneOpenLevel, ButtonsTellTheTruth, NobodyInTheShaft, PaidLevelsAreARow, IsPaid, IsLevel, DoorCells
<1> QED
  BY <1>1, <1>2

LEMMA NextKeeps == IInv /\ [Next]_vars => IInv'
<1> SUFFICES ASSUME IInv, [Next]_vars PROVE IInv'
  OBVIOUS
<1>1. CASE Next
  BY <1>1, MoveToDoorKeeps, MoveToFloorKeeps, PayKeeps, MoveCarKeeps, StartTurnKeeps DEF Next
<1>2. CASE UNCHANGED vars
  <2>1. TypeOK' /\ OneOpenLevel'
    BY <1>2 DEF vars, IInv, TypeOK, OneOpenLevel
  <2>2. ButtonsTellTheTruth' /\ PaidLevelsAreARow'
    BY <1>2 DEF vars, IInv, ButtonsTellTheTruth, PaidLevelsAreARow, IsPaid, IsLevel
  <2>3. NobodyInTheShaft'
    BY <1>2 DEF vars, IInv, NobodyInTheShaft, DoorCells
  <2> QED
    BY <2>1, <2>2, <2>3 DEF IInv
<1> QED
  BY <1>1, <1>2

-----------------------------------------------------------------------------
(* Theorems.                                                               *)

THEOREM Invariant == Spec => []IInv
  BY InitInvariant, NextKeeps, PTL DEF Spec

\* The doors, buttons, positions, keys and budgets stay of their types: no key
\* and no action is spent that is not there.
THEOREM TypeCorrect == Spec => []TypeOK
  BY Invariant, PTL DEF IInv

\* One level's door is open, and the car is there.
THEOREM CarIsAtTheOpenLevel == Spec => []OneOpenLevel
  BY Invariant, PTL DEF IInv

\* The buttons, drawn anew by each press from what it could see, are right for
\* both neighbouring levels.
THEOREM ButtonsAreRight == Spec => []ButtonsTellTheTruth
  BY Invariant, PTL DEF IInv

\* Nobody is ever left in the shaft.
THEOREM ShaftStaysEmpty == Spec => []NobodyInTheShaft
  BY Invariant, PTL DEF IInv

\* Levels are bought without a gap.
THEOREM LevelsAreBoughtInARow == Spec => []PaidLevelsAreARow
  BY Invariant, PTL DEF IInv

\* Rides and purchases in any order keep the shaft safe and its signs true.
THEOREM ShaftStaysSafe == Spec => []ShaftIsSafe
<1>1. IInv => ShaftIsSafe
  BY DEF IInv, ShaftIsSafe
<1> QED BY <1>1, Invariant, PTL

-----------------------------------------------------------------------------
(* The elevator implements Lift.                                           *)

LEMMA InitRides == Init => Ride!Init
<1> SUFFICES ASSUME Init PROVE Ride!Init
  OBVIOUS
<1>1. \A l \in Levels : IsPaid(l) <=> l = First
  BY ElevatorAssumption, ExteriorFacts DEF Init, IsPaid, IsLevel, isKeyed
<1> QED
  BY <1>1, ElevatorAssumption DEF Init, Ride!Init

\* A press of a button is a step of the lift.
LEMMA PressRides ==
  ASSUME IInv, NEW c \in Characters, NEW w \in Walls,
         MoveCar(c, w) \/ \E p \in Players : Pay(p, c, w)
  PROVE  Ride!Next
<1> DEFINE next == Beyond(level, w)
<1> USE ElevatorAssumption, ExteriorFacts DEF IInv, Pressed
<1>1. next \in Levels /\ level \in Levels /\ next # level
  BY BeyondFacts DEF TypeOK, MoveCar, Pay
<1>2. next \in Ride!Beside(level)
  BY <1>1 DEF Ride!Beside, Beyond, Levels
<1>3. CASE MoveCar(c, w)
  <2>1. \A l \in Levels : IsPaid(l)' <=> IsPaid(l)
    BY <1>1, <1>3 DEF MoveCar, TypeOK, IsPaid, IsLevel, isKeyed, OneOpenLevel
  <2>2. Ride!Travel
    BY <1>1, <1>2, <1>3, <2>1 DEF MoveCar, Ride!Travel
  <2> QED
    BY <2>2 DEF Ride!Next
<1>4. CASE \E p \in Players : Pay(p, c, w)
  <2> PICK p \in Players : Pay(p, c, w)
    BY <1>4
  <2>1. \A l \in Levels : IsPaid(l)' <=> l = next \/ IsPaid(l)
    BY <1>1 DEF Pay, TypeOK, IsPaid, IsLevel, isKeyed, OneOpenLevel
  <2>2. Ride!Buy(next, p)
    BY <1>1, <2>1 DEF Pay, Ride!Buy
  <2> QED
    BY <1>1, <1>2, <2>2 DEF Ride!Next
<1> QED
  BY <1>3, <1>4

LEMMA NextRides == IInv /\ [Next]_vars => [Ride!Next]_<<level, {l \in Levels : IsPaid(l)}, held>>
<1> SUFFICES ASSUME IInv, [Next]_vars, ~ \E c \in Characters, w \in Walls :
                      MoveCar(c, w) \/ \E p \in Players : Pay(p, c, w)
             PROVE  UNCHANGED <<level, {l \in Levels : IsPaid(l)}, held>>
  BY PressRides
<1>1. UNCHANGED <<outer, level, held>>
  BY DEF Next, MoveToDoor, MoveToFloor, StartTurn, vars
<1> QED
  BY <1>1 DEF IsPaid, IsLevel

\* Riding, standing in doorways and starting turns aside, an elevator is a lift:
\* it moves between paid neighbouring levels and sells each level for one key.
THEOREM ElevatorImplementsLift == Spec => RunsALift
  BY InitRides, NextRides, Invariant, PTL DEF Spec, RunsALift, Ride!Spec
==============================================================================
