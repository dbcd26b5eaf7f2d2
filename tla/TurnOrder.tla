------------------------------ MODULE TurnOrder ------------------------------
(***************************************************************************)
(* What the turner of a dungeon match promises its players, without the    *)
(* seats: the titan's and the builders' turns alternate and are numbered   *)
(* one by one; a side that plays alone ends both turns of the round at     *)
(* once; the other side may come in at any moment of a solo game; once     *)
(* both sides play they keep playing.                                      *)
(***************************************************************************)
EXTENDS Naturals

VARIABLES
  phase,   \* "lobby", "play" or "over"
  mover,   \* the side to move in "play"
  alone,   \* in "play": the other side has not come in yet
  turn     \* number of the current turn

vars == <<phase, mover, alone, turn>>

Sides == {"TITAN", "BUILDER"}
Other(side) == IF side = "TITAN" THEN "BUILDER" ELSE "TITAN"

Init == phase = "lobby" /\ mover = "BUILDER" /\ ~alone /\ turn = 0

Start ==
  /\ phase = "lobby" /\ phase' = "play"
  /\ \/ ~alone' /\ mover' = "BUILDER"
     \/ alone' /\ mover' \in Sides
  /\ turn' = 1

HandOver ==
  /\ phase = "play" /\ ~alone
  /\ mover' = Other(mover) /\ turn' = turn + 1
  /\ UNCHANGED <<phase, alone>>

\* One request may end the round twice over.
SoloRound ==
  /\ phase = "play" /\ alone
  /\ turn' \in {turn + 2, turn + 4}
  /\ UNCHANGED <<phase, mover, alone>>

OpponentComesIn ==
  /\ phase = "play" /\ alone
  /\ ~alone'
  /\ UNCHANGED <<phase, mover, turn>>

Quit ==
  /\ phase = "lobby" \/ (phase = "play" /\ alone)
  /\ phase' = "over" /\ mover' = "BUILDER" /\ ~alone'
  /\ UNCHANGED turn

Next == Start \/ HandOver \/ SoloRound \/ OpponentComesIn \/ Quit
Spec == Init /\ [][Next]_vars
=============================================================================
