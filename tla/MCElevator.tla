----------------------------- MODULE MCElevator ------------------------------
(***************************************************************************)
(* Values of the constants of Elevator for TLC.                            *)
(***************************************************************************)
EXTENDS Elevator

CONSTANTS p1, p2, hero, rider, guest

TwoEach == [p \in Players |-> 2]
OnePerTurn == [c \in Characters |-> 1]
EachAlone == {{c} : c \in Characters}
==============================================================================
