---------------------------- MODULE MCTurnEngine ----------------------------
(***************************************************************************)
(* Small instances of TurnEngine.  The costs keep the shape of             *)
(* HiderAction.enum: PAY_GOAL costs the whole cap, the other mode less,    *)
(* and a tick regenerates a part of it.                                    *)
(***************************************************************************)
EXTENDS TurnEngine

MCApCost == [m \in Modes |-> IF m = PayGoal THEN ApCap ELSE 1]
=============================================================================
