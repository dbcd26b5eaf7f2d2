---------------------------- MODULE MCMatchTurns ----------------------------
(* Three accounts, three builder seats and one NPC, for TLC.  As in the    *)
(* program only the first builder's character gets a role with moves.      *)
EXTENDS MatchTurns, TLC

CONSTANTS npc

MCNpcs == {npc}
MCCapacity == 1 :> 2 @@ 2 :> 0 @@ 3 :> 0 @@ npc :> 1
=============================================================================
