------------------------------ MODULE MCNpcPlay ------------------------------
(* A person in slot 0 and an NPC in slot 1, or two NPCs beside a person.    *)
EXTENDS NpcPlay, TLC

OneNpc == 0 :> "ann" @@ 1 :> "npc_1"
TwoNpcs == 0 :> "ann" @@ 1 :> "npc_1" @@ 2 :> "npc_2"
=============================================================================
