--------------------------- MODULE MCMatchService ---------------------------
(* Two server threads, two people and one NPC hider, for TLC.              *)
EXTENDS MatchService, TLC

CONSTANTS w1, w2

MCNpcAccount == [s \in {1} |-> "npc_1"]
MCWorkers == {w1, w2}
Threads == Permutations(MCWorkers)
=============================================================================
