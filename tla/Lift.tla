-------------------------------- MODULE Lift ---------------------------------
(***************************************************************************)
(* What an elevator promises: it stops at levels that are paid for and     *)
(* moves by one level at a time; a level beside it is bought with one key, *)
(* and nothing that was bought is lost.                                    *)
(***************************************************************************)
EXTENDS Naturals

CONSTANTS Levels, Players

VARIABLES
  level,  \* where it is
  paid,   \* the levels it may stop at
  held    \* keys of each player

Beside(l) == IF l = 0 THEN {1} ELSE {l - 1, l + 1}

Init == level \in Levels /\ paid = {level} /\ held \in [Players -> Nat]

Travel ==
  /\ level' \in Beside(level) \cap paid
  /\ UNCHANGED <<paid, held>>

Buy(l, p) ==
  /\ l \notin paid
  /\ held[p] > 0
  /\ paid' = paid \cup {l}
  /\ held' = [held EXCEPT ![p] = @ - 1]
  /\ UNCHANGED level

Next == Travel \/ \E l \in Beside(level) \cap Levels, p \in Players : Buy(l, p)
Spec == Init /\ [][Next]_<<level, paid, held>>
==============================================================================
