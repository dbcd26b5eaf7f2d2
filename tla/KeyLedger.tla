------------------------------ MODULE KeyLedger ------------------------------
(***************************************************************************)
(* What the key doors promise: a key is held by a player or sits in the    *)
(* lock of a wall, and it changes hands one at a time.                     *)
(***************************************************************************)
EXTENDS Naturals

VARIABLES
  held,      \* how many keys each player has
  keyed      \* the walls with a key in the lock

\* A key leaves a player for a lock that had none.
Turn(p, wall) ==
  /\ held[p] > 0 /\ held' = [held EXCEPT ![p] = @ - 1]
  /\ wall \notin keyed
  /\ keyed' = keyed \cup {wall}

\* A key goes to a player, whoever put it there.
Return(p, wall) ==
  /\ wall \in keyed
  /\ keyed' = keyed \ {wall}
  /\ held' = [held EXCEPT ![p] = @ + 1]

Init == held \in [DOMAIN held -> Nat]
Next ==
  \E p \in DOMAIN held : \/ \E wall \in keyed' \ keyed : Turn(p, wall)
                         \/ \E wall \in keyed \ keyed' : Return(p, wall)
vars == <<held, keyed>>
Spec == Init /\ [][Next]_vars
=============================================================================
