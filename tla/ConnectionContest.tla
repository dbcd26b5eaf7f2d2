-------------------------- MODULE ConnectionContest --------------------------
(***************************************************************************)
(* What the connection rules of a hider-seeker match promise, without      *)
(* servers, moves or ticks.  Each side has a budget that can only shrink:  *)
(* the hiders' connections (in the pool or in use) and the seeker's tokens *)
(* (held or invested in an open connection).  Only a probe shrinks them: a *)
(* hit destroys hider connections, a miss costs the seeker its wager, and  *)
(* the seeker never loses its last token, because it can only wager while  *)
(* it keeps a connection open.  The match ends once; the seeker wins only  *)
(* when the hiders have nothing left.                                      *)
(***************************************************************************)
EXTENDS Naturals

CONSTANTS HiderBudget, SeekerBudget

VARIABLES over, victor, hiderBudget, seekerBudget

contestVars == <<over, victor, hiderBudget, seekerBudget>>

ContestInit ==
  /\ over = FALSE /\ victor = "NONE"
  /\ hiderBudget = HiderBudget
  /\ seekerBudget = SeekerBudget

\* A probe with a wager of hit + lost tokens.
Strike(hit, lost) ==
  /\ ~ over /\ hit + lost > 0
  /\ hit <= hiderBudget /\ lost < seekerBudget
  /\ hiderBudget' = hiderBudget - hit
  /\ seekerBudget' = seekerBudget - lost
  /\ UNCHANGED <<over, victor>>

SeekerWins ==
  /\ ~ over /\ hiderBudget = 0
  /\ over' = TRUE /\ victor' = "SEEKER"
  /\ UNCHANGED <<hiderBudget, seekerBudget>>

\* The hiders reach their reward target, which this specification leaves open.
HidersWin ==
  /\ ~ over
  /\ over' = TRUE /\ victor' = "HIDERS"
  /\ UNCHANGED <<hiderBudget, seekerBudget>>

ContestNext ==
  \/ \E hit \in 0 .. HiderBudget, lost \in 0 .. SeekerBudget : Strike(hit, lost)
  \/ SeekerWins
  \/ HidersWin

ContestSpec == ContestInit /\ [][ContestNext]_contestVars
=============================================================================
