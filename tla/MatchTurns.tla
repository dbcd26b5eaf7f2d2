----------------------------- MODULE MatchTurns -----------------------------
(***************************************************************************)
(* A dungeon match between its requests: who sits in which seat, whose     *)
(* turn it is (Turner), and the move budgets of the characters.            *)
(*                                                                         *)
(* The server has one thread and its handlers are synchronous, so a        *)
(* request loads, changes and saves the match in one step; a request that  *)
(* fails is not saved.  Any account may send any request at any time and   *)
(* may order any character about.  Where a character goes, and whether the *)
(* dungeon lets it, is a choice here; so is what the NPCs decide to do.    *)
(***************************************************************************)
EXTENDS Integers, FiniteSets

CONSTANTS
  Accounts,     \* who may send requests
  Host,         \* the account that created the match
  SeatCount,    \* MATCH_BUILDER_COUNT
  Npcs,         \* the characters of the dungeon
  Capacity,     \* the moves each character's role grants per turn
  MaxTurn       \* bound of the model: no turn ends from this one on

Nobody == "nobody"
Seats == 1 .. SeatCount
Characters == Seats \cup Npcs   \* a builder's character is named by the seat

ASSUME MatchAssumption ==
  /\ Host \in Accounts /\ Nobody \notin Accounts
  /\ SeatCount \in Nat \ {0} /\ Seats \cap Npcs = {}
  /\ Capacity \in [Characters -> Nat]
  /\ MaxTurn \in Nat

VARIABLES
  titan,     \* account in the titan's seat, or Nobody
  builders,  \* account in each builder's seat, or Nobody
  turner,    \* its state and turn number
  moves      \* moves each character has spent of its budget

vars == <<titan, builders, turner, moves>>

Pregame == {"PREGAME_BUILDER_ONLY", "PREGAME_TITAN_ONLY", "PREGAME_BOTH"}
Playing == {"BUILDER", "TITAN", "BUILDER_ONLY", "TITAN_ONLY"}
Completed == {"POSTGAME_BUILDERS_LEFT", "POSTGAME_TITANS_LEFT", "GAME_ABORTED"}
TurnStates == Pregame \cup Playing \cup Completed

SeatsOf(a) == {s \in Seats : builders[s] = a}
IsSeated(a) == titan = a \/ SeatsOf(a) # {}
LowestOf(S) == CHOOSE s \in S : \A t \in S : s <= t
IsStarted == turner.state \notin Pregame

\* A transition table: the turner in state s goes to table[s], and stays where
\* it is (INVALID_TURN_STATE, which every caller ignores) in other states.
Follow(table) ==
  IF turner.state \in DOMAIN table
    THEN [turner EXCEPT !.state = table[turner.state]] ELSE turner

addBuilder ==
  Follow([PREGAME_TITAN_ONLY |-> "PREGAME_BOTH", PREGAME_BUILDER_ONLY |-> "PREGAME_BOTH",
          TITAN_ONLY |-> "TITAN", BUILDER_ONLY |-> "BUILDER"])

addTitan ==
  Follow([PREGAME_BUILDER_ONLY |-> "PREGAME_BOTH",
          TITAN_ONLY |-> "GAME_ABORTED", BUILDER_ONLY |-> "BUILDER"])

removeTitan ==
  Follow([PREGAME_BOTH |-> "PREGAME_BUILDER_ONLY", PREGAME_TITAN_ONLY |-> "GAME_ABORTED",
          TITAN_ONLY |-> "POSTGAME_TITANS_LEFT"])

\* (mutant) every builder that leaves is taken for the last one.
removeLastBuilder(leaver, remaining) ==
  Follow([PREGAME_BOTH |-> "PREGAME_TITAN_ONLY", PREGAME_BUILDER_ONLY |-> "GAME_ABORTED",
          BUILDER_ONLY |-> "POSTGAME_BUILDERS_LEFT"])

\* The leaver's seat is already empty; a second seat of the leaver is not seen.
removeBuilder(leaver, remaining) ==
  IF \E s \in Seats : remaining[s] \notin {Nobody, leaver} THEN turner
  ELSE Follow([PREGAME_BOTH |-> "PREGAME_TITAN_ONLY", PREGAME_BUILDER_ONLY |-> "GAME_ABORTED",
               BUILDER_ONLY |-> "POSTGAME_BUILDERS_LEFT"])

-----------------------------------------------------------------------------
(* Turns.  w is the match in the hands of a request: turner and moves.     *)

Loaded == [turner |-> turner, moves |-> moves]
Fresh(w, cs) == [w EXCEPT !.moves = [c \in Characters |-> IF c \in cs THEN 0 ELSE w.moves[c]]]
Advance(w, state, turns) ==
  [w EXCEPT !.turner = [state |-> state, turn |-> w.turner.turn + turns]]

\* (mutant) the titan's solo round does not number the builders' turn.
advanceTitanOnce(w) ==
  CASE w.turner.state = "TITAN" -> Fresh(Advance(w, "BUILDER", 1), Seats)
    [] w.turner.state = "TITAN_ONLY" -> Fresh(Advance(w, "TITAN_ONLY", 1), Seats)
    [] OTHER -> w

advanceTitanTurnState(w) ==
  CASE w.turner.state = "TITAN" -> Fresh(Advance(w, "BUILDER", 1), Seats)
    [] w.turner.state = "TITAN_ONLY" -> Fresh(Advance(w, "TITAN_ONLY", 2), Seats)
    [] OTHER -> w

\* (mutant) the builders' budgets are refilled before the state is looked at.
advanceBuilderFresh(w) ==
  CASE w.turner.state = "BUILDER" -> Fresh(Advance(w, "TITAN", 1), Seats)
    [] w.turner.state = "BUILDER_ONLY" -> Fresh(Advance(w, "BUILDER_ONLY", 2), Seats)
    [] OTHER -> Fresh(w, Seats)

advanceBuilderTurnState(w) ==
  CASE w.turner.state = "BUILDER" -> Advance(w, "TITAN", 1)
    [] w.turner.state = "BUILDER_ONLY" -> Fresh(Advance(w, "BUILDER_ONLY", 2), Seats)
    [] OTHER -> w

\* The titan's seat is looked at first; whether the turn was theirs to end is not.
advanceTurnState(a, w) ==
  IF titan = a THEN advanceTitanTurnState(w) ELSE advanceBuilderTurnState(w)

TitanTurnEnded(a, w) == titan = a \/ w.turner.state = "BUILDER_ONLY"

\* The matches an NPC tick may leave: some NPCs spend some of what they have left.
Spendings(w) ==
  {spent \in [Npcs -> UNION {0 .. Capacity[c] : c \in Npcs}] :
     \A c \in Npcs : spent[c] \in w.moves[c] .. Capacity[c]}
tickNpcConducts(w) ==
  {[w EXCEPT !.moves = [c \in Characters |-> IF c \in Npcs THEN spent[c] ELSE w.moves[c]]] :
     spent \in IF w.turner.state \in Pregame THEN {[c \in Npcs |-> w.moves[c]]}
                                              ELSE Spendings(w)}

runNpcTurn(w) == tickNpcConducts(Fresh(w, Npcs))

endTurn(a, w) ==
  IF TitanTurnEnded(a, w) THEN runNpcTurn(advanceTurnState(a, w))
                          ELSE {advanceTurnState(a, w)}

\* takeMove: a character out of moves makes the activation fail.
takeMove(c, w) ==
  IF w.moves[c] < Capacity[c] THEN {[w EXCEPT !.moves[c] = @ + 1]} ELSE {}

ActionKinds == {"MOVE", "END_TURN", "OTHER"}   \* OTHER: costs no move

\* The END_TURN action advances the turner but runs no NPC turn.
Activated(a, c, kind, w) ==
  CASE kind = "MOVE" -> takeMove(c, w)
    [] kind = "END_TURN" -> {advanceTurnState(a, w)}
    [] kind = "OTHER" -> {w}

-----------------------------------------------------------------------------
(* The requests.                                                           *)

\* createMatch: the generator calls setupSingleBuilder.
Init ==
  /\ titan = Nobody
  /\ builders = [s \in Seats |-> IF s = 1 THEN Host ELSE Nobody]
  /\ turner = [state |-> "PREGAME_BUILDER_ONLY", turn |-> 0]
  /\ moves = [c \in Characters |-> 0]

JoinAsTitan(a) ==
  /\ titan = Nobody
  /\ titan' = a /\ turner' = addTitan
  /\ UNCHANGED builders

JoinAsBuilder(a) ==
  /\ titan # Nobody /\ SeatsOf(Nobody) # {}
  /\ builders' = [builders EXCEPT ![LowestOf(SeatsOf(Nobody))] = a]
  /\ turner' = addBuilder
  /\ UNCHANGED titan

\* An account may take any number of seats.
Join(a) == (JoinAsTitan(a) \/ JoinAsBuilder(a)) /\ UNCHANGED moves

LeaveAsTitan(a) ==
  /\ titan = a
  /\ titan' = Nobody /\ turner' = removeTitan
  /\ UNCHANGED builders

LeaveAsBuilder(a) ==
  /\ titan # a /\ SeatsOf(a) # {}
  /\ builders' = [builders EXCEPT ![LowestOf(SeatsOf(a))] = Nobody]
  /\ turner' = removeBuilder(a, builders')
  /\ UNCHANGED titan

Leave(a) == (LeaveAsTitan(a) \/ LeaveAsBuilder(a)) /\ UNCHANGED moves

Start ==
  /\ ~IsStarted
  /\ turner' = [state |-> CASE turner.state = "PREGAME_TITAN_ONLY" -> "TITAN_ONLY"
                            [] turner.state = "PREGAME_BUILDER_ONLY" -> "BUILDER_ONLY"
                            [] OTHER -> "BUILDER",
                turn |-> 1]
  /\ UNCHANGED <<titan, builders, moves>>

Save(w) == turner' = w.turner /\ moves' = w.moves /\ UNCHANGED <<titan, builders>>

EndTurn(a) ==
  /\ IsSeated(a) /\ turner.turn < MaxTurn
  /\ \E w \in endTurn(a, Loaded) : Save(w)

\* performCharacterAction; a forced turn end comes first, and is lost when the
\* action then fails.
Perform(a, c, kind, forced) ==
  /\ IsSeated(a) /\ IsStarted /\ turner.turn < MaxTurn
  /\ \E u \in IF forced THEN endTurn(a, Loaded) ELSE {Loaded} :
       \E v \in Activated(a, c, kind, u) :
         \E w \in tickNpcConducts(v) : Save(w)

Next ==
  \/ \E a \in Accounts : Join(a) \/ Leave(a) \/ EndTurn(a)
  \/ Start
  \/ \E a \in Accounts, c \in Characters, kind \in ActionKinds, forced \in BOOLEAN :
       Perform(a, c, kind, forced)

Spec == Init /\ [][Next]_vars

-----------------------------------------------------------------------------
(* Properties.                                                             *)

\* Every budget counter stays between zero and what the character's role grants,
\* whoever orders the character about and however turns and NPC ticks interleave.
TypeOK ==
  /\ titan \in Accounts \cup {Nobody}
  /\ builders \in [Seats -> Accounts \cup {Nobody}]
  /\ turner \in [state : TurnStates, turn : Nat]
  /\ moves \in [Characters -> Nat]
  /\ \A c \in Characters : moves[c] <= Capacity[c]

HasTitan == titan # Nobody
HasBuilder == \E s \in Seats : builders[s] # Nobody

\* The turner, which learns of the seats only through add and remove calls whose
\* failures nobody looks at, agrees with them in the lobby and in a solo game, but
\* for one case: a state named after the titan alone leaves room for one builder
\* account, one that left a seat and keeps another.
SoloStatesMatchSeats ==
  /\ turner.state = "PREGAME_BOTH" => HasTitan /\ HasBuilder
  /\ turner.state \in {"PREGAME_TITAN_ONLY", "TITAN_ONLY"} =>
       HasTitan /\ \A s, t \in Seats : Nobody \in {builders[s], builders[t]} \/ builders[s] = builders[t]
  /\ turner.state \in {"PREGAME_BUILDER_ONLY", "BUILDER_ONLY"} => HasBuilder /\ ~HasTitan

\* The turner takes a builder's leaving for the end of its side only when nobody
\* else sits there.  "If the game still has builders, don't change the state" says
\* the code (Turner.cpp:67), which does not count the leaver's other seats.
OthersAreSeen ==
  \A s \in Seats :
    builders[s] # Nobody /\ builders'[s] = Nobody /\ turner' # turner =>
      \A t \in Seats : builders'[t] \in {Nobody, builders[s]}

\* A turn whose side has left the match stands: no request of the other side, no
\* action and no forced turn end moves the turner on until somebody sits there.
AwaitsItsSide ==
  \/ turner.state = "TITAN" /\ ~HasTitan
  \/ turner.state = "BUILDER" /\ ~HasBuilder
  => turner' = turner
AbandonedTurnStands == [][AwaitsItsSide]_vars

\* The turner follows the seats, up to the other seats of an account that left one,
\* and waits for them: no step moves for a side that left (Turner.cpp:66-92).
TurnerFollowsTheSeats == [][SoloStatesMatchSeats' /\ OthersAreSeen /\ AwaitsItsSide]_vars

\* A builder's character gets moves back only when a turn ends: ending a turn out
\* of turn, leaving and coming back, or an NPC turn never refills its budget.
MovesComeBackWithTheTurn ==
  [][(\E s \in Seats : moves'[s] < moves[s]) => turner'.turn > turner.turn]_vars

Phase ==
  CASE turner.state \in Pregame -> "lobby"
    [] turner.state \in Playing -> "play"
    [] turner.state \in Completed -> "over"
Mover == IF turner.state \in {"TITAN", "TITAN_ONLY"} THEN "TITAN" ELSE "BUILDER"
Alone == turner.state \in {"TITAN_ONLY", "BUILDER_ONLY"}

Order == INSTANCE TurnOrder WITH
  phase <- Phase, mover <- Mover, alone <- Alone, turn <- turner.turn

\* The turner keeps the order of turns TurnOrder promises, in which a request may
\* end a solo round at most twice (a forced turn end and an END_TURN action).
KeepsTurnOrder == Order!Spec

=============================================================================
