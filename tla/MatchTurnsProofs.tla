-------------------------- MODULE MatchTurnsProofs --------------------------
(***************************************************************************)
(* Theorems about seats, turns and budgets of a dungeon match, for any     *)
(* accounts, any number of seats and NPCs, any budgets, any bound MaxTurn. *)
(***************************************************************************)
EXTENDS MatchTurns, WellFoundedInduction, TLAPS

USE MatchAssumption

Budgets == {m \in [Characters -> Nat] : \A c \in Characters : m[c] <= Capacity[c]}
Turners == [state : TurnStates, turn : Nat]
Works == [turner : Turners, moves : Budgets]

LEMMA TypeParts ==
  TypeOK <=> /\ titan \in Accounts \cup {Nobody}
             /\ builders \in [Seats -> Accounts \cup {Nobody}]
             /\ turner \in Turners /\ moves \in Budgets
BY DEF TypeOK, Turners, Budgets

-----------------------------------------------------------------------------
(* The turner's transition tables, state by state.                         *)

LEMMA AddBuilder ==
  ASSUME turner \in Turners
  PROVE  /\ addBuilder \in Turners /\ addBuilder.turn = turner.turn
         /\ turner.state \in {"PREGAME_TITAN_ONLY", "PREGAME_BUILDER_ONLY"}
              => addBuilder.state = "PREGAME_BOTH"
         /\ turner.state = "TITAN_ONLY" => addBuilder.state = "TITAN"
         /\ turner.state = "BUILDER_ONLY" => addBuilder.state = "BUILDER"
         /\ turner.state \notin {"PREGAME_TITAN_ONLY", "PREGAME_BUILDER_ONLY",
                                 "TITAN_ONLY", "BUILDER_ONLY"} => addBuilder = turner
BY DEF addBuilder, Follow, Turners, TurnStates, Pregame, Playing, Completed

LEMMA AddTitan ==
  ASSUME turner \in Turners
  PROVE  /\ addTitan \in Turners /\ addTitan.turn = turner.turn
         /\ turner.state = "PREGAME_BUILDER_ONLY" => addTitan.state = "PREGAME_BOTH"
         /\ turner.state = "TITAN_ONLY" => addTitan.state = "GAME_ABORTED"
         /\ turner.state = "BUILDER_ONLY" => addTitan.state = "BUILDER"
         /\ turner.state \notin {"PREGAME_BUILDER_ONLY", "TITAN_ONLY", "BUILDER_ONLY"}
              => addTitan = turner
BY DEF addTitan, Follow, Turners, TurnStates, Pregame, Playing, Completed

LEMMA RemoveTitan ==
  ASSUME turner \in Turners
  PROVE  /\ removeTitan \in Turners /\ removeTitan.turn = turner.turn
         /\ turner.state = "PREGAME_BOTH" => removeTitan.state = "PREGAME_BUILDER_ONLY"
         /\ turner.state = "PREGAME_TITAN_ONLY" => removeTitan.state = "GAME_ABORTED"
         /\ turner.state = "TITAN_ONLY" => removeTitan.state = "POSTGAME_TITANS_LEFT"
         /\ turner.state \notin {"PREGAME_BOTH", "PREGAME_TITAN_ONLY", "TITAN_ONLY"}
              => removeTitan = turner
BY DEF removeTitan, Follow, Turners, TurnStates, Pregame, Playing, Completed

LEMMA RemoveBuilder ==
  ASSUME turner \in Turners, NEW a \in Accounts,
         NEW left \in [Seats -> Accounts \cup {Nobody}]
  PROVE  LET t == removeBuilder(a, left) IN
         /\ t \in Turners /\ t.turn = turner.turn
         /\ (\E s \in Seats : left[s] \notin {Nobody, a}) => t = turner
         /\ (\A s \in Seats : left[s] \in {Nobody, a}) =>
              /\ turner.state = "PREGAME_BOTH" => t.state = "PREGAME_TITAN_ONLY"
              /\ turner.state = "PREGAME_BUILDER_ONLY" => t.state = "GAME_ABORTED"
              /\ turner.state = "BUILDER_ONLY" => t.state = "POSTGAME_BUILDERS_LEFT"
         /\ turner.state \notin {"PREGAME_BOTH", "PREGAME_BUILDER_ONLY", "BUILDER_ONLY"}
              => t = turner
BY DEF removeBuilder, Follow, Turners, TurnStates, Pregame, Playing, Completed
-----------------------------------------------------------------------------
(* Turns.                                                                  *)

LEMMA FreshTyped ==
  ASSUME NEW w \in Works, NEW cs
  PROVE  Fresh(w, cs) \in Works /\ Fresh(w, cs).turner = w.turner
BY DEF Works, Fresh, Budgets, Turners

LEMMA AdvanceTyped ==
  ASSUME NEW w \in Works, NEW state \in TurnStates, NEW turns \in Nat
  PROVE  /\ Advance(w, state, turns) \in Works
         /\ Advance(w, state, turns).turner = [state |-> state, turn |-> w.turner.turn + turns]
BY DEF Works, Advance, Turners

\* What one end of turn does to the turner.
TitanAdvanced(p, q) ==
  /\ p.state = "TITAN" => q = [state |-> "BUILDER", turn |-> p.turn + 1]
  /\ p.state = "TITAN_ONLY" => q = [state |-> "TITAN_ONLY", turn |-> p.turn + 2]
  /\ p.state \notin {"TITAN", "TITAN_ONLY"} => q = p
BuilderAdvanced(p, q) ==
  /\ p.state = "BUILDER" => q = [state |-> "TITAN", turn |-> p.turn + 1]
  /\ p.state = "BUILDER_ONLY" => q = [state |-> "BUILDER_ONLY", turn |-> p.turn + 2]
  /\ p.state \notin {"BUILDER", "BUILDER_ONLY"} => q = p

LEMMA TitanAdvance ==
  ASSUME NEW w \in Works
  PROVE  /\ advanceTitanTurnState(w) \in Works
         /\ TitanAdvanced(w.turner, advanceTitanTurnState(w).turner)
<1>1. CASE w.turner.state = "TITAN"
  <2>1. /\ Advance(w, "BUILDER", 1) \in Works
        /\ Advance(w, "BUILDER", 1).turner
             = [state |-> "BUILDER", turn |-> w.turner.turn + 1]
    BY AdvanceTyped DEF TurnStates, Playing
  <2>2. advanceTitanTurnState(w) = Fresh(Advance(w, "BUILDER", 1), Seats)
    BY <1>1 DEF advanceTitanTurnState
  <2> QED BY <1>1, <2>1, <2>2, FreshTyped DEF TitanAdvanced
<1>2. CASE w.turner.state = "TITAN_ONLY"
  <2>1. /\ Advance(w, "TITAN_ONLY", 2) \in Works
        /\ Advance(w, "TITAN_ONLY", 2).turner
             = [state |-> "TITAN_ONLY", turn |-> w.turner.turn + 2]
    BY AdvanceTyped DEF TurnStates, Playing
  <2>2. advanceTitanTurnState(w) = Fresh(Advance(w, "TITAN_ONLY", 2), Seats)
    BY <1>2 DEF advanceTitanTurnState
  <2> QED BY <1>2, <2>1, <2>2, FreshTyped DEF TitanAdvanced
<1>3. CASE w.turner.state \notin {"TITAN", "TITAN_ONLY"}
  BY <1>3 DEF advanceTitanTurnState, TitanAdvanced
<1> QED BY <1>1, <1>2, <1>3

LEMMA BuilderAdvance ==
  ASSUME NEW w \in Works
  PROVE  /\ advanceBuilderTurnState(w) \in Works
         /\ BuilderAdvanced(w.turner, advanceBuilderTurnState(w).turner)
<1>1. CASE w.turner.state = "BUILDER"
  BY <1>1, AdvanceTyped DEF advanceBuilderTurnState, BuilderAdvanced, TurnStates, Playing
<1>2. CASE w.turner.state = "BUILDER_ONLY"
  <2>1. /\ Advance(w, "BUILDER_ONLY", 2) \in Works
        /\ Advance(w, "BUILDER_ONLY", 2).turner
             = [state |-> "BUILDER_ONLY", turn |-> w.turner.turn + 2]
    BY AdvanceTyped DEF TurnStates, Playing
  <2>2. advanceBuilderTurnState(w) = Fresh(Advance(w, "BUILDER_ONLY", 2), Seats)
    BY <1>2 DEF advanceBuilderTurnState
  <2> QED BY <1>2, <2>1, <2>2, FreshTyped DEF BuilderAdvanced
<1>3. CASE w.turner.state \notin {"BUILDER", "BUILDER_ONLY"}
  BY <1>3 DEF advanceBuilderTurnState, BuilderAdvanced
<1> QED BY <1>1, <1>2, <1>3

\* An account ends turns for one side only: the one its seat, the titan's first,
\* puts it on.
Advanced(a, p, q) ==
  /\ titan = a => TitanAdvanced(p, q)
  /\ titan # a => BuilderAdvanced(p, q)

LEMMA TurnAdvance ==
  ASSUME NEW a \in Accounts, NEW w \in Works
  PROVE  /\ advanceTurnState(a, w) \in Works
         /\ Advanced(a, w.turner, advanceTurnState(a, w).turner)
BY TitanAdvance, BuilderAdvance DEF advanceTurnState, Advanced

\* An NPC tick touches budgets only, and keeps them.
LEMMA TickTyped ==
  ASSUME NEW w \in Works, NEW v \in tickNpcConducts(w)
  PROVE  v \in Works /\ v.turner = w.turner
<1>1. PICK spent \in [Npcs -> Nat] :
        /\ \A c \in Npcs : spent[c] <= Capacity[c]
        /\ v = [w EXCEPT !.moves = [c \in Characters |->
                                      IF c \in Npcs THEN spent[c] ELSE w.moves[c]]]
  <2>1. w.moves \in Budgets  BY DEF Works
  <2>2. CASE w.turner.state \in Pregame
    <3>1. [c \in Npcs |-> w.moves[c]] \in [Npcs -> Nat]
      BY <2>1 DEF Budgets, Characters
    <3> QED BY <2>1, <2>2, <3>1 DEF tickNpcConducts, Budgets, Characters
  <2>3. CASE w.turner.state \notin Pregame
    <3>1. PICK spent \in Spendings(w) :
            v = [w EXCEPT !.moves = [c \in Characters |->
                                       IF c \in Npcs THEN spent[c] ELSE w.moves[c]]]
      BY <2>3 DEF tickNpcConducts
    <3>2. spent \in [Npcs -> UNION {0 .. Capacity[c] : c \in Npcs}]  BY DEF Spendings
    <3>3. \A c \in Npcs : spent[c] \in w.moves[c] .. Capacity[c]  BY DEF Spendings
    <3>4. \A c \in Npcs : spent[c] \in Nat /\ spent[c] <= Capacity[c]
      BY <2>1, <3>3 DEF Budgets, Characters
    <3>5. spent \in [Npcs -> Nat]  BY <3>2, <3>4
    <3> QED BY <3>1, <3>4, <3>5
  <2> QED BY <2>2, <2>3
<1>2. [c \in Characters |-> IF c \in Npcs THEN spent[c] ELSE w.moves[c]] \in Budgets
  BY <1>1 DEF Works, Budgets
<1> QED BY <1>1, <1>2 DEF Works

LEMMA EndTurnTyped ==
  ASSUME NEW a \in Accounts, NEW w \in Works, NEW v \in endTurn(a, w)
  PROVE  v \in Works /\ Advanced(a, w.turner, v.turner)
<1>1. /\ advanceTurnState(a, w) \in Works
      /\ Advanced(a, w.turner, advanceTurnState(a, w).turner)
  BY TurnAdvance
<1>2. CASE TitanTurnEnded(a, w)
  <2>1. v \in tickNpcConducts(Fresh(advanceTurnState(a, w), Npcs))
    BY <1>2 DEF endTurn, runNpcTurn
  <2>2. /\ Fresh(advanceTurnState(a, w), Npcs) \in Works
        /\ Fresh(advanceTurnState(a, w), Npcs).turner = advanceTurnState(a, w).turner
    BY <1>1, FreshTyped
  <2> QED BY <1>1, <2>1, <2>2, TickTyped
<1>3. CASE ~TitanTurnEnded(a, w)
  BY <1>1, <1>3 DEF endTurn
<1> QED BY <1>2, <1>3

\* An action advances the turner once more or not at all.
LEMMA ActivatedTyped ==
  ASSUME NEW a \in Accounts, NEW c \in Characters, NEW kind \in ActionKinds,
         NEW w \in Works, NEW v \in Activated(a, c, kind, w)
  PROVE  v \in Works /\ (v.turner = w.turner \/ Advanced(a, w.turner, v.turner))
<1>1. CASE kind = "MOVE"
  <2>1. w.moves[c] < Capacity[c] /\ v = [w EXCEPT !.moves[c] = @ + 1]
    BY <1>1 DEF Activated, takeMove
  <2>2. [w.moves EXCEPT ![c] = @ + 1] \in Budgets
    BY <2>1 DEF Works, Budgets
  <2> QED BY <2>1, <2>2 DEF Works
<1>2. CASE kind = "END_TURN"
  BY <1>2, TurnAdvance DEF Activated
<1>3. CASE kind = "OTHER"
  BY <1>3 DEF Activated
<1> QED BY <1>1, <1>2, <1>3 DEF ActionKinds

\* What one request may do to the turner in play.
Played(a, p, q) ==
  \/ q = p
  \/ Advanced(a, p, q)
  \/ p.state \in {"TITAN_ONLY", "BUILDER_ONLY"} /\ q = [p EXCEPT !.turn = @ + 4]

\* Ending two turns in one request is ending one, except in a solo game.
LEMMA TwoAdvances ==
  ASSUME NEW a \in Accounts, NEW p \in Turners, NEW q \in Turners, NEW r \in Turners,
         q = p \/ Advanced(a, p, q), r = q \/ Advanced(a, q, r)
  PROVE  Played(a, p, r)
BY DEF Played, Advanced, TitanAdvanced, BuilderAdvanced, Turners

LEMMA SaveStep ==
  ASSUME TypeOK, NEW w \in Works, Save(w)
  PROVE  TypeOK'
BY DEF TypeOK, Save, Works, Budgets, Turners

LEMMA EndTurnStep ==
  ASSUME TypeOK, NEW a \in Accounts, EndTurn(a)
  PROVE  /\ TypeOK' /\ UNCHANGED <<titan, builders>> /\ IsSeated(a)
         /\ Played(a, turner, turner')
<1>1. Loaded \in Works /\ Loaded.turner = turner  BY TypeParts DEF Loaded, Works
<1>2. PICK w \in endTurn(a, Loaded) : Save(w)  BY DEF EndTurn
<1>3. w \in Works /\ Advanced(a, turner, w.turner)  BY <1>1, EndTurnTyped
<1>4. TypeOK'  BY <1>2, <1>3, SaveStep
<1> QED BY <1>2, <1>3, <1>4 DEF Save, Played, EndTurn

LEMMA PerformStep ==
  ASSUME TypeOK, NEW a \in Accounts, NEW c \in Characters, NEW kind \in ActionKinds,
         NEW forced \in BOOLEAN, Perform(a, c, kind, forced)
  PROVE  /\ TypeOK' /\ UNCHANGED <<titan, builders>> /\ IsSeated(a)
         /\ Played(a, turner, turner')
<1>1. Loaded \in Works /\ Loaded.turner = turner  BY TypeParts DEF Loaded, Works
<1>2. PICK u \in IF forced THEN endTurn(a, Loaded) ELSE {Loaded} :
        \E v \in Activated(a, c, kind, u) : \E w \in tickNpcConducts(v) : Save(w)
  BY DEF Perform
<1>3. PICK v \in Activated(a, c, kind, u) : \E w \in tickNpcConducts(v) : Save(w)  BY <1>2
<1>4. PICK w \in tickNpcConducts(v) : Save(w)  BY <1>3
<1>5. u \in Works /\ (u.turner = turner \/ Advanced(a, turner, u.turner))
  BY <1>1, <1>2, EndTurnTyped
<1>6. v \in Works /\ (v.turner = u.turner \/ Advanced(a, u.turner, v.turner))
  BY <1>3, <1>5, ActivatedTyped
<1>7. w \in Works /\ w.turner = v.turner  BY <1>5, <1>6, TickTyped
<1>8. TypeOK'  BY <1>4, <1>7, SaveStep
<1>9. Played(a, turner, w.turner)
  BY <1>1, <1>5, <1>6, <1>7, TwoAdvances DEF Works
<1> QED BY <1>4, <1>8, <1>9 DEF Save, Perform
-----------------------------------------------------------------------------
(* Seats.                                                                  *)

\* A seat picked as the lowest of a non-empty set is one of the set.
LEMMA LowestIn ==
  ASSUME NEW S \in SUBSET Seats, S # {}
  PROVE  LowestOf(S) \in S
<1>1. S \in SUBSET Nat /\ \A s, t \in S : s \in Nat /\ t \in Nat  BY DEF Seats
<1>2. PICK s \in S : \A t \in S : ~(<<t, s>> \in OpToRel(<, Nat))
  BY <1>1, NatLessThanWellFounded, WFMin
<1>3. \A t \in S : <<t, s>> \in OpToRel(<, Nat) <=> t < s
  BY <1>1 DEF OpToRel
<1>4. \A t \in S : ~(t < s)  BY <1>2, <1>3, Zenon
<1>5. \A t \in S : s <= t  BY <1>1, <1>4
<1> QED BY <1>5 DEF LowestOf

LEMMA JoinStep ==
  ASSUME TypeOK, NEW a \in Accounts, Join(a)
  PROVE  /\ TypeOK' /\ UNCHANGED moves
         /\ \/ titan = Nobody /\ titan' = a /\ turner' = addTitan /\ UNCHANGED builders
            \/ /\ titan # Nobody /\ UNCHANGED titan /\ turner' = addBuilder
               /\ \E s \in Seats : builders[s] = Nobody /\ builders' = [builders EXCEPT ![s] = a]
<1>1. CASE JoinAsTitan(a)
  <2>1. titan = Nobody /\ titan' = a /\ turner' = addTitan /\ UNCHANGED <<builders, moves>>
    BY <1>1 DEF JoinAsTitan, Join
  <2>2. TypeOK'  BY <2>1, AddTitan, TypeParts DEF TypeOK, Turners
  <2> QED BY <2>1, <2>2
<1>2. CASE JoinAsBuilder(a)
  <2>1. SeatsOf(Nobody) \in SUBSET Seats /\ SeatsOf(Nobody) # {}
    BY <1>2 DEF JoinAsBuilder, SeatsOf
  <2> DEFINE s == LowestOf(SeatsOf(Nobody))
  <2>2. s \in Seats /\ builders[s] = Nobody  BY <2>1, LowestIn DEF SeatsOf
  <2>3. /\ titan # Nobody /\ UNCHANGED <<titan, moves>> /\ turner' = addBuilder
        /\ builders' = [builders EXCEPT ![s] = a]
    BY <1>2 DEF JoinAsBuilder, Join
  <2> HIDE DEF s
  <2>4. TypeOK'  BY <2>2, <2>3, AddBuilder, TypeParts DEF TypeOK, Turners
  <2> QED BY <2>2, <2>3, <2>4
<1> QED BY <1>1, <1>2 DEF Join

LEMMA LeaveStep ==
  ASSUME TypeOK, NEW a \in Accounts, Leave(a)
  PROVE  /\ TypeOK' /\ UNCHANGED moves
         /\ \/ titan = a /\ titan' = Nobody /\ turner' = removeTitan /\ UNCHANGED builders
            \/ /\ titan # a /\ UNCHANGED titan /\ turner' = removeBuilder(a, builders')
               /\ \E s \in Seats : builders[s] = a /\ builders' = [builders EXCEPT ![s] = Nobody]
<1>1. CASE LeaveAsTitan(a)
  <2>1. titan = a /\ titan' = Nobody /\ turner' = removeTitan /\ UNCHANGED <<builders, moves>>
    BY <1>1 DEF LeaveAsTitan, Leave
  <2>2. TypeOK'  BY <2>1, RemoveTitan, TypeParts DEF TypeOK, Turners
  <2> QED BY <2>1, <2>2
<1>2. CASE LeaveAsBuilder(a)
  <2>1. SeatsOf(a) \in SUBSET Seats /\ SeatsOf(a) # {}
    BY <1>2 DEF LeaveAsBuilder, SeatsOf
  <2> DEFINE s == LowestOf(SeatsOf(a))
  <2>2. s \in Seats /\ builders[s] = a  BY <2>1, LowestIn DEF SeatsOf
  <2>3. /\ titan # a /\ UNCHANGED <<titan, moves>> /\ turner' = removeBuilder(a, builders')
        /\ builders' = [builders EXCEPT ![s] = Nobody]
    BY <1>2 DEF LeaveAsBuilder, Leave
  <2> HIDE DEF s
  <2>4. builders' \in [Seats -> Accounts \cup {Nobody}]  BY <2>2, <2>3 DEF TypeOK
  <2>5. TypeOK'  BY <2>3, <2>4, RemoveBuilder, TypeParts DEF TypeOK, Turners
  <2> QED BY <2>2, <2>3, <2>5
<1> QED BY <1>1, <1>2 DEF Leave

LEMMA StartStep ==
  ASSUME TypeOK, Start
  PROVE  /\ TypeOK' /\ UNCHANGED <<titan, builders, moves>>
         /\ turner.state \in Pregame /\ turner'.turn = 1
         /\ turner.state = "PREGAME_TITAN_ONLY" => turner'.state = "TITAN_ONLY"
         /\ turner.state = "PREGAME_BUILDER_ONLY" => turner'.state = "BUILDER_ONLY"
         /\ turner.state = "PREGAME_BOTH" => turner'.state = "BUILDER"
<1>1. turner.state \in Pregame  BY DEF Start, IsStarted
<1>2. CASE turner.state = "PREGAME_TITAN_ONLY"
  BY <1>1, <1>2 DEF Start, TypeOK, TurnStates, Playing
<1>3. CASE turner.state = "PREGAME_BUILDER_ONLY"
  BY <1>1, <1>3 DEF Start, TypeOK, TurnStates, Playing
<1>4. CASE turner.state = "PREGAME_BOTH"
  BY <1>1, <1>4 DEF Start, TypeOK, TurnStates, Playing
<1> QED BY <1>1, <1>2, <1>3, <1>4 DEF Pregame

-----------------------------------------------------------------------------
(* Theorems.                                                               *)

\* What a step may do: the requests of an account, a start, or nothing.
LEMMA Steps ==
  ASSUME TypeOK, [Next]_vars
  PROVE  \/ \E a \in Accounts : Join(a)
         \/ \E a \in Accounts : Leave(a)
         \/ Start
         \/ TypeOK' /\ UNCHANGED <<titan, builders, turner>>
         \/ \E a \in Accounts : /\ TypeOK' /\ UNCHANGED <<titan, builders>> /\ IsSeated(a)
                                /\ Played(a, turner, turner')
<1>1. CASE UNCHANGED vars
  BY <1>1 DEF vars, TypeOK
<1>2. CASE \E a \in Accounts : EndTurn(a)
  BY <1>2, EndTurnStep
<1>3. CASE \E a \in Accounts, c \in Characters, kind \in ActionKinds, forced \in BOOLEAN :
             Perform(a, c, kind, forced)
  BY <1>3, PerformStep
<1> QED BY <1>1, <1>2, <1>3 DEF Next

LEMMA TypeInit == Init => TypeOK
<1> SUFFICES ASSUME Init PROVE TypeOK  OBVIOUS
<1>1. moves \in [Characters -> Nat] /\ \A c \in Characters : moves[c] <= Capacity[c]
  BY DEF Init
<1> QED BY <1>1 DEF Init, TypeOK, TurnStates, Pregame

\* No budget counter passes what the role grants and the turner stays in its
\* states, for any roles, seats and NPCs.
THEOREM TypeCorrect == Spec => []TypeOK
<1>1. TypeOK /\ [Next]_vars => TypeOK'
  BY Steps, JoinStep, LeaveStep, StartStep
<1> QED BY TypeInit, <1>1, PTL DEF Spec

SeatInv == TypeOK /\ SoloStatesMatchSeats

LEMMA SeatInit == Init => SeatInv
<1> SUFFICES ASSUME Init PROVE SeatInv  OBVIOUS
<1>1. builders[1] = Host /\ 1 \in Seats /\ Host # Nobody  BY DEF Init, Seats
<1>2. SoloStatesMatchSeats
  BY <1>1 DEF Init, SoloStatesMatchSeats, HasTitan, HasBuilder
<1> QED BY <1>2, TypeInit DEF SeatInv

LEMMA SeatJoin ==
  ASSUME SeatInv, NEW a \in Accounts, Join(a)
  PROVE  SeatInv'
<1> USE DEF SeatInv
<1>1. turner \in Turners /\ a # Nobody /\ builders \in [Seats -> Accounts \cup {Nobody}]
  BY DEF TypeOK, Turners
<1>2. CASE titan = Nobody /\ titan' = a /\ turner' = addTitan /\ UNCHANGED builders
  <2>1. HasTitan' /\ (HasBuilder' <=> HasBuilder) /\ ~HasTitan
    BY <1>1, <1>2 DEF HasTitan, HasBuilder
  <2>2. SoloStatesMatchSeats'
    BY <1>1, <1>2, <2>1, AddTitan DEF SoloStatesMatchSeats
  <2> QED BY <2>2, JoinStep
<1>3. CASE /\ titan # Nobody /\ UNCHANGED titan /\ turner' = addBuilder
           /\ \E s \in Seats : builders[s] = Nobody /\ builders' = [builders EXCEPT ![s] = a]
  <2>1. HasTitan /\ HasTitan' /\ HasBuilder'
    BY <1>1, <1>3 DEF HasTitan, HasBuilder
  <2>2. SoloStatesMatchSeats'
    BY <1>1, <1>3, <2>1, AddBuilder DEF SoloStatesMatchSeats
  <2> QED BY <2>2, JoinStep
<1> QED BY <1>2, <1>3, JoinStep

\* A builder that leaves may keep another seat; nobody else is overlooked.
LEMMA SeatLeave ==
  ASSUME SeatInv, NEW a \in Accounts, Leave(a)
  PROVE  SeatInv'
<1> USE DEF SeatInv
<1>1. turner \in Turners /\ a # Nobody /\ builders \in [Seats -> Accounts \cup {Nobody}]
  BY DEF TypeOK, Turners
<1>2. CASE titan = a /\ titan' = Nobody /\ turner' = removeTitan /\ UNCHANGED builders
  <2>1. HasTitan /\ ~HasTitan' /\ (HasBuilder' <=> HasBuilder)
    BY <1>1, <1>2 DEF HasTitan, HasBuilder
  <2>2. SoloStatesMatchSeats'
    BY <1>1, <1>2, <2>1, RemoveTitan DEF SoloStatesMatchSeats
  <2> QED BY <2>2, LeaveStep
<1>3. ASSUME titan # a, UNCHANGED titan, turner' = removeBuilder(a, builders'),
             NEW s \in Seats, builders[s] = a, builders' = [builders EXCEPT ![s] = Nobody]
      PROVE  SeatInv'
  <2>1. HasBuilder /\ (HasTitan' <=> HasTitan)  BY <1>1, <1>3 DEF HasTitan, HasBuilder
  <2>2. builders' \in [Seats -> Accounts \cup {Nobody}]  BY <1>1, <1>3
  <2>3. \A t \in Seats : builders'[t] \in {Nobody, builders[t]}  BY <1>1, <1>3
  <2>4. CASE \E t \in Seats : builders'[t] \notin {Nobody, a}
    <3>1. turner' = turner /\ HasBuilder'  BY <1>3, <2>4 DEF removeBuilder, HasBuilder
    <3>2. SoloStatesMatchSeats'  BY <2>1, <2>3, <3>1 DEF SoloStatesMatchSeats
    <3> QED BY <3>2, LeaveStep
  <2>5. CASE \A t \in Seats : builders'[t] \in {Nobody, a}
    <3>1. /\ turner.state = "PREGAME_BOTH" => turner'.state = "PREGAME_TITAN_ONLY"
          /\ turner.state = "PREGAME_BUILDER_ONLY" => turner'.state = "GAME_ABORTED"
          /\ turner.state = "BUILDER_ONLY" => turner'.state = "POSTGAME_BUILDERS_LEFT"
          /\ turner.state \notin {"PREGAME_BOTH", "PREGAME_BUILDER_ONLY", "BUILDER_ONLY"}
               => turner' = turner
      BY <1>1, <1>3, <2>2, <2>5, RemoveBuilder
    <3>2. SoloStatesMatchSeats'  BY <2>1, <2>5, <3>1 DEF SoloStatesMatchSeats
    <3> QED BY <3>2, LeaveStep
  <2> QED BY <2>4, <2>5
<1> QED BY <1>2, <1>3, LeaveStep

LEMMA SeatStart ==
  ASSUME SeatInv, Start
  PROVE  SeatInv'
<1> USE DEF SeatInv
<1>1. (HasTitan' <=> HasTitan) /\ (HasBuilder' <=> HasBuilder)
  BY StartStep DEF HasTitan, HasBuilder
<1>2. SoloStatesMatchSeats'
  BY <1>1, StartStep DEF SoloStatesMatchSeats, Pregame
<1> QED BY <1>2, StartStep

\* A turn that ends keeps the kind of game it is.
LEMMA SeatPlay ==
  ASSUME SeatInv, NEW a \in Accounts, TypeOK', UNCHANGED <<titan, builders>>,
         Played(a, turner, turner')
  PROVE  SeatInv'
<1> USE DEF SeatInv
<1>1. (HasTitan' <=> HasTitan) /\ (HasBuilder' <=> HasBuilder)
  BY DEF HasTitan, HasBuilder
<1>2. turner'.state = turner.state \/ turner'.state \in {"TITAN", "BUILDER"}
  BY DEF Played, Advanced, TitanAdvanced, BuilderAdvanced, TypeOK
<1>3. SoloStatesMatchSeats'  BY <1>1, <1>2 DEF SoloStatesMatchSeats
<1> QED BY <1>3

\* The turner's lobby and solo states tell who is there, up to one builder account
\* that left a seat and keeps others, however many seats and accounts there are and
\* however many seats each account takes.
THEOREM SeatsAndTurnerAgree == Spec => []SoloStatesMatchSeats
<1>1. SeatInv /\ [Next]_vars => SeatInv'
  <2>1. ASSUME SeatInv, TypeOK', UNCHANGED <<titan, builders, turner>> PROVE SeatInv'
    BY <2>1 DEF SeatInv, SoloStatesMatchSeats, HasTitan, HasBuilder
  <2> QED BY <2>1, Steps, SeatJoin, SeatLeave, SeatStart, SeatPlay DEF SeatInv
<1>2. SeatInv => SoloStatesMatchSeats  BY DEF SeatInv
<1> QED BY SeatInit, <1>1, <1>2, PTL DEF Spec

\* While the side to move has left, nothing anybody sends moves the turner, for
\* any number of seats, NPCs and moves, and with accounts in several seats too.
THEOREM AbandonedTurnWaits == Spec => AbandonedTurnStands
<1>1. ASSUME TypeOK, [Next]_vars,
             \/ turner.state = "TITAN" /\ ~HasTitan
             \/ turner.state = "BUILDER" /\ ~HasBuilder
      PROVE  turner' = turner
  <2>1. turner \in Turners /\ builders \in [Seats -> Accounts \cup {Nobody}]
    BY <1>1 DEF TypeOK, Turners
  <2>2. ASSUME NEW a \in Accounts, Join(a) PROVE turner' = turner
    BY <1>1, <2>1, <2>2, JoinStep, AddTitan, AddBuilder
  <2>3. ASSUME NEW a \in Accounts, Leave(a) PROVE turner' = turner
    <3>1. builders' \in [Seats -> Accounts \cup {Nobody}]  BY <1>1, <2>3, LeaveStep DEF TypeOK
    <3> QED BY <1>1, <2>1, <2>3, <3>1, LeaveStep, RemoveTitan, RemoveBuilder
  <2>4. ~Start  BY <1>1, StartStep DEF Pregame
  <2>5. ASSUME NEW a \in Accounts, IsSeated(a), Played(a, turner, turner')
        PROVE  turner' = turner
    <3>1. CASE turner.state = "TITAN" /\ ~HasTitan
      BY <2>5, <3>1 DEF HasTitan, Played, Advanced, BuilderAdvanced
    <3>2. CASE turner.state = "BUILDER" /\ ~HasBuilder
      <4>1. titan = a  BY <2>5, <3>2 DEF HasBuilder, IsSeated, SeatsOf
      <4> QED BY <2>5, <3>2, <4>1 DEF Played, Advanced, TitanAdvanced
    <3> QED BY <1>1, <3>1, <3>2
  <2> QED BY <1>1, <2>2, <2>3, <2>4, <2>5, Steps
<1>2. TypeOK /\ [Next]_vars => [AwaitsItsSide]_vars  BY <1>1 DEF AwaitsItsSide
<1> QED BY <1>2, TypeCorrect, PTL DEF Spec, AbandonedTurnStands

\* A builder that leaves takes the game with it only when nobody else sits there.
LEMMA OthersSeen ==
  ASSUME TypeOK, [Next]_vars
  PROVE  OthersAreSeen
<1> SUFFICES ASSUME NEW s \in Seats, builders[s] # Nobody, builders'[s] = Nobody,
                    turner' # turner
             PROVE  \A t \in Seats : builders'[t] \in {Nobody, builders[s]}
  BY DEF OthersAreSeen
<1>1. turner \in Turners /\ builders \in [Seats -> Accounts \cup {Nobody}]
  BY DEF TypeOK, Turners
<1>2. builders' # builders  OBVIOUS
<1>3. PICK a \in Accounts : Join(a) \/ Leave(a)  BY <1>2, Steps, StartStep
<1>4. a # Nobody  OBVIOUS
<1>5. ~ Join(a)  BY <1>1, <1>4, JoinStep
<1>6. PICK r \in Seats : /\ builders[r] = a /\ builders' = [builders EXCEPT ![r] = Nobody]
                         /\ turner' = removeBuilder(a, builders')
  BY <1>2, <1>3, <1>5, LeaveStep
<1>7. builders[s] = a /\ builders' \in [Seats -> Accounts \cup {Nobody}]  BY <1>1, <1>6
<1>8. ~ \E t \in Seats : builders'[t] \notin {Nobody, a}
  BY <1>6 DEF removeBuilder
<1> QED BY <1>7, <1>8

\* The turner follows the seats, up to the other seats of an account that left one,
\* and waits for them, whoever comes and goes and whoever sits twice.
THEOREM TurnerKeepsToTheSeats == Spec => TurnerFollowsTheSeats
<1>1. /\ SoloStatesMatchSeats'
      /\ [AwaitsItsSide]_vars
      /\ TypeOK /\ [Next]_vars
      => [SoloStatesMatchSeats' /\ OthersAreSeen /\ AwaitsItsSide]_vars
  BY OthersSeen
<1> QED BY <1>1, SeatsAndTurnerAgree, AbandonedTurnWaits, TypeCorrect, PTL
        DEF TurnerFollowsTheSeats, AbandonedTurnStands, Spec

\* From w to v no builder's character got moves back, or the turn went on.
Kept(w, v) ==
  \/ v.turner.turn > w.turner.turn
  \/ v.turner.turn = w.turner.turn /\ \A s \in Seats : v.moves[s] >= w.moves[s]

LEMMA KeptTwice ==
  ASSUME NEW u \in Works, NEW v \in Works, NEW w \in Works, Kept(u, v), Kept(v, w)
  PROVE  Kept(u, w)
<1>1. /\ u.turner.turn \in Nat /\ v.turner.turn \in Nat /\ w.turner.turn \in Nat
      /\ \A s \in Seats : u.moves[s] \in Nat /\ v.moves[s] \in Nat /\ w.moves[s] \in Nat
  BY DEF Works, Turners, Budgets, Characters
<1> QED BY <1>1 DEF Kept

LEMMA KeptByFresh ==
  ASSUME NEW w \in Works
  PROVE  Fresh(w, Npcs) \in Works /\ Kept(w, Fresh(w, Npcs))
<1>1. \A s \in Seats : Fresh(w, Npcs).moves[s] = w.moves[s] /\ w.moves[s] \in Nat
  BY DEF Fresh, Works, Budgets, Characters
<1> QED BY <1>1, FreshTyped DEF Kept

LEMMA KeptByTick ==
  ASSUME NEW w \in Works, NEW v \in tickNpcConducts(w)
  PROVE  v \in Works /\ Kept(w, v)
<1>1. \A s \in Seats : v.moves[s] = w.moves[s] /\ w.moves[s] \in Nat
  BY DEF tickNpcConducts, Works, Budgets, Characters
<1> QED BY <1>1, TickTyped DEF Kept

LEMMA KeptByAdvance ==
  ASSUME NEW a \in Accounts, NEW w \in Works
  PROVE  advanceTurnState(a, w) \in Works /\ Kept(w, advanceTurnState(a, w))
<1>1. w.turner.turn \in Nat /\ \A s \in Seats : w.moves[s] \in Nat
  BY DEF Works, Turners, Budgets, Characters
<1> DEFINE v == advanceTurnState(a, w)
<1>2. v \in Works /\ Advanced(a, w.turner, v.turner)  BY TurnAdvance
<1>3. v = w \/ v.turner.turn > w.turner.turn
  <2>1. CASE w.turner.state \in {"TITAN", "TITAN_ONLY"} /\ titan = a
    BY <1>1, <1>2, <2>1 DEF Advanced, TitanAdvanced
  <2>2. CASE w.turner.state \in {"BUILDER", "BUILDER_ONLY"} /\ titan # a
    BY <1>1, <1>2, <2>2 DEF Advanced, BuilderAdvanced
  <2>3. CASE w.turner.state \notin {"TITAN", "TITAN_ONLY"} /\ titan = a
    BY <2>3 DEF advanceTurnState, advanceTitanTurnState
  <2>4. CASE w.turner.state \notin {"BUILDER", "BUILDER_ONLY"} /\ titan # a
    BY <2>4 DEF advanceTurnState, advanceBuilderTurnState
  <2> QED BY <2>1, <2>2, <2>3, <2>4
<1> HIDE DEF v
<1>4. Kept(w, v)  BY <1>1, <1>3 DEF Kept
<1> QED BY <1>2, <1>4 DEF v

LEMMA KeptByEndTurn ==
  ASSUME NEW a \in Accounts, NEW w \in Works, NEW v \in endTurn(a, w)
  PROVE  v \in Works /\ Kept(w, v)
<1> DEFINE u == advanceTurnState(a, w)
<1>1. u \in Works /\ Kept(w, u)  BY KeptByAdvance
<1>2. CASE TitanTurnEnded(a, w)
  <2>1. v \in tickNpcConducts(Fresh(u, Npcs))  BY <1>2 DEF endTurn, runNpcTurn
  <2> HIDE DEF u
  <2>2. Fresh(u, Npcs) \in Works /\ Kept(w, Fresh(u, Npcs))
    BY <1>1, KeptByFresh, KeptTwice
  <2> QED BY <2>1, <2>2, KeptByTick, KeptTwice
<1>3. CASE ~TitanTurnEnded(a, w)
  BY <1>1, <1>3 DEF endTurn
<1> QED BY <1>2, <1>3

LEMMA KeptByAction ==
  ASSUME NEW a \in Accounts, NEW c \in Characters, NEW kind \in ActionKinds,
         NEW w \in Works, NEW v \in Activated(a, c, kind, w)
  PROVE  v \in Works /\ Kept(w, v)
<1>1. v \in Works  BY ActivatedTyped
<1>2. \A s \in Seats : w.moves[s] \in Nat  BY DEF Works, Budgets, Characters
<1>3. CASE kind = "MOVE"
  <2>1. v = [w EXCEPT !.moves[c] = @ + 1]  BY <1>3 DEF Activated, takeMove
  <2>2. v.turner = w.turner /\ \A s \in Seats : v.moves[s] >= w.moves[s]
    BY <1>2, <2>1 DEF Works, Budgets, Characters
  <2> QED BY <1>1, <2>2 DEF Kept
<1>4. CASE kind = "END_TURN"
  BY <1>4, KeptByAdvance DEF Activated
<1>5. CASE kind = "OTHER"
  BY <1>1, <1>2, <1>5 DEF Activated, Kept
<1> QED BY <1>3, <1>4, <1>5 DEF ActionKinds

\* A builder's character gets moves back only with the end of a turn: in every
\* match, whoever ends turns out of turn, leaves, or orders characters about.
THEOREM MovesComeBackOnlyWithTheTurn == Spec => MovesComeBackWithTheTurn
<1>1. ASSUME TypeOK, NEW w \in Works, Kept(Loaded, w), Save(w)
      PROVE  (\E s \in Seats : moves'[s] < moves[s]) => turner'.turn > turner.turn
  <2>1. \A s \in Seats : moves[s] \in Nat /\ w.moves[s] \in Nat
    BY <1>1 DEF TypeOK, Works, Budgets, Characters
  <2>2. \/ w.turner.turn > turner.turn
        \/ \A s \in Seats : w.moves[s] >= moves[s]
    BY <1>1 DEF Kept, Loaded
  <2> QED BY <1>1, <2>1, <2>2 DEF Save
<1>2. ASSUME TypeOK, [Next]_vars, NEW r \in Seats, moves'[r] < moves[r]
      PROVE  turner'.turn > turner.turn
  <2>1. Loaded \in Works  BY <1>2, TypeParts DEF Loaded, Works
  <2>2. moves' # moves  BY <1>2 DEF TypeOK, Characters
  <2>3. ASSUME NEW a \in Accounts, EndTurn(a) PROVE turner'.turn > turner.turn
    <3>1. PICK w \in endTurn(a, Loaded) : Save(w)  BY <2>3 DEF EndTurn
    <3>2. w \in Works /\ Kept(Loaded, w)  BY <2>1, KeptByEndTurn
    <3> QED BY <1>1, <1>2, <3>1, <3>2
  <2>4. ASSUME NEW a \in Accounts, NEW c \in Characters, NEW kind \in ActionKinds,
               NEW forced \in BOOLEAN, Perform(a, c, kind, forced)
        PROVE  turner'.turn > turner.turn
    <3>1. PICK u \in IF forced THEN endTurn(a, Loaded) ELSE {Loaded} :
            \E v \in Activated(a, c, kind, u) : \E w \in tickNpcConducts(v) : Save(w)
      BY <2>4 DEF Perform
    <3>2. PICK v \in Activated(a, c, kind, u) : \E w \in tickNpcConducts(v) : Save(w)
      BY <3>1
    <3>3. PICK w \in tickNpcConducts(v) : Save(w)  BY <3>2
    <3>4. \A s \in Seats : Loaded.moves[s] >= Loaded.moves[s]
      BY <2>1 DEF Works, Budgets, Characters
    <3>5. u \in Works /\ Kept(Loaded, u)
      BY <2>1, <3>1, <3>4, KeptByEndTurn DEF Kept
    <3>6. v \in Works /\ Kept(Loaded, v)  BY <2>1, <3>5, KeptByAction, KeptTwice
    <3>7. w \in Works /\ Kept(Loaded, w)  BY <2>1, <3>6, KeptByTick, KeptTwice
    <3> QED BY <1>1, <1>2, <3>3, <3>7
  <2> QED BY <1>2, <2>2, <2>3, <2>4, JoinStep, LeaveStep, StartStep DEF Next, vars
<1>3. TypeOK /\ [Next]_vars =>
        [(\E s \in Seats : moves'[s] < moves[s]) => turner'.turn > turner.turn]_vars
  BY <1>2
<1> QED BY <1>3, TypeCorrect, PTL DEF Spec, MovesComeBackWithTheTurn

\* The turner implements the order of turns, in every match: paired turns
\* alternate one by one, a solo game may be joined but a paired one never ends.
THEOREM TurnOrderKept == Spec => KeepsTurnOrder
<1> USE DEF Phase, Mover, Alone
<1>1. Init => Order!Init
  BY DEF Init, Order!Init, Pregame, Playing, Completed
<1>2. TypeOK /\ [Next]_vars => [Order!Next]_(Order!vars)
  <2> SUFFICES ASSUME TypeOK, [Next]_vars PROVE [Order!Next]_(Order!vars)  OBVIOUS
  <2> USE DEF Pregame, Playing, Completed
  <2>0. turner \in Turners /\ turner.turn \in Nat /\ turner.state \in TurnStates
    BY DEF TypeOK, Turners
  <2>1. ASSUME NEW a \in Accounts, Join(a) PROVE [Order!Next]_(Order!vars)
    <3>1. turner' = addTitan \/ turner' = addBuilder  BY <2>1, JoinStep
    <3>2. turner'.turn = turner.turn
      BY <2>0, <3>1, AddTitan, AddBuilder
    <3>3. \/ Phase' = Phase /\ Mover' = Mover /\ Alone' = Alone
          \/ Phase = "play" /\ Phase' = "play" /\ Alone /\ ~Alone' /\ Mover' = Mover
          \/ Phase = "play" /\ Phase' = "over" /\ Alone /\ ~Alone' /\ Mover' = "BUILDER"
      BY <2>0, <3>1, AddTitan, AddBuilder DEF TurnStates
    <3> HIDE DEF Phase, Mover, Alone
    <3> QED BY <3>2, <3>3 DEF Order!Next, Order!vars, Order!OpponentComesIn, Order!Quit
  <2>2. ASSUME NEW a \in Accounts, Leave(a) PROVE [Order!Next]_(Order!vars)
    <3>1. turner' = removeTitan \/ turner' = removeBuilder(a, builders')
      BY <2>2, LeaveStep
    <3>2. builders' \in [Seats -> Accounts \cup {Nobody}]  BY <2>2, LeaveStep DEF TypeOK
    <3>3. turner'.turn = turner.turn
      BY <2>0, <3>1, <3>2, RemoveTitan, RemoveBuilder
    <3>4. \/ Phase' = Phase /\ Mover' = Mover /\ Alone' = Alone
          \/ /\ Phase = "lobby" \/ (Phase = "play" /\ Alone)
             /\ Phase' = "over" /\ Mover' = "BUILDER" /\ ~Alone'
      BY <2>0, <3>1, <3>2, RemoveTitan, RemoveBuilder DEF TurnStates
    <3> HIDE DEF Phase, Mover, Alone
    <3> QED BY <3>3, <3>4 DEF Order!Next, Order!vars, Order!Quit
  <2>3. ASSUME Start PROVE [Order!Next]_(Order!vars)
    BY <2>3, StartStep DEF Order!Next, Order!Start, Order!Sides
  <2>4. ASSUME NEW a \in Accounts, Played(a, turner, turner') PROVE [Order!Next]_(Order!vars)
    BY <2>0, <2>4 DEF Played, Advanced, TitanAdvanced, BuilderAdvanced, Turners, TurnStates,
       Order!Next, Order!vars, Order!HandOver, Order!SoloRound, Order!Other
  <2>5. ASSUME UNCHANGED turner PROVE [Order!Next]_(Order!vars)
    BY <2>5 DEF Order!vars
  <2> QED BY <2>1, <2>2, <2>3, <2>4, <2>5, Steps
<1> QED BY <1>1, <1>2, TypeCorrect, PTL DEF Spec, KeepsTurnOrder, Order!Spec
=============================================================================
