----------------------------- MODULE SeekerPlay -----------------------------
(***************************************************************************)
(* A hider-seeker match played against the seeker's real policies: hiders  *)
(* play moves they can pay for and pass ticks; every tick drifts the       *)
(* metrics, pushes a frame and gives the seeker its turn, with the         *)
(* baseline or with a model.  TurnEngine lets the seeker do anything;      *)
(* here its choices are those of its policy.  Moves that wait in the ring  *)
(* are TurnEngine's and NpcPlay's subject and are left out.                *)
(***************************************************************************)
EXTENDS SeekerSenses, FiniteSets

CONSTANTS
  Policies,    \* the policies of the match: "baseline" or a model's name
  ModelOf,     \* the model of each name
  QuietTicks,  \* how many ticks pass before somebody plays
  MaxTicks,    \* bound of the model: the ticks after those
  MaxMoves,    \* bound of the model: the moves played
  Moved        \* the kinds of moves each hider plays

ASSUME SeekerAssumption ==
  /\ Slots \subseteq Nat /\ IsFiniteSet(Slots) /\ Cardinality(Slots) <= MAX_HIDERS
  /\ NumServers \in Nat /\ Cardinality(Slots) <= NumServers /\ NumServers <= NO_SERVER_ID
  /\ QuietTicks \subseteq Nat /\ MaxTicks \in Nat
  /\ DOMAIN Moved = Slots /\ \A h \in Slots : Moved[h] \subseteq Kinds

VARIABLES
  st,      \* the MatchState
  policy,  \* the policy the server chose when it started
  quiet,   \* the ticks of this match before somebody plays
  log,     \* history: each server's frames since it was added, newest first
  moves,   \* how many moves were played
  acted,   \* history: the tick after which a hider last acted on each server
  wagered  \* history: the last wager on each server since it was added

vars == <<st, policy, quiet, log, moves, acted, wagered>>

StartTokens == 12
Never == -1000
NoWager == [tick |-> Never, destroyed |-> 0]
EmptyHistory == [i \in 0 .. HISTORY_TICKS - 1 |-> Blank]

\* startMatch.
Started ==
  [phase |-> "ACTIVE", winner |-> "NONE", tick |-> 0,
   ap |-> [h \in Slots |-> 0], loa |-> [h \in Slots |-> StartLoa],
   conn |-> [h \in Slots |-> NO_SERVER_ID],
   active |-> 0 .. Cardinality(Slots) - 1,
   metrics |-> [s \in Servers |-> Zeroed],
   history |-> [s \in Servers |-> EmptyHistory], head |-> [s \in Servers |-> 0],
   goals |-> [g \in {SeededGoals[i].goal_id : i \in DOMAIN SeededGoals} |-> "OPEN"],
   pool |-> PoolPerHider * Cardinality(Slots), pending |-> <<>>, events |-> <<>>,
   tokens |-> StartTokens, mask |-> {},
   belief |-> [s \in Servers |-> 0], probed |-> [s \in Servers |-> 0]]

-----------------------------------------------------------------------------
(* Moves and ticks.                                                        *)

\* (mutant) the slot keeps its history for the next server
KeepHistory(s, server) == [s EXCEPT !.metrics[server] = Zeroed]

resetServerSlot(s, server) ==
  [s EXCEPT !.metrics[server] = Zeroed, !.history[server] = EmptyHistory, !.head[server] = 0]

\* invalidateServerReferences: the seeker forgets the server and gets its token back.
Forgotten(s, server) ==
  [s EXCEPT !.belief[server] = 0, !.probed[server] = 0, !.mask = @ \ {server},
            !.tokens = IF server \in s.mask THEN Min({255, @ + 1}) ELSE @]

\* A REMOVE_SERVER also clears the slot and what the seeker knows of it.
Applied(s, m) ==
  LET done == [applyTickIntent(s, m) EXCEPT !.events = s.events]
  IN IF m.kind = "REMOVE_SERVER" THEN resetServerSlot(Forgotten(done, m.server), m.server) ELSE done

\* checkMatchEnd.
Ended(s) ==
  IF teamReward(s) >= RewardTarget THEN [s EXCEPT !.phase = "COMPLETE", !.winner = "HIDERS"]
  ELSE IF s.pool = 0 /\ \A h \in Slots : s.conn[h] = NO_SERVER_ID
       THEN [s EXCEPT !.phase = "COMPLETE", !.winner = "SEEKER"]
  ELSE IF s.tokens = 0 /\ s.mask = {}
       THEN [s EXCEPT !.phase = "COMPLETE", !.winner = "HIDERS"]
  ELSE s

PushFrames(s) ==
  [s EXCEPT !.history = [server \in Servers |->
                           IF server \in s.active
                           THEN pushMetricFrame(@[server], s.head[server], currentFrame(s, server))
                           ELSE @[server]],
            !.head = [server \in Servers |->
                        IF server \in s.active THEN NextHead(@[server]) ELSE @[server]]]

DriftAndPush(s) == PushFrames(driftMetrics(s))

ScoreOf(name, obs, server) ==
  IF name = "baseline" THEN baselineScore(obs, server) ELSE modelScore(ModelOf[name], obs, server)

ScoresOf(name, s) ==
  LET obs == buildSeekerObservation(s)
  IN [server \in Servers |-> ScoreOf(name, obs, server)]

SeekersTurn(name, s) == runSeekerTurn(s, ScoresOf(name, s))

\* One tick with nothing pending.
Ticked(name, s) ==
  Ended(SeekersTurn(name, DriftAndPush(regenerateForTick([s EXCEPT !.tick = @ + 1, !.events = <<>>]))))

Init ==
  /\ policy \in Policies
  /\ quiet \in QuietTicks
  /\ st = Started
  /\ log = [s \in Servers |-> <<>>]
  /\ moves = 0
  /\ acted = [s \in Servers |-> Never]
  /\ wagered = [s \in Servers |-> NoWager]

-----------------------------------------------------------------------------
(* Calls.                                                                  *)

Gone(s) == st.active \ s.active

\* A move that is affordable now is applied, without a tick.
Play(m) ==
  /\ st.phase = "ACTIVE" /\ st.tick >= quiet /\ moves < MaxMoves
  /\ Outcome(st, m) = "ACCEPTED"
  /\ st' = Applied(st, m) /\ moves' = moves + 1
  /\ log' = [s \in Servers |-> IF s \in Gone(st') THEN <<>> ELSE log[s]]
  /\ wagered' = [s \in Servers |-> IF s \in Gone(st') THEN NoWager ELSE wagered[s]]
  /\ acted' = [s \in Servers |-> IF m.kind \in DOMAIN HiderActionDefs /\ s = st.conn[m.hider]
                                 THEN st.tick ELSE acted[s]]
  /\ UNCHANGED <<policy, quiet>>

\* The servers the seeker wagered on in the last tick.
Probes(s) == {e.server_id : e \in {x \in Range(s.events) : x.type = "SERVER_PROBED"}}

PassTick ==
  /\ st.phase = "ACTIVE" /\ st.tick < quiet + MaxTicks
  /\ st' = Ticked(policy, st)
  /\ log' = [s \in Servers |-> IF s \notin st.active THEN <<>>
                               ELSE SubSeq(<<currentFrame(st', s)>> \o log[s], 1,
                                           Min({HISTORY_TICKS, Len(log[s]) + 1}))]
  /\ wagered' = [s \in Servers |-> IF s \in Probes(st')
                                   THEN [tick |-> st'.tick, destroyed |-> st'.belief[s]]
                                   ELSE wagered[s]]
  /\ UNCHANGED <<policy, quiet, moves, acted>>

Next ==
  \/ PassTick
  \/ \E h \in Slots : \E kind \in Moved[h], server \in Servers :
       /\ kind \in {"CONNECT", "REMOVE_SERVER"} \/ server = 0
       /\ Play(MoveOf(h, kind, IF kind \in {"CONNECT", "REMOVE_SERVER"} THEN server ELSE NO_SERVER_ID))

Spec == Init /\ [][Next]_vars

-----------------------------------------------------------------------------
(* Properties.                                                             *)

\* The ring of a server is its last sixteen frames, in the observation's lags and
\* in the views alike, across the wrap of the head and the reuse of a slot.
LoggedAgo(server, k) == IF k < Len(log[server]) THEN log[server][k + 1] ELSE Blank
HistoryIsTheRecord ==
  \A server \in st.active :
    /\ \A k \in 0 .. HISTORY_TICKS - 1 : frameAgo(st, server, k) = LoggedAgo(server, k)
    /\ \A k \in 0 .. HISTORY_TICKS - 1 :
         renderHistory(st, server)[HISTORY_TICKS - k] = LoggedAgo(server, k)

\* The baseline never wagers on a server no hider acted on in the last two ticks:
\* the drift of old actions stays below its threshold (baseline_policy.cpp:38-47).
OnlyActsMakeNoise ==
  policy = "baseline" => \A server \in Probes(st) : st.tick - acted[server] <= 2

\* What the seeker remembers of its wagers is true for 256 ticks, across the wrap
\* of the byte that holds the tick, and gone with the server.
SeekerRemembers ==
  \A server \in st.active :
    LET f == serverFeatures(st, server)
        since == st.tick - wagered[server].tick
    IN /\ f.belief = 32 * wagered[server].destroyed
       /\ since < Byte => f.since = 8 * Min({since, 32})

\* What the match and the seeker remember of a server is what happened to it: no
\* ring or byte wraps into another's past, and a reused slot has none.
MemoryIsTrue == HistoryIsTheRecord /\ SeekerRemembers

\* What the seeker observes does not depend on what it is not connected to, nor
\* on where hiders are, what they have and what traces they left.
Loaded(s, server) ==
  [s EXCEPT !.metrics[server].CPU = MetricMax - @, !.history[server][0] = [Blank EXCEPT !.CPU = MetricMax]]
Traced(s, server) == [s EXCEPT !.metrics[server].TRACE = MetricMax - @]
Placed(s, h, server) == [s EXCEPT !.conn[h] = server]
Richer(s, h) == [s EXCEPT !.ap[h] = ApCap - @, !.loa[h] = @ + 1]
Shared(s) == {[s EXCEPT !.pool = @ + 1], [s EXCEPT !.goals = [g \in DOMAIN @ |-> "COMPLETED"]]}
Hidden(s) ==
  {Loaded(s, server) : server \in Servers \ s.mask}
    \cup {Traced(s, server) : server \in Servers}
    \cup {Placed(s, h, server) : h \in Slots, server \in s.active}
    \cup {Richer(s, h) : h \in Slots}
    \cup Shared(s)
SeekerIsBlind ==
  \A other \in Hidden(st) : buildSeekerObservation(other) = buildSeekerObservation(st)

=============================================================================
