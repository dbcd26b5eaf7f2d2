---------------------------- MODULE SeekerSenses ----------------------------
(***************************************************************************)
(* What the seeker sees and decides: the history ring of a server, the     *)
(* observation built from it (feature_extract.cpp), the baseline policy,   *)
(* the model policy (seeker_model.cpp) and the seeker's turn.  A state is  *)
(* the Ruleset's record with the fields tick, history, head, tokens, mask, *)
(* belief and probed.  Numbers are Q8: 256 stands for 1.                   *)
(*                                                                         *)
(* Of the seven metrics of a frame, the three some action moves are kept;  *)
(* the other four are 0 in every match.                                    *)
(***************************************************************************)
EXTENDS Ruleset

Byte == 256
HISTORY_TICKS == 16
Lags == <<1, 2, 4, 8>>
FrameMetrics == <<"CPU", "NETWORK", "ERRORS">>
Blank == [m \in Range(FrameMetrics) |-> 0]

-----------------------------------------------------------------------------
(* The history ring.                                                       *)

currentFrame(s, server) == [m \in DOMAIN Blank |-> s.metrics[server][m]]

\* The head is a byte: it wraps at a multiple of the ring's size.
pushMetricFrame(ring, head, frame) == [ring EXCEPT ![head % HISTORY_TICKS] = frame]
NextHead(head) == (head + 1) % Byte

frameAgo(s, server, k) ==
  s.history[server][(s.head[server] + HISTORY_TICKS - 1 - k) % HISTORY_TICKS]

\* The view's history, oldest frame first.
renderHistory(s, server) ==
  [i \in 1 .. HISTORY_TICKS |-> s.history[server][(s.head[server] + i - 1) % HISTORY_TICKS]]

-----------------------------------------------------------------------------
(* The observation.                                                        *)

\* Integer division truncates toward zero.
toQ8(v) == IF v < 0 THEN - ((- v * 256) \div 100) ELSE (v * 256) \div 100

Flag(b) == IF b THEN 256 ELSE 0

Unseen(server) ==
  [active |-> 0, connected |-> 0, current |-> Blank, change |-> [k \in Range(Lags) |-> Blank],
   since |-> 0, belief |-> 0]

\* (mutant) the metrics are read whether the seeker is connected or not
SeesMetricsAnyway(s, server) == server \in s.active

SeesMetrics(s, server) == server \in s.mask

Change(s, server, k) ==
  [m \in DOMAIN Blank |-> toQ8(currentFrame(s, server)[m] - frameAgo(s, server, k)[m])]

serverFeatures(s, server) ==
  IF server \notin s.active THEN Unseen(server)
  ELSE
    [active |-> 256,
     connected |-> Flag(server \in s.mask),
     current |-> IF SeesMetrics(s, server) THEN [m \in DOMAIN Blank |-> toQ8(currentFrame(s, server)[m])]
                 ELSE Blank,
     change |-> [k \in Range(Lags) |-> IF SeesMetrics(s, server) THEN Change(s, server, k) ELSE Blank],
     since |-> Min({(s.tick - s.probed[server]) % Byte, 32}) * 8,
     belief |-> Min({s.belief[server], 8}) * 32]

globalFeatures(s) ==
  [tokens |-> Min({s.tokens, 32}) * 8, open |-> Cardinality(s.mask) * 16,
   active |-> Cardinality(s.active) * 16, tick |-> Min({s.tick, 256})]

buildSeekerObservation(s) ==
  [server |-> [server \in Servers |-> serverFeatures(s, server)], global |-> globalFeatures(s)]

-----------------------------------------------------------------------------
(* The baseline policy.                                                    *)

WagerThreshold == 20
RewagerGap == 16
MaxOpen == 2
Scores(open, close, wager) == [open |-> open, close |-> close, wager |-> wager]

Magnitude(v) == IF v < 0 THEN - v ELSE v

\* How much a server changed over two ticks.
Activity(f) ==
  3 * Magnitude(f.change[2].ERRORS) + 2 * Magnitude(f.change[2].NETWORK) + Magnitude(f.change[2].CPU)

baselineScore(obs, server) ==
  LET f == obs.server[server]
  IN IF f.active = 0 THEN Scores(0, 0, 0)
     ELSE IF f.connected = 256
     THEN Scores(0, Flag(obs.global.tokens = 0),
                 Flag(Activity(f) >= WagerThreshold /\ f.since >= RewagerGap))
     ELSE Scores(IF obs.global.open < MaxOpen * 16 THEN 256 + f.since ELSE 0, 0, 0)

-----------------------------------------------------------------------------
(* The model policy: three layers over a server's and the global features. *)

Clipped(v) == Max({-1048576, Min({1048576, v})})

\* A row of a layer's weights and its bias; \div is floorDiv.
Neuron(layer, j, input) ==
  Clipped((layer.b[j] + FoldLeft(LAMBDA acc, i : acc + layer.w[j][i] * input[i], 0,
                                 [i \in DOMAIN input |-> i])) \div 256)

Layer(layer, input) ==
  FoldLeft(LAMBDA out, j : Append(out, Neuron(layer, j, input)), <<>>, [j \in DOMAIN layer.b |-> j])

ReLU(values) == [j \in DOMAIN values |-> Max({0, values[j]})]

runSeekerModel(model, input) ==
  Layer(model.output, ReLU(Layer(model.hidden2, ReLU(Layer(model.hidden1, input)))))

Numbers(frame) == [i \in DOMAIN FrameMetrics |-> frame[FrameMetrics[i]]]

\* A server's features and then the global ones, as the schema numbers them.
ModelInput(obs, server) ==
  LET f == obs.server[server]
      g == obs.global
  IN <<f.active, f.connected>> \o Numbers(f.current)
       \o FlattenSeq([i \in DOMAIN Lags |-> Numbers(f.change[Lags[i]])])
       \o <<f.since, f.belief>> \o <<g.tokens, g.open, g.active, g.tick>>

modelScore(model, obs, server) ==
  IF obs.server[server].active = 0 THEN Scores(0, 0, 0)
  ELSE LET out == runSeekerModel(model, ModelInput(obs, server))
       IN Scores(out[1], out[2], out[3])

-----------------------------------------------------------------------------
(* The seeker's turn with the scores of a policy, in the code's order.     *)

MAX_HIDERS == 8

\* A wager is the score rounded to whole connections.
WagerOf(score) == IF score <= 0 THEN 0 ELSE Min({(score + 128) \div 256, MAX_HIDERS})

ProbeTick(s) == s.tick % Byte

\* The hiders in the lowest slots are hit; what hits nobody is lost.
Hit(s, server, capped) ==
  {h \in Occupants(s, server) : Cardinality({g \in Occupants(s, server) : g < h}) < capped}

applyWager(s, server, wager) ==
  LET capped == Min({wager, s.tokens})
      hit == Hit(s, server, capped)
  IN IF capped = 0 THEN s
     ELSE [s EXCEPT !.conn = [h \in Slots |-> IF h \in hit THEN NO_SERVER_ID ELSE @[h]],
                    !.tokens = @ - (capped - Cardinality(hit)),
                    !.belief[server] = Cardinality(hit),
                    !.probed[server] = ProbeTick(s),
                    !.events = Append(@, [type |-> "SERVER_PROBED", server_id |-> server, tick |-> s.tick,
                                          outcome |-> IF hit = {} THEN "MISS" ELSE "HIT"])]

WagerOn(s, scores, server) ==
  LET wager == WagerOf(scores[server].wager)
  IN IF server \in s.mask \cap s.active /\ wager >= 1 THEN applyWager(s, server, wager) ELSE s

\* One server after the other, each with the tokens the others left.
WagersUpTo(s, scores) ==
  LET after[n \in 0 .. NumServers] == IF n = 0 THEN s ELSE WagerOn(after[n - 1], scores, n - 1)
  IN after

Wagers(s, scores) == WagersUpTo(s, scores)[NumServers]

Closes(s, scores) ==
  LET closed == {server \in s.mask : scores[server].close > 0}
  IN [s EXCEPT !.mask = @ \ closed, !.tokens = Min({255, @ + Cardinality(closed)})]

\* One open a tick: the best positive score, the lowest slot of those.
Opens(s, scores) ==
  LET candidates == {server \in s.active \ s.mask : scores[server].open > 0}
      best == {server \in candidates :
                 \A other \in candidates : scores[other].open <= scores[server].open}
  IN IF s.tokens = 0 \/ best = {} THEN s
     ELSE [s EXCEPT !.mask = @ \cup {Min(best)}, !.tokens = @ - 1]

runSeekerTurn(s, scores) == Opens(Closes(Wagers(s, scores), scores), scores)
=============================================================================
