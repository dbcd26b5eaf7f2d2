---------------------------- MODULE SeekerPlayProofs ----------------------------
(***************************************************************************)
(* Theorems about SeekerPlay, for any hiders, servers, models and numbers  *)
(* of ticks: what the seeker remembers is what happened, its baseline      *)
(* wagers only where somebody acted, and it sees nothing it should not.    *)
(***************************************************************************)
EXTENDS SeekerPlay, FiniteSetTheorems, WellFoundedInduction, TLAPS

-----------------------------------------------------------------------------
(* Numbers.                                                                *)

LEMMA MinOfTwo == \A a, b \in Int : Min({a, b}) = IF a <= b THEN a ELSE b
<1> SUFFICES ASSUME NEW a \in Int, NEW b \in Int PROVE Min({a, b}) = IF a <= b THEN a ELSE b
  OBVIOUS
<1> DEFINE least == IF a <= b THEN a ELSE b
<1>1. least \in {a, b} /\ \A y \in {a, b} : least <= y
  OBVIOUS
<1>2. \A x \in {a, b} : (\A y \in {a, b} : x <= y) => x = least
  OBVIOUS
<1>3. Min({a, b}) = CHOOSE x \in {a, b} : \A y \in {a, b} : x <= y
  BY DEF Min
<1> HIDE DEF least
<1>4. Min({a, b}) = least
  BY <1>1, <1>2, <1>3
<1> QED BY <1>4 DEF least

LEMMA MaxOfTwo == \A a, b \in Int : Max({a, b}) = IF a >= b THEN a ELSE b
<1> SUFFICES ASSUME NEW a \in Int, NEW b \in Int PROVE Max({a, b}) = IF a >= b THEN a ELSE b
  OBVIOUS
<1> DEFINE most == IF a >= b THEN a ELSE b
<1>1. most \in {a, b} /\ \A y \in {a, b} : most >= y
  OBVIOUS
<1>2. \A x \in {a, b} : (\A y \in {a, b} : x >= y) => x = most
  OBVIOUS
<1>3. Max({a, b}) = CHOOSE x \in {a, b} : \A y \in {a, b} : x >= y
  BY DEF Max
<1> HIDE DEF most
<1>4. Max({a, b}) = most
  BY <1>1, <1>2, <1>3
<1> QED BY <1>4 DEF most

LEMMA LeastOfNaturals ==
  ASSUME NEW S \in SUBSET Nat, S # {}
  PROVE  \E n \in S : \A m \in S : n <= m
<1>1. PICK n \in S : \A m \in S : ~ (<<m, n>> \in OpToRel(<, Nat))
  BY NatLessThanWellFounded, WFMin
<1>2. \A m \in S : ~ (m < n)
  BY <1>1 DEF OpToRel
<1>3. ASSUME NEW m \in S PROVE n <= m
  <2>1. ~ (m < n) /\ m \in Nat /\ n \in Nat
    BY <1>1, <1>2
  <2> QED BY <2>1
<1> QED BY <1>1, <1>3

LEMMA MinIsMember ==
  ASSUME NEW S \in SUBSET Nat, S # {}
  PROVE  Min(S) \in S
BY LeastOfNaturals DEF Min

-----------------------------------------------------------------------------
(* The states of a match.                                                  *)

Fields ==
  {"phase", "winner", "tick", "ap", "loa", "conn", "active", "metrics", "history", "head", "goals",
   "pool", "pending", "events", "tokens", "mask", "belief", "probed"}
Visible == {"CPU", "NETWORK", "ERRORS"}
Ring == 0 .. HISTORY_TICKS - 1

\* No action raises errors.
Frames == {f \in [Visible -> 0 .. MetricMax] : f["ERRORS"] = 0}
Gauges == {f \in [DOMAIN Drift -> 0 .. MetricMax] : f["ERRORS"] = 0}
Notices == [type : {"SERVER_PROBED"}, server_id : Servers, tick : Nat, outcome : {"HIT", "MISS"}]

IsState(s) ==
  /\ DOMAIN s = Fields
  /\ s.tick \in Nat /\ s.active \in SUBSET Servers
  /\ s.conn \in [Slots -> s.active \cup {NO_SERVER_ID}]
  /\ s.metrics \in [Servers -> Gauges]
  /\ s.history \in [Servers -> [Ring -> Frames]] /\ s.head \in [Servers -> 0 .. Byte - 1]
  /\ s.belief \in [Servers -> 0 .. MAX_HIDERS] /\ s.probed \in [Servers -> 0 .. Byte - 1]
  /\ s.events \in Seq(Notices)

\* Two states with the same servers, hiders and memory.
Alike(s, t) ==
  /\ DOMAIN t = Fields
  /\ t.tick = s.tick /\ t.active = s.active /\ t.conn = s.conn /\ t.metrics = s.metrics
  /\ t.history = s.history /\ t.head = s.head /\ t.belief = s.belief /\ t.probed = s.probed
  /\ t.events = s.events

LEMMA AlikeStates == \A s, t : IsState(s) /\ Alike(s, t) => IsState(t)
BY DEF IsState, Alike

LEMMA FrameFacts ==
  /\ Range(FrameMetrics) = Visible /\ DOMAIN Blank = Visible /\ Blank \in Frames
  /\ DOMAIN Drift = Visible \cup {"TRACE"} /\ Zeroed \in Gauges
  /\ \A s, server : currentFrame(s, server) = [m \in Visible |-> s.metrics[server][m]]
<1>1. Range(FrameMetrics) = Visible
  BY DEF Range, FrameMetrics, Visible
<1>2. Blank = [m \in Visible |-> 0]
  BY <1>1 DEF Blank
<1> QED BY <1>1, <1>2 DEF Frames, Gauges, Visible, Drift, Zeroed, MetricMax, currentFrame

LEMMA ServerFacts ==
  /\ NumServers \in Nat /\ Servers \subseteq Nat /\ NO_SERVER_ID \notin Servers
  /\ HISTORY_TICKS = 16 /\ Byte = 256 /\ MAX_HIDERS = 8
BY SeekerAssumption DEF Servers, NO_SERVER_ID, HISTORY_TICKS, Byte, MAX_HIDERS

-----------------------------------------------------------------------------
(* The seeker's turn.                                                      *)

\* What wagers leave alone, and what they do to the servers they are on.
Wagered(s, t, scores) ==
  /\ DOMAIN t = Fields
  /\ t.tick = s.tick /\ t.active = s.active /\ t.metrics = s.metrics /\ t.mask = s.mask
  /\ t.history = s.history /\ t.head = s.head
  /\ t.conn \in [Slots -> s.active \cup {NO_SERVER_ID}]
  /\ t.belief \in [Servers -> 0 .. MAX_HIDERS] /\ t.probed \in [Servers -> 0 .. Byte - 1]
  /\ t.events \in Seq(Notices)
  /\ \A server \in Servers :
       IF server \in Probes(t)
       THEN /\ t.probed[server] = s.tick % Byte
            /\ server \in s.mask \cap s.active /\ WagerOf(scores[server].wager) >= 1
       ELSE t.belief[server] = s.belief[server] /\ t.probed[server] = s.probed[server]

LEMMA HitFacts ==
  ASSUME NEW s, NEW server, NEW capped
  PROVE  Cardinality(Hit(s, server, capped)) \in 0 .. MAX_HIDERS
<1>1. Hit(s, server, capped) \subseteq Slots
  BY DEF Hit, Occupants
<1>2. /\ IsFiniteSet(Slots) /\ Cardinality(Slots) <= MAX_HIDERS
      /\ Cardinality(Hit(s, server, capped)) <= Cardinality(Slots)
      /\ Cardinality(Hit(s, server, capped)) \in Nat /\ Cardinality(Slots) \in Nat
  BY <1>1, SeekerAssumption, FS_Subset, FS_CardinalityType
<1> QED BY <1>2 DEF MAX_HIDERS

LEMMA AppendedRange ==
  ASSUME NEW S, NEW q \in Seq(S), NEW e
  PROVE  Range(Append(q, e)) = Range(q) \cup {e}
<1>1. /\ Len(q) \in Nat /\ DOMAIN q = 1 .. Len(q) /\ DOMAIN Append(q, e) = 1 .. Len(q) + 1
      /\ \A i \in 1 .. Len(q) : Append(q, e)[i] = q[i]
      /\ Append(q, e)[Len(q) + 1] = e
  OBVIOUS
<1>2. ASSUME NEW x \in Range(Append(q, e)) PROVE x \in Range(q) \cup {e}
  BY <1>1 DEF Range
<1>3. ASSUME NEW x \in Range(q) PROVE x \in Range(Append(q, e))
  <2>1. PICK i \in 1 .. Len(q) : x = q[i]
    BY <1>1 DEF Range
  <2>2. i \in DOMAIN Append(q, e) /\ Append(q, e)[i] = x
    BY <1>1, <2>1
  <2> QED BY <2>2 DEF Range
<1>4. e \in Range(Append(q, e))
  BY <1>1 DEF Range
<1> QED BY <1>2, <1>3, <1>4

LEMMA ProbesAfter ==
  ASSUME NEW s, NEW t, NEW e \in Notices, s.events \in Seq(Notices), t.events = Append(s.events, e)
  PROVE  Probes(t) = Probes(s) \cup {e.server_id}
<1>1. Range(t.events) = Range(s.events) \cup {e}
  BY AppendedRange
<1>2. e.type = "SERVER_PROBED"
  BY DEF Notices
<1> QED BY <1>1, <1>2 DEF Probes

LEMMA WagerStep ==
  ASSUME NEW s, IsState(s), NEW scores, NEW t, Wagered(s, t, scores), NEW server \in Servers
  PROVE  Wagered(s, WagerOn(t, scores, server), scores)
<1> DEFINE wager == WagerOf(scores[server].wager)
           capped == Min({wager, t.tokens})
           hit == Hit(t, server, capped)
           e == [type |-> "SERVER_PROBED", server_id |-> server, tick |-> t.tick,
                 outcome |-> IF hit = {} THEN "MISS" ELSE "HIT"]
           u == WagerOn(t, scores, server)
<1>1. CASE server \in t.mask \cap t.active /\ wager >= 1 /\ capped # 0
  <2>1. Cardinality(hit) \in 0 .. MAX_HIDERS
    BY HitFacts
  <2>2. e \in Notices
    BY DEF Notices, Wagered, IsState
  <2>3. u = [t EXCEPT !.conn = [h \in Slots |-> IF h \in hit THEN NO_SERVER_ID ELSE @[h]],
                      !.tokens = @ - (capped - Cardinality(hit)),
                      !.belief[server] = Cardinality(hit),
                      !.probed[server] = t.tick % Byte,
                      !.events = Append(@, e)]
    BY <1>1 DEF WagerOn, applyWager, ProbeTick
  <2> DEFINE n == Cardinality(hit)
  <2> HIDE DEF e, hit, n
  <2>4. /\ DOMAIN u = Fields
        /\ u.tick = t.tick /\ u.active = t.active /\ u.metrics = t.metrics /\ u.mask = t.mask
        /\ u.history = t.history /\ u.head = t.head
        /\ u.conn = [h \in Slots |-> IF h \in hit THEN NO_SERVER_ID ELSE t.conn[h]]
        /\ u.belief = [t.belief EXCEPT ![server] = n]
        /\ u.probed = [t.probed EXCEPT ![server] = t.tick % Byte]
        /\ u.events = Append(t.events, e)
    BY <2>3 DEF Wagered, Fields, n
  <2> HIDE DEF u, capped, wager
  <2>5. Probes(u) = Probes(t) \cup {server}
    <3>1. e.server_id = server
      BY DEF e
    <3> QED BY <2>2, <2>4, <3>1, ProbesAfter DEF Wagered
  <2>6. s.tick % Byte \in 0 .. Byte - 1 /\ t.tick = s.tick
    <3>1. s.tick \in Nat
      BY DEF IsState
    <3>2. t.tick = s.tick
      BY DEF Wagered
    <3> QED BY <3>1, <3>2 DEF Byte
  <2>7. u.conn \in [Slots -> s.active \cup {NO_SERVER_ID}]
    BY <2>4 DEF Wagered
  <2>8. u.belief \in [Servers -> 0 .. MAX_HIDERS] /\ u.probed \in [Servers -> 0 .. Byte - 1]
    BY <2>1, <2>4, <2>6 DEF Wagered, n
  <2>9. u.events \in Seq(Notices)
    BY <2>2, <2>4 DEF Wagered
  <2>10. ASSUME NEW v \in Servers
         PROVE  IF v \in Probes(u)
                THEN /\ u.probed[v] = s.tick % Byte
                     /\ v \in s.mask \cap s.active /\ WagerOf(scores[v].wager) >= 1
                ELSE u.belief[v] = s.belief[v] /\ u.probed[v] = s.probed[v]
    <3>1. CASE v = server
      BY <1>1, <2>4, <2>5, <2>6, <3>1 DEF Wagered, wager
    <3>2. CASE v # server
      <4>1. u.probed[v] = t.probed[v] /\ u.belief[v] = t.belief[v]
        BY <2>4, <3>2 DEF Wagered
      <4> QED BY <2>5, <3>2, <4>1 DEF Wagered
    <3> QED BY <3>1, <3>2
  <2> QED BY <2>4, <2>7, <2>8, <2>9, <2>10 DEF Wagered, u
<1>2. CASE ~ (server \in t.mask \cap t.active /\ wager >= 1 /\ capped # 0)
  <2>1. u = t
    BY <1>2 DEF WagerOn, applyWager
  <2> QED BY <2>1
<1> QED BY <1>1, <1>2

-----------------------------------------------------------------------------
(* One wager after the other: the recursive function of Wagers exists, and *)
(* what holds of its first value and is kept by a step holds of its last.  *)
(* A least number that is a counterexample stands for the induction.       *)

IsRun(f, s, scores, n) ==
  f = [i \in 0 .. n |-> IF i = 0 THEN s ELSE WagerOn(f[i - 1], scores, i - 1)]

LEMMA RunExists ==
  ASSUME NEW s, NEW scores, NEW N \in Nat
  PROVE  \E f : IsRun(f, s, scores, N)
<1> SUFFICES \A n \in Nat : \E f : IsRun(f, s, scores, n)  OBVIOUS
<1> USE DEF IsRun
<1> DEFINE Body(f, i) == IF i = 0 THEN s ELSE WagerOn(f[i - 1], scores, i - 1)
           Bad == {n \in Nat : ~ \E f : f = [i \in 0 .. n |-> Body(f, i)]}
<1>1. CASE Bad = {}
  BY <1>1
<1>2. CASE Bad # {}
  <2>1. PICK n \in Bad : \A m \in Bad : n <= m
    <3> HIDE DEF Body
    <3> QED BY <1>2, LeastOfNaturals
  <2>2. CASE n = 0
    <3> DEFINE f == [i \in 0 .. 0 |-> s]
    <3>1. f = [i \in 0 .. 0 |-> Body(f, i)]
      OBVIOUS
    <3> QED BY <2>1, <2>2, <3>1
  <2>3. CASE n # 0
    <3> HIDE DEF Body
    <3>1. n - 1 \in Nat /\ n - 1 \notin Bad
      BY <2>1, <2>3
    <3>2. PICK f : f = [i \in 0 .. n - 1 |-> Body(f, i)]
      BY <3>1
    <3> DEFINE g == [i \in 0 .. n |-> IF i = n THEN WagerOn(f[n - 1], scores, n - 1) ELSE f[i]]
    <3>3. \A i \in 0 .. n : g[i] = Body(g, i)
      <4>1. \A i \in 0 .. n : i # n => g[i] = f[i] /\ f[i] = Body(f, i)
        BY <3>1, <3>2
      <4>2. \A i \in 0 .. n : i # n => Body(f, i) = Body(g, i)
        BY <3>1 DEF Body
      <4>3. g[n] = Body(g, n)
        BY <3>1 DEF Body
      <4> QED BY <4>1, <4>2, <4>3
    <3>4. g = [i \in 0 .. n |-> Body(g, i)]
      BY <3>3
    <3> QED BY <2>1, <3>4
  <2> QED BY <2>2, <2>3
<1>3. QED BY <1>1, <1>2

LEMMA RunFacts ==
  ASSUME NEW s, NEW scores
  PROVE  /\ WagersUpTo(s, scores)[0] = s
         /\ \A n \in 1 .. NumServers :
              WagersUpTo(s, scores)[n] = WagerOn(WagersUpTo(s, scores)[n - 1], scores, n - 1)
<1>1. \E f : IsRun(f, s, scores, NumServers)
  BY RunExists, ServerFacts
<1>2. WagersUpTo(s, scores) = CHOOSE f : IsRun(f, s, scores, NumServers)
  BY DEF WagersUpTo, IsRun
<1>3. IsRun(WagersUpTo(s, scores), s, scores, NumServers)
  BY <1>1, <1>2
<1> QED BY <1>3, ServerFacts DEF IsRun

LEMMA WagersFacts ==
  ASSUME NEW s, IsState(s), s.events = <<>>, NEW scores
  PROVE  Wagered(s, Wagers(s, scores), scores)
<1> DEFINE W(n) == WagersUpTo(s, scores)[n]
           Bad == {n \in 0 .. NumServers : ~ Wagered(s, W(n), scores)}
<1>0. NumServers \in Nat
  BY ServerFacts
<1>1. Wagered(s, W(0), scores)
  <2>1. Probes(s) = {}
    BY DEF Probes, Range
  <2> QED BY <2>1, RunFacts DEF Wagered, IsState
<1>2. ASSUME NEW n \in 1 .. NumServers, Wagered(s, W(n - 1), scores)
      PROVE  Wagered(s, W(n), scores)
  <2>1. n - 1 \in Servers
    BY <1>0 DEF Servers
  <2>2. W(n) = WagerOn(W(n - 1), scores, n - 1)
    BY RunFacts
  <2> HIDE DEF W
  <2> QED BY <1>2, <2>1, <2>2, WagerStep
<1>3. Bad = {}
  <2> SUFFICES ASSUME Bad # {} PROVE FALSE
    OBVIOUS
  <2>1. PICK n \in Bad : \A m \in Bad : n <= m
    <3> HIDE DEF W
    <3>1. Bad \in SUBSET Nat
      BY <1>0
    <3> QED BY <3>1, LeastOfNaturals
  <2>2. n \in 1 .. NumServers /\ n - 1 \in 0 .. NumServers /\ ~ (n <= n - 1)
    <3>1. n # 0
      BY <1>1, <2>1
    <3> HIDE DEF W
    <3> QED BY <1>0, <2>1, <3>1
  <2>3. Wagered(s, W(n - 1), scores)
    BY <2>1, <2>2
  <2> QED BY <1>2, <2>1, <2>2, <2>3
<1> QED BY <1>0, <1>3 DEF Wagers

-----------------------------------------------------------------------------
(* A tick.                                                                 *)

\* The tick up to the seeker's turn.
Drifted(s) == DriftAndPush(regenerateForTick([s EXCEPT !.tick = @ + 1, !.events = <<>>]))

Rested(frame) == [m \in DOMAIN Drift |-> Max({0, frame[m] - Drift[m]})]

LEMMA RestedFacts ==
  ASSUME NEW f \in Gauges
  PROVE  /\ Rested(f) \in Gauges
         /\ \A m \in {"CPU", "NETWORK"} : Rested(f)[m] = IF f[m] = 0 THEN 0 ELSE f[m] - 1
<1>1. \A m \in DOMAIN Drift : f[m] \in 0 .. MetricMax /\ Drift[m] \in 1 .. 2 /\ f["ERRORS"] = 0
  BY DEF Gauges, Drift
<1>2. \A m \in DOMAIN Drift :
        Max({0, f[m] - Drift[m]}) = IF f[m] <= Drift[m] THEN 0 ELSE f[m] - Drift[m]
  <2>1. ASSUME NEW m \in DOMAIN Drift
        PROVE  Max({0, f[m] - Drift[m]}) = IF f[m] <= Drift[m] THEN 0 ELSE f[m] - Drift[m]
    <3>1. f[m] \in Int /\ Drift[m] \in Int /\ f[m] - Drift[m] \in Int /\ 0 \in Int
      BY <1>1 DEF MetricMax
    <3> QED BY <3>1, MaxOfTwo
  <2> QED BY <2>1
<1>3. \A m \in DOMAIN Drift : Rested(f)[m] = IF f[m] <= Drift[m] THEN 0 ELSE f[m] - Drift[m]
  BY <1>2 DEF Rested
<1>4. \A m \in DOMAIN Drift : Rested(f)[m] \in 0 .. MetricMax
  BY <1>1, <1>3 DEF MetricMax
<1>5. Rested(f)["ERRORS"] = 0 /\ "ERRORS" \in DOMAIN Drift
  BY <1>1, <1>3 DEF Drift
<1>6. Rested(f) \in Gauges
  <2>1. Rested(f) \in [DOMAIN Drift -> 0 .. MetricMax]
    BY <1>4 DEF Rested
  <2> QED BY <2>1, <1>5 DEF Gauges
<1>7. \A m \in {"CPU", "NETWORK"} : m \in DOMAIN Drift /\ Drift[m] = 1
  BY DEF Drift
<1>8. \A m \in {"CPU", "NETWORK"} : Rested(f)[m] = IF f[m] = 0 THEN 0 ELSE f[m] - 1
  BY <1>1, <1>3, <1>7 DEF MetricMax
<1> QED BY <1>6, <1>8

LEMMA CurrentFrames ==
  ASSUME NEW s, s.metrics \in [Servers -> Gauges], NEW v \in Servers
  PROVE  currentFrame(s, v) \in Frames
<1>1. s.metrics[v] \in Gauges
  OBVIOUS
<1> QED BY <1>1, FrameFacts DEF Frames, Gauges, Visible, Drift

LEMMA DriftedFacts ==
  ASSUME NEW s, IsState(s)
  PROVE  LET d == Drifted(s) IN
         /\ IsState(d)
         /\ d.tick = s.tick + 1 /\ d.events = <<>>
         /\ d.active = s.active /\ d.mask = s.mask /\ d.conn = s.conn
         /\ d.belief = s.belief /\ d.probed = s.probed
         /\ \A v \in Servers \ s.active :
              /\ d.metrics[v] = s.metrics[v] /\ d.history[v] = s.history[v]
              /\ d.head[v] = s.head[v]
         /\ \A v \in s.active :
              /\ d.metrics[v] = Rested(s.metrics[v])
              /\ d.history[v] = pushMetricFrame(s.history[v], s.head[v], currentFrame(d, v))
              /\ d.head[v] = NextHead(s.head[v])
<1> DEFINE a == [s EXCEPT !.tick = @ + 1, !.events = <<>>]
           r == regenerateForTick(a)
           g == driftMetrics(r)
           d == Drifted(s)
<1>1. /\ DOMAIN r = Fields /\ r.tick = s.tick + 1 /\ r.events = <<>>
      /\ r.active = s.active /\ r.mask = s.mask /\ r.conn = s.conn /\ r.metrics = s.metrics
      /\ r.history = s.history /\ r.head = s.head /\ r.belief = s.belief /\ r.probed = s.probed
  BY DEF IsState, Fields, regenerateForTick
<1> HIDE DEF r
<1>2. /\ DOMAIN g = Fields /\ g.tick = s.tick + 1 /\ g.events = <<>>
      /\ g.active = s.active /\ g.mask = s.mask /\ g.conn = s.conn
      /\ g.history = s.history /\ g.head = s.head /\ g.belief = s.belief /\ g.probed = s.probed
      /\ g.metrics = [v \in Servers |-> IF v \in s.active THEN Rested(s.metrics[v]) ELSE s.metrics[v]]
  BY <1>1 DEF Fields, driftMetrics, Rested
<1> HIDE DEF g
<1>3. d = PushFrames(g)
  BY DEF Drifted, DriftAndPush, g, r
<1> HIDE DEF d
<1>4. /\ DOMAIN d = Fields /\ d.tick = s.tick + 1 /\ d.events = <<>>
      /\ d.active = s.active /\ d.mask = s.mask /\ d.conn = s.conn /\ d.metrics = g.metrics
      /\ d.belief = s.belief /\ d.probed = s.probed
      /\ d.history = [v \in Servers |->
                        IF v \in s.active
                        THEN pushMetricFrame(s.history[v], s.head[v], currentFrame(g, v))
                        ELSE s.history[v]]
      /\ d.head = [v \in Servers |-> IF v \in s.active THEN NextHead(s.head[v]) ELSE s.head[v]]
  BY <1>2, <1>3 DEF Fields, PushFrames
<1>5. \A v : currentFrame(g, v) = currentFrame(d, v)
  BY <1>4 DEF currentFrame
<1>6. \A v \in Servers : s.metrics[v] \in Gauges
  BY DEF IsState
<1>7. d.metrics \in [Servers -> Gauges]
  BY <1>2, <1>4, <1>6, RestedFacts
<1>8. d.history \in [Servers -> [Ring -> Frames]]
  <2>1. ASSUME NEW v \in Servers PROVE d.history[v] \in [Ring -> Frames]
    <3>1. s.history[v] \in [Ring -> Frames]
      BY DEF IsState
    <3>2. currentFrame(g, v) \in Frames
      BY <1>5, <1>7, CurrentFrames
    <3>3. pushMetricFrame(s.history[v], s.head[v], currentFrame(g, v)) \in [Ring -> Frames]
      BY <3>1, <3>2 DEF pushMetricFrame
    <3> QED BY <1>4, <3>1, <3>3
  <2> QED BY <1>4, <2>1
<1>9. d.head \in [Servers -> 0 .. Byte - 1]
  <2>1. ASSUME NEW v \in Servers PROVE d.head[v] \in 0 .. Byte - 1
    <3>1. s.head[v] \in 0 .. Byte - 1
      BY DEF IsState
    <3>2. NextHead(s.head[v]) \in 0 .. Byte - 1
      BY <3>1 DEF NextHead, Byte
    <3> QED BY <1>4, <3>1, <3>2
  <2> QED BY <1>4, <2>1
<1>10. d.tick \in Nat /\ d.events \in Seq(Notices) /\ s.active \subseteq Servers
  BY <1>4 DEF IsState
<1>11. IsState(d)
  BY <1>4, <1>7, <1>8, <1>9, <1>10 DEF IsState
<1>12. \A v \in s.active :
         /\ d.metrics[v] = Rested(s.metrics[v])
         /\ d.history[v] = pushMetricFrame(s.history[v], s.head[v], currentFrame(d, v))
         /\ d.head[v] = NextHead(s.head[v])
  BY <1>2, <1>4, <1>5, <1>10
<1>13. \A v \in Servers \ s.active :
         /\ d.metrics[v] = s.metrics[v] /\ d.history[v] = s.history[v] /\ d.head[v] = s.head[v]
  BY <1>2, <1>4
<1> QED BY <1>4, <1>11, <1>12, <1>13 DEF d

LEMMA ClosingFacts ==
  ASSUME NEW s, DOMAIN s = Fields, NEW scores
  PROVE  Alike(s, Ended(Opens(Closes(s, scores), scores)))
<1> DEFINE c == Closes(s, scores)
           o == Opens(c, scores)
           e == Ended(o)
<1>1. Alike(s, c)
  BY DEF Closes, Alike, Fields
<1> HIDE DEF c
<1>2. Alike(c, o)
  <2>1. DOMAIN c = Fields
    BY <1>1 DEF Alike
  <2> DEFINE best == {server \in {x \in c.active \ c.mask : scores[x].open > 0} :
                        \A other \in {x \in c.active \ c.mask : scores[x].open > 0} :
                          scores[other].open <= scores[server].open}
  <2>2. o = c \/ o = [c EXCEPT !.mask = @ \cup {Min(best)}, !.tokens = @ - 1]
    BY DEF Opens
  <2> HIDE DEF o, best
  <2> QED BY <2>1, <2>2 DEF Alike, Fields
<1> HIDE DEF o
<1>3. Alike(o, e)
  <2>1. DOMAIN o = Fields
    BY <1>2 DEF Alike
  <2>2. \/ e = o
        \/ e = [o EXCEPT !.phase = "COMPLETE", !.winner = "HIDERS"]
        \/ e = [o EXCEPT !.phase = "COMPLETE", !.winner = "SEEKER"]
    BY DEF Ended
  <2> HIDE DEF e
  <2> QED BY <2>1, <2>2 DEF Alike, Fields
<1> HIDE DEF e
<1>4. Alike(s, e)
  BY <1>1, <1>2, <1>3 DEF Alike
<1> QED BY <1>4 DEF e, o, c

LEMMA TickFacts ==
  ASSUME NEW s, IsState(s), NEW name
  PROVE  LET t == Ticked(name, s)
             d == Drifted(s) IN
         /\ IsState(t)
         /\ t.tick = s.tick + 1 /\ t.active = s.active
         /\ t.metrics = d.metrics /\ t.history = d.history /\ t.head = d.head
         /\ \A v \in Servers :
              IF v \in Probes(t)
              THEN /\ t.probed[v] = t.tick % Byte
                   /\ v \in s.mask \cap s.active /\ WagerOf(ScoresOf(name, d)[v].wager) >= 1
              ELSE t.belief[v] = s.belief[v] /\ t.probed[v] = s.probed[v]
<1> DEFINE d == Drifted(s)
           scores == ScoresOf(name, d)
           w == Wagers(d, scores)
           t == Ticked(name, s)
<1>1. IsState(d) /\ d.events = <<>>
  BY DriftedFacts
<1> HIDE DEF scores
<1>2. Wagered(d, w, scores)
  <2> HIDE DEF d
  <2> QED BY <1>1, WagersFacts
<1>3. t = Ended(Opens(Closes(w, scores), scores))
  BY DEF Ticked, SeekersTurn, runSeekerTurn, Drifted, scores
<1> HIDE DEF w, t
<1>4. Alike(w, t)
  <2>1. DOMAIN w = Fields
    BY <1>2 DEF Wagered
  <2> QED BY <1>3, <2>1, ClosingFacts
<1>5. IsState(w)
  <2> HIDE DEF d
  <2> QED BY <1>1, <1>2 DEF Wagered, IsState
<1>6. IsState(t)
  BY <1>4, <1>5, AlikeStates
<1>7. /\ d.tick = s.tick + 1 /\ d.active = s.active /\ d.mask = s.mask
      /\ d.belief = s.belief /\ d.probed = s.probed
  BY DriftedFacts
<1> HIDE DEF d
<1>8. /\ w.tick = d.tick /\ w.active = d.active /\ w.metrics = d.metrics
      /\ w.history = d.history /\ w.head = d.head
  BY <1>2 DEF Wagered
<1>9. /\ t.tick = w.tick /\ t.active = w.active /\ t.metrics = w.metrics
      /\ t.history = w.history /\ t.head = w.head /\ t.belief = w.belief /\ t.probed = w.probed
  BY <1>4 DEF Alike
<1>10. Probes(t) = Probes(w)
  BY <1>4 DEF Alike, Probes
<1>11. ASSUME NEW v \in Servers
       PROVE  IF v \in Probes(t)
              THEN /\ t.probed[v] = t.tick % Byte
                   /\ v \in s.mask \cap s.active /\ WagerOf(scores[v].wager) >= 1
              ELSE t.belief[v] = s.belief[v] /\ t.probed[v] = s.probed[v]
  BY <1>2, <1>7, <1>8, <1>9, <1>10 DEF Wagered
<1> QED BY <1>6, <1>7, <1>8, <1>9, <1>11 DEF t, scores, d

-----------------------------------------------------------------------------
(* A move.                                                                 *)

LEMMA EffectFacts ==
  ASSUME NEW kind \in DOMAIN HiderActionDefs
  PROVE  LET effects == HiderActionDefs[kind].effects IN
         \A m \in DOMAIN effects : effects[m] \in Int /\ (m = "ERRORS" => effects[m] <= 0)
<1> DEFINE effects == HiderActionDefs[kind].effects
<1>1. kind \in {"CONFIGURE_SERVER", "SUPPRESS_ERROR", "BOOST_CPU", "ROTATE_ROUTE", "PAY_GOAL"}
  BY DEF HiderActionDefs
<1>2. CASE kind = "CONFIGURE_SERVER"
  <2>1. effects = [TRACE |-> 5]
    BY <1>2 DEF HiderActionDefs
  <2> QED BY <2>1
<1>3. CASE kind = "SUPPRESS_ERROR"
  <2>1. effects = [ERRORS |-> -10, TRACE |-> 20]
    BY <1>3 DEF HiderActionDefs
  <2> QED BY <2>1
<1>4. CASE kind = "BOOST_CPU"
  <2>1. effects = [CPU |-> 15, TRACE |-> 5]
    BY <1>4 DEF HiderActionDefs
  <2> QED BY <2>1
<1>5. CASE kind = "ROTATE_ROUTE"
  <2>1. effects = [NETWORK |-> 5, TRACE |-> 10]
    BY <1>5 DEF HiderActionDefs
  <2> QED BY <2>1
<1>6. CASE kind = "PAY_GOAL"
  <2>1. effects = [none \in {} |-> 0]
    BY <1>6 DEF HiderActionDefs
  <2> QED BY <2>1
<1> QED BY <1>1, <1>2, <1>3, <1>4, <1>5, <1>6

LEMMA ClampFacts ==
  ASSUME NEW v \in Int
  PROVE  Clamp(v) \in 0 .. MetricMax /\ (v <= 0 => Clamp(v) = 0)
<1>1. MetricMax \in Int /\ MetricMax = 100 /\ 0 \in Int
  BY DEF MetricMax
<1>2. Min({MetricMax, v}) = IF MetricMax <= v THEN MetricMax ELSE v
  BY <1>1, MinOfTwo
<1>3. Min({MetricMax, v}) \in Int
  BY <1>1, <1>2
<1> DEFINE least == Min({MetricMax, v})
<1>4. Max({0, least}) = IF 0 >= least THEN 0 ELSE least
  <2> HIDE DEF least
  <2> QED BY <1>1, <1>3, MaxOfTwo DEF least
<1>5. Clamp(v) = IF 0 >= least THEN 0 ELSE least
  BY <1>4 DEF Clamp
<1> HIDE DEF least
<1> QED BY <1>1, <1>2, <1>3, <1>5 DEF least

LEMMA AffectFacts ==
  ASSUME NEW f \in Gauges, NEW kind \in DOMAIN HiderActionDefs
  PROVE  Affect(f, HiderActionDefs[kind].effects) \in Gauges
<1> DEFINE effects == HiderActionDefs[kind].effects
           a == Affect(f, effects)
<1>1. DOMAIN f = DOMAIN Drift /\ "ERRORS" \in DOMAIN Drift /\ f["ERRORS"] = 0
  BY DEF Gauges, Drift
<1>2. \A m \in DOMAIN f : f[m] \in 0 .. MetricMax
  BY DEF Gauges
<1>3. \A m \in DOMAIN effects : effects[m] \in Int /\ (m = "ERRORS" => effects[m] <= 0)
  BY EffectFacts
<1> HIDE DEF effects
<1>4. a = [m \in DOMAIN f |-> IF m \in DOMAIN effects THEN Clamp(f[m] + effects[m]) ELSE f[m]]
  BY DEF Affect
<1>5. \A m \in DOMAIN f : a[m] \in 0 .. MetricMax
  <2>1. ASSUME NEW m \in DOMAIN f, m \in DOMAIN effects PROVE a[m] \in 0 .. MetricMax
    <3>1. f[m] + effects[m] \in Int
      BY <1>2, <1>3, <2>1 DEF MetricMax
    <3> QED BY <1>4, <2>1, <3>1, ClampFacts
  <2> QED BY <1>2, <1>4, <2>1
<1>6. a["ERRORS"] = 0
  <2>1. CASE "ERRORS" \in DOMAIN effects
    <3>1. /\ f["ERRORS"] + effects["ERRORS"] \in Int
          /\ f["ERRORS"] + effects["ERRORS"] <= 0
      BY <1>1, <1>3, <2>1
    <3> QED BY <1>1, <1>4, <2>1, <3>1, ClampFacts
  <2>2. CASE "ERRORS" \notin DOMAIN effects
    BY <1>1, <1>4, <2>2
  <2> QED BY <2>1, <2>2
<1>7. a \in [DOMAIN Drift -> 0 .. MetricMax]
  BY <1>1, <1>4, <1>5
<1> QED BY <1>6, <1>7 DEF Gauges, effects

LEMMA ActionFacts ==
  ASSUME NEW s, IsState(s), NEW m, m.kind \in DOMAIN HiderActionDefs, m.hider \in Slots,
         Outcome(s, m) = "ACCEPTED"
  PROVE  LET t == Applied(s, m) IN
         /\ s.conn[m.hider] \in s.active
         /\ IsState(t)
         /\ t.metrics = [s.metrics EXCEPT ![s.conn[m.hider]] =
                                     Affect(@, HiderActionDefs[m.kind].effects)]
         /\ t.tick = s.tick /\ t.active = s.active /\ t.conn = s.conn /\ t.history = s.history
         /\ t.head = s.head /\ t.belief = s.belief /\ t.probed = s.probed /\ t.events = s.events
<1> DEFINE def == HiderActionDefs[m.kind]
           c == s.conn[m.hider]
           paid == [s EXCEPT !.ap[m.hider] = @ - def.ap_cost]
           done == IF m.kind = "PAY_GOAL" THEN CompleteGoal(paid) ELSE paid
           t == Applied(s, m)
<1>1. s.conn[m.hider] \in s.active
  <2>1. s.conn[m.hider] # NO_SERVER_ID
    BY DEF Outcome
  <2> QED BY <2>1 DEF IsState
<1>2. Alike(s, paid)
  BY DEF Alike, IsState, Fields
<1> HIDE DEF paid
<1>3. Alike(s, done)
  <2>1. DOMAIN paid = Fields
    BY <1>2 DEF Alike
  <2>2. Alike(paid, CompleteGoal(paid))
    <3> DEFINE goals == [paid.goals EXCEPT ![SeededGoals[Min(Completable(paid))].goal_id] = "COMPLETED"]
    <3>1. CompleteGoal(paid) = paid \/ CompleteGoal(paid) = [paid EXCEPT !.goals = goals]
      BY DEF CompleteGoal
    <3> HIDE DEF goals
    <3> QED BY <2>1, <3>1 DEF Alike, Fields
  <2> QED BY <1>2, <2>2 DEF Alike
<1> HIDE DEF done
<1>4. /\ m.kind \notin {"ADD_SERVER", "REMOVE_SERVER", "CONNECT", "DISCONNECT"}
  BY DEF HiderActionDefs
<1>5. applyTickIntent(s, m) = applyHiderAction(s, m)
  BY <1>4 DEF applyTickIntent
<1>6. applyHiderAction(s, m) = [done EXCEPT !.metrics[s.conn[m.hider]] = Affect(@, def.effects)]
  BY DEF applyHiderAction, done, paid
<1>7. t = [[done EXCEPT !.metrics[c] = Affect(@, def.effects)] EXCEPT !.events = s.events]
  BY <1>4, <1>5, <1>6 DEF Applied
<1> HIDE DEF t, def, c
<1>8. /\ DOMAIN t = Fields
      /\ t.metrics = [s.metrics EXCEPT ![c] = Affect(@, def.effects)]
      /\ t.tick = s.tick /\ t.active = s.active /\ t.conn = s.conn /\ t.history = s.history
      /\ t.head = s.head /\ t.belief = s.belief /\ t.probed = s.probed /\ t.events = s.events
  BY <1>3, <1>7 DEF Alike, Fields
<1>9. t.metrics \in [Servers -> Gauges]
  <2>1. c \in Servers /\ s.metrics[c] \in Gauges /\ s.metrics \in [Servers -> Gauges]
    BY <1>1 DEF IsState, c
  <2>2. Affect(s.metrics[c], def.effects) \in Gauges
    BY <2>1, AffectFacts DEF def
  <2> QED BY <1>8, <2>1, <2>2
<1>10. IsState(t)
  BY <1>8, <1>9 DEF IsState
<1> QED BY <1>1, <1>8, <1>10 DEF t, c, def

LEMMA RemovalFacts ==
  ASSUME NEW s, IsState(s), NEW m, m.kind = "REMOVE_SERVER", Outcome(s, m) = "ACCEPTED"
  PROVE  LET t == Applied(s, m)
             v == m.server IN
         /\ v \in s.active
         /\ IsState(t)
         /\ t.tick = s.tick /\ t.active = s.active \ {v} /\ t.events = s.events
         /\ t.metrics = [s.metrics EXCEPT ![v] = Zeroed]
         /\ t.history = [s.history EXCEPT ![v] = EmptyHistory]
         /\ t.head = [s.head EXCEPT ![v] = 0]
         /\ t.belief = [s.belief EXCEPT ![v] = 0] /\ t.probed = [s.probed EXCEPT ![v] = 0]
<1> DEFINE v == m.server
           left == s.active \ {v}
           a == applyRemoveServer(s, m)
           done == [a EXCEPT !.events = s.events]
           g == Forgotten(done, v)
           t == Applied(s, m)
<1>1. v \in s.active /\ (Occupants(s, v) # {} => left # {})
  <2>1. v \in s.active
    BY DEF Outcome
  <2>2. ~ (Occupants(s, v) # {} /\ s.active = {v})
    BY DEF Outcome
  <2> QED BY <2>1, <2>2
<1>2. applyTickIntent(s, m) = a /\ t = resetServerSlot(g, v)
  BY DEF applyTickIntent, Applied
<1> DEFINE conn == [h \in Slots |-> IF h \in Occupants(s, v) THEN Min(left) ELSE s.conn[h]]
<1>3. conn \in [Slots -> left \cup {NO_SERVER_ID}]
  <2>1. ASSUME NEW h \in Slots PROVE conn[h] \in left \cup {NO_SERVER_ID}
    <3>1. CASE h \in Occupants(s, v)
      <4>1. left # {} /\ left \in SUBSET Nat
        BY <1>1, <3>1, ServerFacts DEF IsState
      <4>2. Min(left) \in left
        <5> HIDE DEF left
        <5> QED BY <4>1, MinIsMember
      <4> QED BY <3>1, <4>2
    <3>2. CASE h \notin Occupants(s, v)
      <4>1. s.conn[h] # v /\ s.conn[h] \in s.active \cup {NO_SERVER_ID}
        BY <3>2 DEF Occupants, IsState
      <4> QED BY <3>2, <4>1
    <3> QED BY <3>1, <3>2
  <2> QED BY <2>1
<1>4. /\ DOMAIN a = Fields /\ a.tick = s.tick /\ a.active = left /\ a.conn = conn
      /\ a.metrics = [s.metrics EXCEPT ![v] = Zeroed]
      /\ a.history = s.history /\ a.head = s.head /\ a.belief = s.belief /\ a.probed = s.probed
  BY DEF applyRemoveServer, IsState, Fields
<1> HIDE DEF a, conn, left
<1>5. /\ DOMAIN done = Fields /\ done.tick = s.tick /\ done.active = left /\ done.conn = conn
      /\ done.metrics = [s.metrics EXCEPT ![v] = Zeroed] /\ done.events = s.events
      /\ done.history = s.history /\ done.head = s.head
      /\ done.belief = s.belief /\ done.probed = s.probed
  BY <1>4 DEF Fields
<1> HIDE DEF done
<1>6. /\ DOMAIN g = Fields /\ g.tick = s.tick /\ g.active = left /\ g.conn = conn
      /\ g.metrics = [s.metrics EXCEPT ![v] = Zeroed] /\ g.events = s.events
      /\ g.history = s.history /\ g.head = s.head
      /\ g.belief = [s.belief EXCEPT ![v] = 0] /\ g.probed = [s.probed EXCEPT ![v] = 0]
  BY <1>5 DEF Forgotten, Fields
<1> HIDE DEF g
<1>7. t = [g EXCEPT !.metrics[v] = Zeroed, !.history[v] = EmptyHistory, !.head[v] = 0]
  BY <1>2 DEF resetServerSlot
<1> HIDE DEF t
<1>8. /\ DOMAIN t = Fields /\ t.tick = s.tick /\ t.active = left /\ t.conn = conn
      /\ t.metrics = [g.metrics EXCEPT ![v] = Zeroed] /\ t.events = s.events
      /\ t.history = [s.history EXCEPT ![v] = EmptyHistory]
      /\ t.head = [s.head EXCEPT ![v] = 0]
      /\ t.belief = [s.belief EXCEPT ![v] = 0] /\ t.probed = [s.probed EXCEPT ![v] = 0]
  BY <1>6, <1>7 DEF Fields
<1>9. t.metrics = [s.metrics EXCEPT ![v] = Zeroed]
  BY <1>6, <1>8
<1>10. left \in SUBSET Servers /\ v \in Servers
  BY <1>1 DEF IsState, left
<1>11. t.metrics \in [Servers -> Gauges]
  BY <1>9, <1>10, FrameFacts DEF IsState
<1>12. t.history \in [Servers -> [Ring -> Frames]]
  <2>1. EmptyHistory \in [Ring -> Frames]
    BY FrameFacts DEF EmptyHistory, Ring
  <2> QED BY <1>8, <1>10, <2>1 DEF IsState
<1>13. t.head \in [Servers -> 0 .. Byte - 1] /\ t.probed \in [Servers -> 0 .. Byte - 1]
  <2>1. 0 \in 0 .. Byte - 1
    BY DEF Byte
  <2>2. s.head \in [Servers -> 0 .. Byte - 1] /\ s.probed \in [Servers -> 0 .. Byte - 1]
    BY DEF IsState
  <2> QED BY <1>8, <2>1, <2>2
<1>14. t.belief \in [Servers -> 0 .. MAX_HIDERS]
  BY <1>8, <1>10 DEF IsState, MAX_HIDERS
<1>15. IsState(t)
  BY <1>3, <1>8, <1>10, <1>11, <1>12, <1>13, <1>14 DEF IsState
<1> QED BY <1>1, <1>8, <1>9, <1>15 DEF t, left

\* ADD_SERVER, CONNECT and DISCONNECT.
LEMMA RelocationFacts ==
  ASSUME NEW s, IsState(s), NEW m, m.kind \in {"ADD_SERVER", "CONNECT", "DISCONNECT"},
         Outcome(s, m) = "ACCEPTED"
  PROVE  LET t == Applied(s, m) IN
         /\ IsState(t)
         /\ t.tick = s.tick /\ s.active \subseteq t.active /\ t.events = s.events
         /\ t.metrics = s.metrics /\ t.history = s.history /\ t.head = s.head
         /\ t.belief = s.belief /\ t.probed = s.probed
<1> DEFINE a == applyTickIntent(s, m)
           t == Applied(s, m)
<1>1. t = [a EXCEPT !.events = s.events]
  BY DEF Applied
<1>2. /\ DOMAIN a = Fields /\ a.tick = s.tick
      /\ s.active \subseteq a.active /\ a.active \in SUBSET Servers
      /\ a.conn \in [Slots -> a.active \cup {NO_SERVER_ID}]
      /\ a.metrics = s.metrics /\ a.history = s.history /\ a.head = s.head
      /\ a.belief = s.belief /\ a.probed = s.probed
  <2>1. CASE m.kind = "ADD_SERVER"
    <3> DEFINE new == Min(Servers \ s.active)
    <3>1. new \in Servers
      <4>1. Servers \ s.active # {} /\ Servers \ s.active \in SUBSET Nat
        <5>1. s.active # Servers /\ s.active \subseteq Servers
          BY <2>1 DEF Outcome, IsState
        <5> QED BY <5>1, ServerFacts
      <4> QED BY <4>1, MinIsMember
    <3>2. a = applyAddServer(s, m)
      BY <2>1 DEF applyTickIntent
    <3> HIDE DEF a
    <3>3. /\ DOMAIN a = Fields /\ a.tick = s.tick /\ a.active = s.active \cup {new}
          /\ a.conn = s.conn
          /\ a.metrics = s.metrics /\ a.history = s.history /\ a.head = s.head
          /\ a.belief = s.belief /\ a.probed = s.probed
      BY <3>2 DEF applyAddServer, IsState, Fields
    <3> HIDE DEF new
    <3>4. a.conn \in [Slots -> a.active \cup {NO_SERVER_ID}]
      BY <3>3 DEF IsState
    <3> QED BY <3>1, <3>3, <3>4 DEF IsState
  <2>2. CASE m.kind = "CONNECT"
    <3>1. m.server \in s.active
      BY <2>2 DEF Outcome
    <3>2. a = [s EXCEPT !.conn[m.hider] = m.server, !.pool = @ - 1]
      BY <2>2 DEF applyTickIntent
    <3> HIDE DEF a
    <3>3. /\ DOMAIN a = Fields /\ a.tick = s.tick /\ a.active = s.active
          /\ a.conn = [s.conn EXCEPT ![m.hider] = m.server]
          /\ a.metrics = s.metrics /\ a.history = s.history /\ a.head = s.head
          /\ a.belief = s.belief /\ a.probed = s.probed
      BY <3>2 DEF IsState, Fields
    <3> QED BY <3>1, <3>3 DEF IsState
  <2>3. CASE m.kind = "DISCONNECT"
    <3>1. a = [s EXCEPT !.conn[m.hider] = NO_SERVER_ID, !.pool = @ + 1]
      BY <2>3 DEF applyTickIntent
    <3> HIDE DEF a
    <3>2. /\ DOMAIN a = Fields /\ a.tick = s.tick /\ a.active = s.active
          /\ a.conn = [s.conn EXCEPT ![m.hider] = NO_SERVER_ID]
          /\ a.metrics = s.metrics /\ a.history = s.history /\ a.head = s.head
          /\ a.belief = s.belief /\ a.probed = s.probed
      BY <3>1 DEF IsState, Fields
    <3> QED BY <3>2 DEF IsState
  <2> QED BY <2>1, <2>2, <2>3
<1> HIDE DEF a, t
<1>3. /\ DOMAIN t = Fields /\ t.tick = s.tick /\ t.active = a.active /\ t.conn = a.conn
      /\ t.metrics = s.metrics /\ t.history = s.history /\ t.head = s.head
      /\ t.belief = s.belief /\ t.probed = s.probed /\ t.events = s.events
  BY <1>1, <1>2 DEF Fields
<1>4. IsState(t)
  BY <1>2, <1>3 DEF IsState
<1> QED BY <1>2, <1>3, <1>4 DEF t

-----------------------------------------------------------------------------
(* The ring.                                                               *)

\* A head is a byte and a place is it modulo 16: the wrap of one is none of the other.
LEMMA Places ==
  ASSUME NEW h \in 0 .. 255, NEW k \in 0 .. 15
  PROVE  /\ (((h + 1) % 256) + 16 - 1 - k) % 16 = (h + 16 - 1 - (k - 1)) % 16
         /\ (h + 16 - 1 - (k - 1)) % 16 \in 0 .. 15
         /\ (h + 16 - 1 - (k - 1)) % 16 = h % 16 <=> k = 0
         /\ h % 16 \in 0 .. 15
<1>1. CASE h < 255
  <2>1. (h + 1) % 256 = h + 1
    BY <1>1
  <2>2. h + 1 + 16 - 1 - k = h + 16 - 1 - (k - 1)
    OBVIOUS
  <2>3. (h + 16 - 1 - (k - 1)) % 16 = h % 16 <=> k = 0
    OBVIOUS
  <2> QED BY <2>1, <2>2, <2>3
<1>2. CASE h = 255
  <2>1. (h + 1) % 256 = 0
    BY <1>2
  <2>2. (16 - 1 - k) % 16 = 15 - k /\ (255 + 16 - 1 - (k - 1)) % 16 = 15 - k
    OBVIOUS
  <2>3. h % 16 = 15
    BY <1>2
  <2> QED BY <1>2, <2>1, <2>2, <2>3
<1> QED BY <1>1, <1>2

\* The newest frame is at age 0, and the push makes every other one older.
LEMMA PushedRing ==
  ASSUME NEW ring, ring \in [Ring -> Frames], NEW head \in 0 .. Byte - 1, NEW frame,
         NEW k \in 0 .. HISTORY_TICKS - 1
  PROVE  pushMetricFrame(ring, head, frame)[(NextHead(head) + HISTORY_TICKS - 1 - k) % HISTORY_TICKS]
           = IF k = 0 THEN frame
             ELSE ring[(head + HISTORY_TICKS - 1 - (k - 1)) % HISTORY_TICKS]
<1> DEFINE i == (NextHead(head) + HISTORY_TICKS - 1 - k) % HISTORY_TICKS
           j == (head + HISTORY_TICKS - 1 - (k - 1)) % HISTORY_TICKS
<1>1. i = j /\ i \in Ring /\ (i = head % HISTORY_TICKS <=> k = 0) /\ head % HISTORY_TICKS \in Ring
  <2>1. head \in 0 .. 255 /\ k \in 0 .. 15 /\ Ring = 0 .. 15 /\ HISTORY_TICKS = 16
    BY DEF HISTORY_TICKS, Byte, Ring
  <2>2. i = (((head + 1) % 256) + 16 - 1 - k) % 16 /\ j = (head + 16 - 1 - (k - 1)) % 16
    BY <2>1 DEF NextHead, Byte
  <2>3. /\ (((head + 1) % 256) + 16 - 1 - k) % 16 = (head + 16 - 1 - (k - 1)) % 16
        /\ (head + 16 - 1 - (k - 1)) % 16 \in 0 .. 15
        /\ (head + 16 - 1 - (k - 1)) % 16 = head % 16 <=> k = 0
        /\ head % 16 \in 0 .. 15
    <3> HIDE DEF i, j
    <3> QED BY <2>1, Places
  <2> HIDE DEF i, j
  <2>4. i = j /\ i \in Ring /\ (j = head % 16 <=> k = 0) /\ head % 16 \in Ring
    BY <2>1, <2>2, <2>3
  <2> QED BY <2>1, <2>4
<1> HIDE DEF i, j
<1>2. pushMetricFrame(ring, head, frame)[i] = IF k = 0 THEN frame ELSE ring[j]
  BY <1>1 DEF pushMetricFrame
<1> QED BY <1>2 DEF i, j

\* What a server's ring and its log agree on.
LEMMA PushedLog ==
  ASSUME NEW frames \in Seq(Frames), Len(frames) <= HISTORY_TICKS, NEW frame \in Frames
  PROVE  LET new == SubSeq(<<frame>> \o frames, 1, Min({HISTORY_TICKS, Len(frames) + 1})) IN
         /\ new \in Seq(Frames) /\ Len(new) <= HISTORY_TICKS
         /\ \A k \in 0 .. HISTORY_TICKS - 1 :
              (IF k < Len(new) THEN new[k + 1] ELSE Blank)
                = IF k = 0 THEN frame
                  ELSE IF k - 1 < Len(frames) THEN frames[k - 1 + 1] ELSE Blank
<1> DEFINE n == Min({HISTORY_TICKS, Len(frames) + 1})
           all == <<frame>> \o frames
           new == SubSeq(all, 1, n)
<1>1. n = IF HISTORY_TICKS <= Len(frames) + 1 THEN HISTORY_TICKS ELSE Len(frames) + 1
  <2>1. HISTORY_TICKS \in Int /\ Len(frames) + 1 \in Int
    BY DEF HISTORY_TICKS
  <2> QED BY <2>1, MinOfTwo
<1>2. /\ all \in Seq(Frames) /\ Len(all) = Len(frames) + 1 /\ all[1] = frame
      /\ \A i \in 1 .. Len(frames) : all[i + 1] = frames[i]
  OBVIOUS
<1>3. n \in 1 .. Len(all) /\ n <= HISTORY_TICKS
  BY <1>1, <1>2 DEF HISTORY_TICKS
<1> HIDE DEF n, all
<1>4. new \in Seq(Frames) /\ Len(new) = n /\ \A i \in 1 .. n : new[i] = all[i]
  BY <1>2, <1>3
<1> HIDE DEF new
<1>5. ASSUME NEW k \in 0 .. HISTORY_TICKS - 1
      PROVE  (IF k < Len(new) THEN new[k + 1] ELSE Blank)
                = IF k = 0 THEN frame
                  ELSE IF k - 1 < Len(frames) THEN frames[k - 1 + 1] ELSE Blank
  <2>1. CASE k = 0
    BY <1>2, <1>3, <1>4, <2>1
  <2>2. CASE k # 0 /\ k < n
    <3>1. k \in 1 .. Len(frames) /\ k + 1 \in 1 .. n
      BY <1>2, <1>3, <2>2 DEF HISTORY_TICKS
    <3>2. new[k + 1] = all[k + 1] /\ all[k + 1] = frames[k]
      BY <1>2, <1>4, <3>1
    <3> QED BY <1>4, <2>2, <3>1, <3>2
  <2>3. CASE k # 0 /\ ~ (k < n)
    <3>1. ~ (k - 1 < Len(frames))
      BY <1>1, <2>3 DEF HISTORY_TICKS
    <3> QED BY <1>4, <2>3, <3>1
  <2> QED BY <2>1, <2>2, <2>3
<1> QED BY <1>3, <1>4, <1>5 DEF new, n, all

-----------------------------------------------------------------------------
(* The type invariant.                                                     *)

WagerRecords == [tick : Nat \cup {Never}, destroyed : 0 .. MAX_HIDERS]

\* The match's state and the histories kept of it are what their names say.
TypeInv ==
  /\ IsState(st)
  /\ log \in [Servers -> Seq(Frames)] /\ \A v \in Servers : Len(log[v]) <= HISTORY_TICKS
  /\ acted \in [Servers -> Nat \cup {Never}]
  /\ wagered \in [Servers -> WagerRecords]

LEMMA InitialState ==
  ASSUME Init
  PROVE  TypeInv
<1>1. DOMAIN st = Fields
  BY DEF Init, Started, Fields
<1>2. st.tick \in Nat /\ st.events \in Seq(Notices)
  BY DEF Init, Started
<1>3. st.active \in SUBSET Servers
  <2>1. Cardinality(Slots) \in Nat
    BY SeekerAssumption, FS_CardinalityType
  <2> QED BY <2>1, SeekerAssumption DEF Init, Started, Servers
<1>4. st.conn \in [Slots -> st.active \cup {NO_SERVER_ID}]
  BY DEF Init, Started
<1>5. st.metrics \in [Servers -> Gauges]
  BY FrameFacts DEF Init, Started
<1>6. st.history \in [Servers -> [Ring -> Frames]]
  BY FrameFacts DEF Init, Started, EmptyHistory, Ring
<1>7. st.head \in [Servers -> 0 .. Byte - 1] /\ st.probed \in [Servers -> 0 .. Byte - 1]
  <2>1. 0 \in 0 .. Byte - 1
    BY DEF Byte
  <2> QED BY <2>1 DEF Init, Started
<1>8. st.belief \in [Servers -> 0 .. MAX_HIDERS]
  BY DEF Init, Started, MAX_HIDERS
<1>9. IsState(st)
  BY <1>1, <1>2, <1>3, <1>4, <1>5, <1>6, <1>7, <1>8 DEF IsState
<1>10. log \in [Servers -> Seq(Frames)] /\ \A v \in Servers : Len(log[v]) <= HISTORY_TICKS
  BY DEF Init, HISTORY_TICKS
<1>11. acted \in [Servers -> Nat \cup {Never}]
  BY DEF Init
<1>12. wagered \in [Servers -> WagerRecords]
  BY DEF Init, NoWager, WagerRecords, MAX_HIDERS
<1> QED BY <1>9, <1>10, <1>11, <1>12 DEF TypeInv

\* What a move of Next is, by its kind.
LEMMA PlayedMoves ==
  ASSUME NEW m, m.hider \in Slots, m.kind \in Kinds, Play(m)
  PROVE  /\ Outcome(st, m) = "ACCEPTED" /\ st' = Applied(st, m)
         /\ \/ m.kind \in DOMAIN HiderActionDefs
            \/ m.kind = "REMOVE_SERVER"
            \/ m.kind \in {"ADD_SERVER", "CONNECT", "DISCONNECT"}
BY DEF Play, Kinds

LEMMA NextPlays ==
  ASSUME Next, ~ PassTick
  PROVE  \E m : m.hider \in Slots /\ m.kind \in Kinds /\ Play(m)
<1>1. PICK h \in Slots : \E kind \in Moved[h], server \in Servers :
         Play(MoveOf(h, kind, IF kind \in {"CONNECT", "REMOVE_SERVER"} THEN server ELSE NO_SERVER_ID))
  BY DEF Next
<1>2. PICK kind \in Moved[h], server \in Servers :
         Play(MoveOf(h, kind, IF kind \in {"CONNECT", "REMOVE_SERVER"} THEN server ELSE NO_SERVER_ID))
  BY <1>1
<1> DEFINE m == MoveOf(h, kind, IF kind \in {"CONNECT", "REMOVE_SERVER"} THEN server ELSE NO_SERVER_ID)
<1>3. m.hider = h /\ m.kind = kind /\ kind \in Kinds
  BY SeekerAssumption DEF MoveOf
<1> HIDE DEF m
<1> QED BY <1>2, <1>3 DEF m

\* What a move does to each server and what is remembered of it.
LEMMA PlayEffects ==
  ASSUME TypeInv, NEW m, m.hider \in Slots, m.kind \in Kinds, Play(m)
  PROVE  /\ IsState(st') /\ st'.tick = st.tick /\ st'.events = st.events
         /\ log' = [v \in Servers |-> IF v \in Gone(st') THEN <<>> ELSE log[v]]
         /\ wagered' = [v \in Servers |-> IF v \in Gone(st') THEN NoWager ELSE wagered[v]]
         /\ acted' \in [Servers -> Nat \cup {Never}]
         /\ \A v \in Gone(st') :
              /\ v \in Servers
              /\ st'.metrics[v] = Zeroed /\ st'.history[v] = EmptyHistory /\ st'.belief[v] = 0
              /\ acted'[v] = acted[v]
         /\ \A v \in Servers \ Gone(st') :
              /\ st'.history[v] = st.history[v] /\ st'.head[v] = st.head[v]
              /\ st'.belief[v] = st.belief[v] /\ st'.probed[v] = st.probed[v]
              /\ \/ st'.metrics[v] = st.metrics[v] /\ acted'[v] = acted[v]
                 \/ v \in st.active /\ acted'[v] = st.tick
<1> DEFINE t == Applied(st, m)
<1>1. IsState(st) /\ acted \in [Servers -> Nat \cup {Never}] /\ st.tick \in Nat
  BY DEF TypeInv, IsState
<1>2. /\ st' = t
      /\ log' = [v \in Servers |-> IF v \in Gone(st') THEN <<>> ELSE log[v]]
      /\ wagered' = [v \in Servers |-> IF v \in Gone(st') THEN NoWager ELSE wagered[v]]
      /\ acted' = [v \in Servers |-> IF m.kind \in DOMAIN HiderActionDefs /\ v = st.conn[m.hider]
                                     THEN st.tick ELSE acted[v]]
  BY DEF Play
<1>3. acted' \in [Servers -> Nat \cup {Never}]
  BY <1>1, <1>2
<1>4. CASE m.kind \in DOMAIN HiderActionDefs
  <2> DEFINE c == st.conn[m.hider]
  <2>1. /\ c \in st.active /\ IsState(t)
        /\ t.metrics = [st.metrics EXCEPT ![c] = Affect(@, HiderActionDefs[m.kind].effects)]
        /\ t.tick = st.tick /\ t.active = st.active /\ t.history = st.history
        /\ t.head = st.head /\ t.belief = st.belief /\ t.probed = st.probed /\ t.events = st.events
    BY <1>1, <1>4, ActionFacts, PlayedMoves
  <2> HIDE DEF t, c
  <2>2. Gone(st') = {}
    BY <1>2, <2>1 DEF Gone
  <2>3. acted' = [v \in Servers |-> IF v = c THEN st.tick ELSE acted[v]]
    BY <1>2, <1>4 DEF c
  <2>4. ASSUME NEW v \in Servers
        PROVE  \/ st'.metrics[v] = st.metrics[v] /\ acted'[v] = acted[v]
               \/ v \in st.active /\ acted'[v] = st.tick
    <3>1. CASE v = c
      BY <2>1, <2>3, <3>1
    <3>2. CASE v # c
      BY <1>1, <1>2, <2>1, <2>3, <3>2 DEF IsState
    <3> QED BY <3>1, <3>2
  <2> QED BY <1>2, <1>3, <2>1, <2>2, <2>4
<1>5. CASE m.kind = "REMOVE_SERVER"
  <2> DEFINE r == m.server
  <2>1. /\ r \in st.active /\ IsState(t)
        /\ t.tick = st.tick /\ t.active = st.active \ {r} /\ t.events = st.events
        /\ t.metrics = [st.metrics EXCEPT ![r] = Zeroed]
        /\ t.history = [st.history EXCEPT ![r] = EmptyHistory]
        /\ t.head = [st.head EXCEPT ![r] = 0]
        /\ t.belief = [st.belief EXCEPT ![r] = 0] /\ t.probed = [st.probed EXCEPT ![r] = 0]
    BY <1>1, <1>5, RemovalFacts, PlayedMoves
  <2> HIDE DEF t
  <2>2. Gone(st') = {r}
    BY <1>2, <2>1 DEF Gone
  <2>3. acted' = acted
    <3>1. m.kind \notin DOMAIN HiderActionDefs
      BY <1>5 DEF HiderActionDefs
    <3> QED BY <1>1, <1>2, <3>1
  <2>4. r \in Servers
    BY <1>1, <2>1 DEF IsState
  <2>5. /\ st'.metrics[r] = Zeroed /\ st'.history[r] = EmptyHistory /\ st'.belief[r] = 0
    BY <1>1, <1>2, <2>1, <2>4 DEF IsState
  <2>6. \A v \in Servers \ {r} :
          /\ st'.history[v] = st.history[v] /\ st'.head[v] = st.head[v]
          /\ st'.belief[v] = st.belief[v] /\ st'.probed[v] = st.probed[v]
          /\ st'.metrics[v] = st.metrics[v]
    BY <1>1, <1>2, <2>1, <2>4 DEF IsState
  <2> QED BY <1>2, <1>3, <2>1, <2>2, <2>3, <2>4, <2>5, <2>6
<1>6. CASE m.kind \in {"ADD_SERVER", "CONNECT", "DISCONNECT"}
  <2>1. /\ IsState(t)
        /\ t.tick = st.tick /\ st.active \subseteq t.active /\ t.events = st.events
        /\ t.metrics = st.metrics /\ t.history = st.history /\ t.head = st.head
        /\ t.belief = st.belief /\ t.probed = st.probed
    BY <1>1, <1>6, RelocationFacts, PlayedMoves
  <2> HIDE DEF t
  <2>2. Gone(st') = {}
    BY <1>2, <2>1 DEF Gone
  <2>3. acted' = acted
    <3>1. m.kind \notin DOMAIN HiderActionDefs
      BY <1>6 DEF HiderActionDefs
    <3> QED BY <1>1, <1>2, <3>1
  <2> QED BY <1>2, <1>3, <2>1, <2>2, <2>3
<1> QED BY <1>4, <1>5, <1>6, PlayedMoves

\* What a tick does to each server and what is remembered of it.
LEMMA TickEffects ==
  ASSUME TypeInv, PassTick
  PROVE  /\ IsState(st') /\ st'.tick = st.tick + 1 /\ st'.active = st.active
         /\ acted' = acted
         /\ \A v \in Servers \ st.active :
              st'.metrics[v] = st.metrics[v] /\ st'.history[v] = st.history[v] /\ log'[v] = <<>>
         /\ \A v \in st.active :
              /\ st'.metrics[v] = Rested(st.metrics[v])
              /\ \A k \in Ring :
                   /\ frameAgo(st', v, k) = IF k = 0 THEN currentFrame(st', v) ELSE frameAgo(st, v, k - 1)
                   /\ LoggedAgo(v, k)' = IF k = 0 THEN currentFrame(st', v) ELSE LoggedAgo(v, k - 1)
         /\ log' \in [Servers -> Seq(Frames)] /\ \A v \in Servers : Len(log'[v]) <= HISTORY_TICKS
         /\ wagered' = [v \in Servers |-> IF v \in Probes(st')
                                          THEN [tick |-> st'.tick, destroyed |-> st'.belief[v]]
                                          ELSE wagered[v]]
         /\ \A v \in Servers :
              IF v \in Probes(st')
              THEN /\ st'.probed[v] = st'.tick % Byte
                   /\ v \in st.mask \cap st.active
                   /\ WagerOf(ScoresOf(policy, Drifted(st))[v].wager) >= 1
              ELSE st'.belief[v] = st.belief[v] /\ st'.probed[v] = st.probed[v]
<1> DEFINE d == Drifted(st)
<1>1. IsState(st) /\ st' = Ticked(policy, st) /\ acted' = acted
  BY DEF TypeInv, PassTick
<1>2. /\ IsState(st') /\ st'.tick = st.tick + 1 /\ st'.active = st.active
      /\ st'.metrics = d.metrics /\ st'.history = d.history /\ st'.head = d.head
      /\ \A v \in Servers :
           IF v \in Probes(st')
           THEN /\ st'.probed[v] = st'.tick % Byte
                /\ v \in st.mask \cap st.active /\ WagerOf(ScoresOf(policy, d)[v].wager) >= 1
           ELSE st'.belief[v] = st.belief[v] /\ st'.probed[v] = st.probed[v]
  BY <1>1, TickFacts
<1>3. /\ \A v \in Servers \ st.active :
           /\ d.metrics[v] = st.metrics[v] /\ d.history[v] = st.history[v]
      /\ \A v \in st.active :
           /\ d.metrics[v] = Rested(st.metrics[v])
           /\ d.history[v] = pushMetricFrame(st.history[v], st.head[v], currentFrame(d, v))
           /\ d.head[v] = NextHead(st.head[v])
  BY <1>1, DriftedFacts
<1> HIDE DEF d
<1>4. \A v : currentFrame(st', v) = currentFrame(d, v)
  BY <1>2 DEF currentFrame
<1>5. \A v \in Servers : currentFrame(st', v) \in Frames
  BY <1>2, CurrentFrames DEF IsState
<1>6. log' = [v \in Servers |->
                IF v \notin st.active THEN <<>>
                ELSE SubSeq(<<currentFrame(st', v)>> \o log[v], 1, Min({HISTORY_TICKS, Len(log[v]) + 1}))]
  BY DEF PassTick
<1>7. ASSUME NEW v \in Servers
      PROVE  log'[v] \in Seq(Frames) /\ Len(log'[v]) <= HISTORY_TICKS
  <2>1. CASE v \notin st.active
    BY <1>6, <2>1 DEF HISTORY_TICKS
  <2>2. CASE v \in st.active
    <3>1. log[v] \in Seq(Frames) /\ Len(log[v]) <= HISTORY_TICKS
      BY DEF TypeInv
    <3>2. log'[v] = SubSeq(<<currentFrame(st', v)>> \o log[v], 1, Min({HISTORY_TICKS, Len(log[v]) + 1}))
      BY <1>6, <2>2
    <3> QED BY <1>5, <3>1, <3>2, PushedLog
  <2> QED BY <2>1, <2>2
<1>8. log' \in [Servers -> Seq(Frames)]
  BY <1>6, <1>7
<1>9. ASSUME NEW v \in st.active, NEW k \in Ring
      PROVE  /\ frameAgo(st', v, k) = IF k = 0 THEN currentFrame(st', v) ELSE frameAgo(st, v, k - 1)
             /\ LoggedAgo(v, k)' = IF k = 0 THEN currentFrame(st', v) ELSE LoggedAgo(v, k - 1)
  <2>1. v \in Servers /\ k \in 0 .. HISTORY_TICKS - 1
    BY <1>1 DEF IsState, Ring
  <2>2. st.history[v] \in [Ring -> Frames] /\ st.head[v] \in 0 .. Byte - 1
    BY <1>1, <2>1 DEF IsState
  <2>3. /\ st'.history[v] = pushMetricFrame(st.history[v], st.head[v], currentFrame(st', v))
        /\ st'.head[v] = NextHead(st.head[v])
    BY <1>2, <1>3, <1>4
  <2>4. frameAgo(st', v, k) = IF k = 0 THEN currentFrame(st', v) ELSE frameAgo(st, v, k - 1)
    <3> DEFINE ring == st.history[v]
               head == st.head[v]
               frame == currentFrame(st', v)
               pushed == pushMetricFrame(ring, head, frame)
               old == ring[(head + HISTORY_TICKS - 1 - (k - 1)) % HISTORY_TICKS]
    <3>1. pushed[(NextHead(head) + HISTORY_TICKS - 1 - k) % HISTORY_TICKS]
            = IF k = 0 THEN frame ELSE old
      <4>1. ring \in [Ring -> Frames] /\ head \in 0 .. Byte - 1 /\ k \in 0 .. HISTORY_TICKS - 1
        BY <2>1, <2>2
      <4> HIDE DEF ring, head, frame
      <4> QED BY <4>1, PushedRing
    <3>2. frameAgo(st, v, k - 1) = old
      BY DEF frameAgo
    <3>3. frameAgo(st', v, k) = pushed[(NextHead(st.head[v]) + HISTORY_TICKS - 1 - k) % HISTORY_TICKS]
      <4> HIDE DEF pushed
      <4> QED BY <2>3 DEF frameAgo, pushed
    <3> HIDE DEF pushed, old
    <3> QED BY <3>1, <3>2, <3>3
  <2>5. log[v] \in Seq(Frames) /\ Len(log[v]) <= HISTORY_TICKS
    BY <2>1 DEF TypeInv
  <2>6. log'[v] = SubSeq(<<currentFrame(st', v)>> \o log[v], 1, Min({HISTORY_TICKS, Len(log[v]) + 1}))
    BY <1>6, <2>1
  <2>7. currentFrame(st', v) \in Frames
    BY <1>5, <2>1
  <2>8. LoggedAgo(v, k)' = IF k = 0 THEN currentFrame(st', v) ELSE LoggedAgo(v, k - 1)
    BY <2>1, <2>5, <2>6, <2>7, PushedLog DEF LoggedAgo
  <2> QED BY <2>4, <2>8
<1>10. \A v \in Servers \ st.active : log'[v] = <<>>
  BY <1>6
<1>11. wagered' = [v \in Servers |-> IF v \in Probes(st')
                                     THEN [tick |-> st'.tick, destroyed |-> st'.belief[v]]
                                     ELSE wagered[v]]
  BY DEF PassTick
<1> QED BY <1>1, <1>2, <1>3, <1>7, <1>8, <1>9, <1>10, <1>11 DEF d

LEMMA TypeStep ==
  ASSUME TypeInv, [Next]_vars
  PROVE  TypeInv'
<1>1. CASE PassTick
  <2>1. /\ IsState(st') /\ acted' = acted
        /\ log' \in [Servers -> Seq(Frames)] /\ \A v \in Servers : Len(log'[v]) <= HISTORY_TICKS
        /\ wagered' = [v \in Servers |-> IF v \in Probes(st')
                                         THEN [tick |-> st'.tick, destroyed |-> st'.belief[v]]
                                         ELSE wagered[v]]
    BY <1>1, TickEffects
  <2>2. wagered' \in [Servers -> WagerRecords]
    <3>1. st'.tick \in Nat /\ st'.belief \in [Servers -> 0 .. MAX_HIDERS]
      BY <2>1 DEF IsState
    <3> QED BY <2>1, <3>1 DEF TypeInv, WagerRecords
  <2> QED BY <2>1, <2>2 DEF TypeInv
<1>2. ASSUME NEW m, m.hider \in Slots, m.kind \in Kinds, Play(m) PROVE TypeInv'
  <2>1. /\ IsState(st') /\ acted' \in [Servers -> Nat \cup {Never}]
        /\ log' = [v \in Servers |-> IF v \in Gone(st') THEN <<>> ELSE log[v]]
        /\ wagered' = [v \in Servers |-> IF v \in Gone(st') THEN NoWager ELSE wagered[v]]
    BY <1>2, PlayEffects
  <2>2. log' \in [Servers -> Seq(Frames)] /\ \A v \in Servers : Len(log'[v]) <= HISTORY_TICKS
    BY <2>1 DEF TypeInv, HISTORY_TICKS
  <2>3. NoWager \in WagerRecords
    BY DEF NoWager, WagerRecords, MAX_HIDERS
  <2>4. wagered' \in [Servers -> WagerRecords]
    BY <2>1, <2>3 DEF TypeInv
  <2> QED BY <2>1, <2>2, <2>4 DEF TypeInv
<1>3. CASE UNCHANGED vars
  BY <1>3 DEF vars, TypeInv
<1> QED BY <1>1, <1>2, <1>3, NextPlays

-----------------------------------------------------------------------------
(* What is remembered is what happened.                                    *)

\* Every place of an active server's ring holds the logged frame; a slot without a
\* server has no past.
RingInv ==
  \A v \in Servers :
    IF v \in st.active
    THEN \A k \in Ring : frameAgo(st, v, k) = LoggedAgo(v, k)
    ELSE st.metrics[v] = Zeroed /\ st.history[v] = EmptyHistory /\ log[v] = <<>>

\* The belief is what the last wager destroyed, and the byte is its tick's low one.
WagerInv ==
  \A v \in Servers :
    /\ st.belief[v] = wagered[v].destroyed
    /\ \/ wagered[v] = NoWager
       \/ wagered[v].tick \in 0 .. st.tick /\ st.probed[v] = wagered[v].tick % Byte

LEMMA EmptyRing ==
  ASSUME NEW s, IsState(s), NEW v \in Servers, s.history[v] = EmptyHistory, NEW k \in Ring
  PROVE  frameAgo(s, v, k) = Blank
<1> DEFINE h == s.head[v]
<1>1. h \in 0 .. 255
  BY DEF IsState, Byte
<1>2. k \in 0 .. 15
  BY DEF Ring, HISTORY_TICKS
<1> HIDE DEF h
<1>3. (h + 16 - 1 - k) % 16 \in 0 .. 15
  BY <1>1, <1>2
<1> QED BY <1>3 DEF frameAgo, EmptyHistory, HISTORY_TICKS, h

LEMMA RingInitially ==
  ASSUME Init
  PROVE  RingInv
<1>1. IsState(st) /\ \A v \in Servers : st.history[v] = EmptyHistory /\ log[v] = <<>>
  BY InitialState DEF TypeInv, Init, Started
<1>2. \A v \in Servers : st.metrics[v] = Zeroed
  BY DEF Init, Started
<1>3. \A v \in Servers, k \in Ring : LoggedAgo(v, k) = Blank
  BY <1>1 DEF LoggedAgo, Ring, HISTORY_TICKS
<1> QED BY <1>1, <1>2, <1>3, EmptyRing DEF RingInv

LEMMA RingStep ==
  ASSUME TypeInv, RingInv, [Next]_vars
  PROVE  RingInv'
<1>1. CASE PassTick
  <2>1. /\ st'.active = st.active
        /\ \A v \in Servers \ st.active :
             st'.metrics[v] = st.metrics[v] /\ st'.history[v] = st.history[v] /\ log'[v] = <<>>
    BY <1>1, TickEffects
  <2>2. ASSUME NEW v \in st.active, NEW k \in Ring
        PROVE  frameAgo(st', v, k) = LoggedAgo(v, k)'
    <3>1. /\ frameAgo(st', v, k) = IF k = 0 THEN currentFrame(st', v) ELSE frameAgo(st, v, k - 1)
          /\ LoggedAgo(v, k)' = IF k = 0 THEN currentFrame(st', v) ELSE LoggedAgo(v, k - 1)
      BY <1>1, TickEffects
    <3>2. CASE k = 0
      BY <3>1, <3>2
    <3>3. CASE k # 0
      <4>1. k - 1 \in Ring /\ v \in Servers
        BY <3>3 DEF Ring, HISTORY_TICKS, TypeInv, IsState
      <4> QED BY <3>1, <3>3, <4>1 DEF RingInv
    <3> QED BY <3>2, <3>3
  <2> QED BY <2>1, <2>2 DEF RingInv
<1>2. ASSUME NEW m, m.hider \in Slots, m.kind \in Kinds, Play(m) PROVE RingInv'
  <2>1. /\ IsState(st')
        /\ log' = [v \in Servers |-> IF v \in Gone(st') THEN <<>> ELSE log[v]]
        /\ \A v \in Gone(st') : st'.metrics[v] = Zeroed /\ st'.history[v] = EmptyHistory
        /\ \A v \in Servers \ Gone(st') :
             /\ st'.history[v] = st.history[v] /\ st'.head[v] = st.head[v]
             /\ st'.metrics[v] = st.metrics[v] \/ v \in st.active
    BY <1>2, PlayEffects
  <2>2. ASSUME NEW v \in Servers
        PROVE  IF v \in st'.active
               THEN \A k \in Ring : frameAgo(st', v, k) = LoggedAgo(v, k)'
               ELSE st'.metrics[v] = Zeroed /\ st'.history[v] = EmptyHistory /\ log'[v] = <<>>
    <3>1. CASE v \in Gone(st')
      <4>1. v \notin st'.active
        BY <3>1 DEF Gone
      <4> QED BY <2>1, <3>1, <4>1
    <3>2. CASE v \notin Gone(st')
      <4>1. log'[v] = log[v] /\ \A k : frameAgo(st', v, k) = frameAgo(st, v, k)
        BY <2>1, <3>2 DEF frameAgo
      <4>2. \A k \in Ring : LoggedAgo(v, k)' = LoggedAgo(v, k)
        BY <4>1 DEF LoggedAgo
      <4>3. CASE v \in st.active
        <5>1. v \in st'.active
          BY <3>2, <4>3 DEF Gone
        <5> QED BY <4>1, <4>2, <4>3, <5>1 DEF RingInv
      <4>4. CASE v \notin st.active
        <5>1. st.metrics[v] = Zeroed /\ st.history[v] = EmptyHistory /\ log[v] = <<>>
          BY <4>4 DEF RingInv
        <5>2. st'.metrics[v] = Zeroed /\ st'.history[v] = EmptyHistory /\ log'[v] = <<>>
          BY <2>1, <3>2, <4>1, <4>4, <5>1
        <5>3. \A k \in Ring : LoggedAgo(v, k)' = Blank
          BY <5>2 DEF LoggedAgo, Ring, HISTORY_TICKS
        <5>4. \A k \in Ring : frameAgo(st', v, k) = Blank
          BY <2>1, <5>2, EmptyRing
        <5> QED BY <5>2, <5>3, <5>4
      <4> QED BY <4>3, <4>4
    <3> QED BY <3>1, <3>2
  <2> QED BY <2>2 DEF RingInv
<1>3. CASE UNCHANGED vars
  BY <1>3 DEF vars, RingInv, LoggedAgo
<1> QED BY <1>1, <1>2, <1>3, NextPlays

LEMMA WagerStepInv ==
  ASSUME TypeInv, WagerInv, [Next]_vars
  PROVE  WagerInv'
<1>0. st.tick \in Nat /\ wagered \in [Servers -> WagerRecords]
  BY DEF TypeInv, IsState
<1>1. CASE PassTick
  <2>1. /\ st'.tick = st.tick + 1
        /\ wagered' = [v \in Servers |-> IF v \in Probes(st')
                                         THEN [tick |-> st'.tick, destroyed |-> st'.belief[v]]
                                         ELSE wagered[v]]
        /\ \A v \in Servers :
             IF v \in Probes(st')
             THEN st'.probed[v] = st'.tick % Byte
             ELSE st'.belief[v] = st.belief[v] /\ st'.probed[v] = st.probed[v]
    BY <1>1, TickEffects
  <2>2. ASSUME NEW v \in Servers
        PROVE  /\ st'.belief[v] = wagered'[v].destroyed
               /\ \/ wagered'[v] = NoWager
                  \/ wagered'[v].tick \in 0 .. st'.tick /\ st'.probed[v] = wagered'[v].tick % Byte
    <3>1. CASE v \in Probes(st')
      <4>1. wagered'[v] = [tick |-> st'.tick, destroyed |-> st'.belief[v]]
        BY <2>1, <3>1
      <4>2. st'.tick \in 0 .. st'.tick /\ st'.probed[v] = st'.tick % Byte
        BY <1>0, <2>1, <3>1
      <4> QED BY <4>1, <4>2
    <3>2. CASE v \notin Probes(st')
      <4>1. wagered'[v] = wagered[v] /\ st'.belief[v] = st.belief[v] /\ st'.probed[v] = st.probed[v]
        BY <2>1, <3>2
      <4>2. wagered[v].tick \in 0 .. st.tick => wagered[v].tick \in 0 .. st'.tick
        BY <1>0, <2>1
      <4> QED BY <4>1, <4>2 DEF WagerInv
    <3> QED BY <3>1, <3>2
  <2> QED BY <2>2 DEF WagerInv
<1>2. ASSUME NEW m, m.hider \in Slots, m.kind \in Kinds, Play(m) PROVE WagerInv'
  <2>1. /\ st'.tick = st.tick
        /\ wagered' = [v \in Servers |-> IF v \in Gone(st') THEN NoWager ELSE wagered[v]]
        /\ \A v \in Gone(st') : st'.belief[v] = 0
        /\ \A v \in Servers \ Gone(st') :
             st'.belief[v] = st.belief[v] /\ st'.probed[v] = st.probed[v]
    BY <1>2, PlayEffects
  <2> QED BY <2>1 DEF WagerInv, NoWager
<1>3. CASE UNCHANGED vars
  BY <1>3 DEF vars, WagerInv
<1> QED BY <1>1, <1>2, <1>3, NextPlays

\* A byte's difference is the ticks between, as long as they are less than 256.
LEMMA Since ==
  ASSUME NEW now \in Nat, NEW before \in 0 .. now, now - before < 256
  PROVE  (now - (before % 256)) % 256 = now - before
<1>1. PICK q \in Int, r \in 0 .. 255 : before = 256 * q + r
  <2>1. before = 256 * (before \div 256) + (before % 256) /\ before % 256 \in 0 .. 255
    OBVIOUS
  <2> QED BY <2>1
<1>2. before % 256 = r
  BY <1>1
<1>3. now - r = 256 * q + (now - before)
  BY <1>1
<1>4. (256 * q + (now - before)) % 256 = now - before
  BY <1>1
<1> QED BY <1>2, <1>3, <1>4

\* The invariants say what the property says of the observation and of the views.
LEMMA MemoryFollows ==
  ASSUME TypeInv, RingInv, WagerInv
  PROVE  MemoryIsTrue
<1>1. st.active \subseteq Servers /\ st.tick \in Nat /\ IsState(st)
  BY DEF TypeInv, IsState
<1>2. HistoryIsTheRecord
  <2>1. ASSUME NEW v \in st.active, NEW k \in 0 .. HISTORY_TICKS - 1
        PROVE  /\ frameAgo(st, v, k) = LoggedAgo(v, k)
               /\ renderHistory(st, v)[HISTORY_TICKS - k] = frameAgo(st, v, k)
    <3>1. frameAgo(st, v, k) = LoggedAgo(v, k)
      BY <1>1, <2>1 DEF RingInv, Ring
    <3> DEFINE h == st.head[v]
    <3>2. h \in 0 .. 255 /\ k \in 0 .. 15
      <4>1. v \in Servers /\ st.head \in [Servers -> 0 .. Byte - 1]
        BY <1>1 DEF IsState
      <4>2. h \in 0 .. Byte - 1
        BY <4>1
      <4> HIDE DEF h
      <4> QED BY <4>2 DEF Byte, HISTORY_TICKS
    <3> HIDE DEF h
    <3>3. 16 - k \in 1 .. 16 /\ h + (16 - k) - 1 = h + 16 - 1 - k
      BY <3>2
    <3>4. renderHistory(st, v)[16 - k] = st.history[v][(h + (16 - k) - 1) % 16]
      BY <3>3 DEF renderHistory, HISTORY_TICKS, h
    <3>5. frameAgo(st, v, k) = st.history[v][(h + 16 - 1 - k) % 16]
      BY DEF frameAgo, HISTORY_TICKS, h
    <3> QED BY <3>1, <3>3, <3>4, <3>5 DEF HISTORY_TICKS
  <2> QED BY <2>1 DEF HistoryIsTheRecord
<1>3. ASSUME NEW v \in st.active
      PROVE  LET f == serverFeatures(st, v)
                 since == st.tick - wagered[v].tick
             IN /\ f.belief = 32 * wagered[v].destroyed
                /\ since < Byte => f.since = 8 * Min({since, 32})
  <2> DEFINE f == serverFeatures(st, v)
             since == st.tick - wagered[v].tick
             byte == (st.tick - st.probed[v]) % Byte
  <2>1. f.belief = Min({st.belief[v], 8}) * 32 /\ f.since = Min({byte, 32}) * 8
    BY DEF serverFeatures
  <2>2. v \in Servers /\ st.belief[v] \in 0 .. 8
    BY <1>1 DEF IsState, MAX_HIDERS
  <2>3. Min({st.belief[v], 8}) = st.belief[v]
    <3>1. st.belief[v] \in Int /\ 8 \in Int /\ st.belief[v] <= 8
      BY <2>2
    <3> QED BY <3>1, MinOfTwo
  <2>4. f.belief = 32 * wagered[v].destroyed
    <3>1. st.belief[v] = wagered[v].destroyed
      BY <2>2 DEF WagerInv
    <3> HIDE DEF f
    <3> QED BY <2>1, <2>2, <2>3, <3>1
  <2>5. ASSUME since < Byte PROVE f.since = 8 * Min({since, 32})
    <3>1. wagered[v] # NoWager
      <4> SUFFICES ASSUME wagered[v] = NoWager PROVE FALSE
        OBVIOUS
      <4>1. wagered[v].tick = -1000
        BY DEF NoWager, Never
      <4> QED BY <1>1, <2>5, <4>1 DEF Byte
    <3>2. wagered[v].tick \in 0 .. st.tick /\ st.probed[v] = wagered[v].tick % 256
      BY <2>2, <3>1 DEF WagerInv, Byte
    <3>3. byte = since
      BY <1>1, <2>5, <3>2, Since DEF Byte
    <3>4. since \in Int
      BY <1>1, <3>2
    <3> DEFINE a == Min({since, 32})
    <3>5. a \in Int
      <4>1. a = IF since <= 32 THEN since ELSE 32
        <5> HIDE DEF since
        <5> QED BY <3>4, MinOfTwo
      <4> HIDE DEF since, a
      <4> QED BY <3>4, <4>1
    <3>6. f.since = a * 8
      <4> HIDE DEF f, byte, since
      <4> QED BY <2>1, <3>3
    <3> HIDE DEF f, a
    <3> QED BY <3>5, <3>6 DEF a
  <2> QED BY <2>4, <2>5
<1> QED BY <1>2, <1>3 DEF MemoryIsTrue, SeekerRemembers

-----------------------------------------------------------------------------
(* The baseline only hears what was done.                                  *)

\* A server's newest frame is what it is now unless somebody acted since, and one
\* tick changes it by no more than the drift unless somebody acted in between.
Steady(v) ==
  \A m \in Visible :
    /\ acted[v] # st.tick => st.metrics[v][m] = frameAgo(st, v, 0)[m]
    /\ acted[v] < st.tick - 1 =>
         frameAgo(st, v, 0)[m] \in frameAgo(st, v, 1)[m] - 1 .. frameAgo(st, v, 1)[m]
NoiseInv == \A v \in Servers : acted[v] <= st.tick /\ Steady(v)

LEMMA NoiseInitially ==
  ASSUME Init
  PROVE  NoiseInv
<1>1. ASSUME NEW v \in Servers
      PROVE  acted[v] <= st.tick /\ Steady(v)
  <2>1. acted[v] = -1000 /\ st.tick = 0
    BY DEF Init, Started, Never
  <2>2. IsState(st) /\ st.history[v] = EmptyHistory /\ st.metrics[v] = Zeroed
    BY InitialState DEF TypeInv, Init, Started
  <2>3. 0 \in Ring /\ 1 \in Ring
    BY DEF Ring, HISTORY_TICKS
  <2>4. frameAgo(st, v, 0) = Blank /\ frameAgo(st, v, 1) = Blank
    BY <2>2, <2>3, EmptyRing
  <2>5. ASSUME NEW x \in Visible PROVE Blank[x] = 0 /\ st.metrics[v][x] = 0
    <3>1. DOMAIN Blank = Visible /\ x \in DOMAIN Drift
      BY FrameFacts
    <3> QED BY <2>2, <3>1 DEF Blank, Zeroed
  <2> QED BY <2>1, <2>4, <2>5 DEF Steady
<1> QED BY <1>1 DEF NoiseInv

LEMMA AgesAreFrames ==
  ASSUME NEW s, IsState(s), NEW v \in Servers, NEW k \in Ring
  PROVE  frameAgo(s, v, k) \in Frames
<1> DEFINE h == s.head[v]
<1>1. h \in 0 .. Byte - 1 /\ s.history[v] \in [Ring -> Frames]
  BY DEF IsState
<1>2. k \in 0 .. 15 /\ Ring = 0 .. 15
  BY DEF Ring, HISTORY_TICKS
<1> HIDE DEF h
<1>3. h \in 0 .. 255
  BY <1>1 DEF Byte
<1>4. (h + 16 - 1 - k) % 16 \in 0 .. 15
  BY <1>2, <1>3
<1> QED BY <1>1, <1>2, <1>4 DEF frameAgo, HISTORY_TICKS, h

LEMMA NoiseStep ==
  ASSUME TypeInv, RingInv, NoiseInv, [Next]_vars
  PROVE  NoiseInv'
<1>0. IsState(st) /\ st.tick \in Nat /\ acted \in [Servers -> Nat \cup {-1000}]
  BY DEF TypeInv, IsState, Never
<1>00. 0 \in Ring /\ 1 \in Ring
  BY DEF Ring, HISTORY_TICKS
<1>1. CASE PassTick
  <2>1. /\ IsState(st') /\ st'.tick = st.tick + 1 /\ acted' = acted
        /\ \A v \in Servers \ st.active :
             st'.metrics[v] = st.metrics[v] /\ st'.history[v] = st.history[v]
        /\ \A v \in st.active :
             /\ st'.metrics[v] = Rested(st.metrics[v])
             /\ \A k \in Ring :
                  frameAgo(st', v, k) = IF k = 0 THEN currentFrame(st', v) ELSE frameAgo(st, v, k - 1)
    BY <1>1, TickEffects
  <2>2. ASSUME NEW v \in Servers
        PROVE  /\ acted'[v] <= st'.tick
               /\ \A x \in Visible :
                    /\ acted'[v] # st'.tick => st'.metrics[v][x] = frameAgo(st', v, 0)[x]
                    /\ acted'[v] < st'.tick - 1 =>
                         frameAgo(st', v, 0)[x] \in frameAgo(st', v, 1)[x] - 1 .. frameAgo(st', v, 1)[x]
    <3>1. acted[v] \in Int /\ acted[v] <= st.tick /\ acted'[v] = acted[v] /\ acted[v] <= st'.tick
      BY <1>0, <2>1 DEF NoiseInv
    <3>2. CASE v \in st.active
      <4>1. frameAgo(st', v, 0) = currentFrame(st', v) /\ frameAgo(st', v, 1) = frameAgo(st, v, 0)
        <5>1. 1 - 1 = 0 /\ 1 # 0
          OBVIOUS
        <5> QED BY <1>00, <2>1, <3>2, <5>1
      <4>2. st.metrics[v] \in Gauges /\ frameAgo(st, v, 0) \in Frames
        <5>1. st.metrics[v] \in Gauges
          BY <1>0 DEF IsState
        <5> QED BY <1>0, <1>00, <5>1, AgesAreFrames
      <4>3. ASSUME NEW x \in Visible
            PROVE  /\ st'.metrics[v][x] = frameAgo(st', v, 0)[x]
                   /\ acted[v] < st.tick =>
                        frameAgo(st', v, 0)[x] \in frameAgo(st', v, 1)[x] - 1 .. frameAgo(st', v, 1)[x]
        <5>1. currentFrame(st', v)[x] = st'.metrics[v][x]
          BY FrameFacts
        <5>2. st'.metrics[v][x] = Rested(st.metrics[v])[x]
          BY <2>1, <3>2
        <5>3. st.metrics[v][x] \in Nat /\ frameAgo(st, v, 0)[x] \in Nat
          BY <4>2 DEF Gauges, Frames, Drift, Visible, MetricMax
        <5>4. Rested(st.metrics[v])[x] \in st.metrics[v][x] - 1 .. st.metrics[v][x]
          <6>1. CASE x = "ERRORS"
            <7>1. st.metrics[v]["ERRORS"] = 0 /\ Rested(st.metrics[v])["ERRORS"] = 0
              BY <4>2, RestedFacts DEF Gauges
            <7> QED BY <6>1, <7>1
          <6>2. CASE x # "ERRORS"
            <7>1. x \in {"CPU", "NETWORK"}
              BY <6>2 DEF Visible
            <7>2. Rested(st.metrics[v])[x] = IF st.metrics[v][x] = 0 THEN 0 ELSE st.metrics[v][x] - 1
              BY <4>2, <7>1, RestedFacts
            <7> QED BY <5>3, <7>2
          <6> QED BY <6>1, <6>2
        <5>5. ASSUME acted[v] < st.tick PROVE st.metrics[v][x] = frameAgo(st, v, 0)[x]
          <6>1. acted[v] # st.tick
            BY <1>0, <3>1, <5>5
          <6> QED BY <6>1 DEF NoiseInv, Steady
        <5> QED BY <4>1, <5>1, <5>2, <5>4, <5>5
      <4>4. acted[v] < st'.tick - 1 => acted[v] < st.tick
        BY <1>0, <2>1, <3>1
      <4> QED BY <3>1, <4>3, <4>4
    <3>3. CASE v \notin st.active
      <4>1. /\ st'.metrics[v] = Zeroed /\ st'.history[v] = EmptyHistory
        BY <2>1, <3>3 DEF RingInv
      <4>2. frameAgo(st', v, 0) = Blank /\ frameAgo(st', v, 1) = Blank
        BY <1>00, <2>1, <4>1, EmptyRing
      <4>3. \A x \in Visible : Blank[x] = 0 /\ Zeroed[x] = 0
        <5>1. DOMAIN Blank = Visible /\ Visible \subseteq DOMAIN Drift
          BY FrameFacts
        <5> QED BY <5>1 DEF Blank, Zeroed
      <4> QED BY <3>1, <4>1, <4>2, <4>3
    <3> QED BY <3>2, <3>3
  <2> QED BY <2>2 DEF NoiseInv, Steady
<1>2. ASSUME NEW m, m.hider \in Slots, m.kind \in Kinds, Play(m) PROVE NoiseInv'
  <2>1. /\ IsState(st') /\ st'.tick = st.tick
        /\ \A v \in Gone(st') :
             st'.metrics[v] = Zeroed /\ st'.history[v] = EmptyHistory /\ acted'[v] = acted[v]
        /\ \A v \in Servers \ Gone(st') :
             /\ st'.history[v] = st.history[v] /\ st'.head[v] = st.head[v]
             /\ \/ st'.metrics[v] = st.metrics[v] /\ acted'[v] = acted[v]
                \/ v \in st.active /\ acted'[v] = st.tick
    BY <1>2, PlayEffects
  <2>2. ASSUME NEW v \in Servers
        PROVE  /\ acted'[v] <= st'.tick
               /\ \A x \in Visible :
                    /\ acted'[v] # st'.tick => st'.metrics[v][x] = frameAgo(st', v, 0)[x]
                    /\ acted'[v] < st'.tick - 1 =>
                         frameAgo(st', v, 0)[x] \in frameAgo(st', v, 1)[x] - 1 .. frameAgo(st', v, 1)[x]
    <3>0. acted[v] \in Int /\ acted[v] <= st.tick
      BY <1>0 DEF NoiseInv
    <3>1. CASE v \in Gone(st')
      <4>1. /\ st'.metrics[v] = Zeroed /\ st'.history[v] = EmptyHistory /\ acted'[v] = acted[v]
        BY <2>1, <3>1
      <4>2. frameAgo(st', v, 0) = Blank /\ frameAgo(st', v, 1) = Blank
        BY <1>00, <2>1, <4>1, EmptyRing
      <4>3. \A x \in Visible : Blank[x] = 0 /\ Zeroed[x] = 0
        <5>1. DOMAIN Blank = Visible /\ Visible \subseteq DOMAIN Drift
          BY FrameFacts
        <5> QED BY <5>1 DEF Blank, Zeroed
      <4> QED BY <2>1, <3>0, <4>1, <4>2, <4>3
    <3>2. CASE v \notin Gone(st')
      <4>1. frameAgo(st', v, 0) = frameAgo(st, v, 0) /\ frameAgo(st', v, 1) = frameAgo(st, v, 1)
        BY <2>1, <3>2 DEF frameAgo
      <4>2. CASE st'.metrics[v] = st.metrics[v] /\ acted'[v] = acted[v]
        BY <2>1, <3>0, <4>1, <4>2 DEF NoiseInv, Steady
      <4>3. CASE acted'[v] = st.tick
        BY <1>0, <2>1, <4>3
      <4> QED BY <2>1, <3>2, <4>2, <4>3
    <3> QED BY <3>1, <3>2
  <2> QED BY <2>2 DEF NoiseInv, Steady
<1>3. CASE UNCHANGED vars
  BY <1>3 DEF vars, NoiseInv, Steady
<1> QED BY <1>1, <1>2, <1>3, NextPlays

\* A change of at most two in CPU and in NETWORK is an activity of at most 15.
LEMMA QuietScore ==
  ASSUME NEW s, NEW v \in Servers, v \in s.active,
         \A x \in Visible : currentFrame(s, v)[x] \in Int /\ frameAgo(s, v, 2)[x] \in Int,
         currentFrame(s, v)["ERRORS"] = frameAgo(s, v, 2)["ERRORS"],
         \A x \in {"CPU", "NETWORK"} :
           currentFrame(s, v)[x] - frameAgo(s, v, 2)[x] \in -2 .. 0
  PROVE  ~ (WagerOf(baselineScore(buildSeekerObservation(s), v).wager) >= 1)
<1> DEFINE obs == buildSeekerObservation(s)
           f == serverFeatures(s, v)
           lag == f.change[2]
<1>1. obs.server[v] = f
  BY DEF buildSeekerObservation
<1>2. 2 \in Range(Lags) /\ DOMAIN Blank = Visible /\ \A x \in Visible : Blank[x] = 0
  <2>1. DOMAIN Blank = Visible
    BY FrameFacts
  <2> QED BY <2>1 DEF Range, Lags, Blank
<1>3. lag = IF SeesMetrics(s, v) THEN Change(s, v, 2) ELSE Blank
  BY <1>2 DEF serverFeatures
<1>4. toQ8(0) = 0 /\ toQ8(-1) = -2 /\ toQ8(-2) = -5
  BY DEF toQ8
<1>5. \A x \in {"CPU", "NETWORK"} : toQ8(currentFrame(s, v)[x] - frameAgo(s, v, 2)[x]) \in -5 .. 0
  <2>1. ASSUME NEW x \in {"CPU", "NETWORK"}
        PROVE  toQ8(currentFrame(s, v)[x] - frameAgo(s, v, 2)[x]) \in -5 .. 0
    <3> DEFINE change == currentFrame(s, v)[x] - frameAgo(s, v, 2)[x]
    <3>1. change = 0 \/ change = -1 \/ change = -2
      <4>1. change \in -2 .. 0
        OBVIOUS
      <4> HIDE DEF change
      <4> QED BY <4>1
    <3> HIDE DEF change
    <3>2. toQ8(change) \in -5 .. 0
      BY <1>4, <3>1
    <3> QED BY <3>2 DEF change
  <2> QED BY <2>1
<1>6. toQ8(currentFrame(s, v)["ERRORS"] - frameAgo(s, v, 2)["ERRORS"]) = 0
  <2>1. "ERRORS" \in Visible
    BY DEF Visible
  <2>2. currentFrame(s, v)["ERRORS"] - frameAgo(s, v, 2)["ERRORS"] = 0
    BY <2>1
  <2> QED BY <1>4, <2>2
<1>7. lag.ERRORS = 0 /\ lag.NETWORK \in -5 .. 0 /\ lag.CPU \in -5 .. 0
  <2>1. CASE SeesMetrics(s, v)
    <3>1. lag = [x \in Visible |-> toQ8(currentFrame(s, v)[x] - frameAgo(s, v, 2)[x])]
      BY <1>2, <1>3, <2>1 DEF Change
    <3> HIDE DEF f
    <3>2. /\ lag.ERRORS = toQ8(currentFrame(s, v)["ERRORS"] - frameAgo(s, v, 2)["ERRORS"])
          /\ lag.NETWORK = toQ8(currentFrame(s, v)["NETWORK"] - frameAgo(s, v, 2)["NETWORK"])
          /\ lag.CPU = toQ8(currentFrame(s, v)["CPU"] - frameAgo(s, v, 2)["CPU"])
      BY <3>1 DEF Visible
    <3> QED BY <1>5, <1>6, <3>2
  <2>2. CASE ~ SeesMetrics(s, v)
    <3>1. lag = Blank
      BY <1>3, <2>2
    <3> HIDE DEF lag
    <3> QED BY <1>2, <3>1 DEF Visible
  <2> QED BY <2>1, <2>2
<1>8. ~ (Activity(f) >= WagerThreshold)
  <2> HIDE DEF f
  <2> QED BY <1>7 DEF Activity, Magnitude, WagerThreshold
<1>9. baselineScore(obs, v).wager = 0
  <2> HIDE DEF f, obs
  <2> QED BY <1>1, <1>8 DEF baselineScore, Scores, Flag
<1>10. WagerOf(0) = 0
  BY DEF WagerOf
<1> QED BY <1>9, <1>10

LEMMA NoiseFollows ==
  ASSUME TypeInv, NoiseInv, OnlyActsMakeNoise, [Next]_vars
  PROVE  OnlyActsMakeNoise'
<1>0. IsState(st) /\ st.tick \in Nat /\ acted \in [Servers -> Nat \cup {-1000}]
  BY DEF TypeInv, IsState, Never
<1>1. CASE PassTick
  <2> SUFFICES ASSUME policy' = "baseline", NEW v \in Probes(st')
               PROVE  st'.tick - acted'[v] <= 2
    BY DEF OnlyActsMakeNoise
  <2>1. policy = "baseline"
    BY <1>1 DEF PassTick
  <2>2. v \in Servers
    <3>1. PICK e \in Range(st'.events) : v = e.server_id
      BY DEF Probes
    <3>2. st'.events \in Seq(Notices)
      BY <1>1, TickEffects DEF IsState
    <3>3. e \in Notices
      <4>1. PICK i \in DOMAIN st'.events : e = st'.events[i]
        BY <3>1 DEF Range
      <4> QED BY <3>2, <4>1
    <3> QED BY <3>1, <3>3 DEF Notices
  <2> DEFINE d == Drifted(st)
  <2>3. /\ st'.tick = st.tick + 1 /\ acted' = acted
        /\ v \in st.active /\ WagerOf(ScoresOf(policy, d)[v].wager) >= 1
        /\ st'.metrics[v] = Rested(st.metrics[v])
    BY <1>1, <2>2, TickEffects
  <2>4. /\ IsState(d) /\ d.active = st.active
        /\ d.metrics[v] = Rested(st.metrics[v])
        /\ d.history[v] = pushMetricFrame(st.history[v], st.head[v], currentFrame(d, v))
        /\ d.head[v] = NextHead(st.head[v])
    BY <1>0, <2>3, DriftedFacts
  <2> HIDE DEF d
  <2>5. WagerOf(baselineScore(buildSeekerObservation(d), v).wager) >= 1
    BY <2>1, <2>2, <2>3 DEF ScoresOf, ScoreOf
  <2> SUFFICES ASSUME acted[v] < st.tick - 1 PROVE FALSE
    BY <1>0, <2>2, <2>3
  <2>6. 0 \in Ring /\ 1 \in Ring /\ 2 \in Ring
    BY DEF Ring, HISTORY_TICKS
  <2>7. frameAgo(d, v, 2) = frameAgo(st, v, 1)
    <3> DEFINE ring == st.history[v]
               head == st.head[v]
               frame == currentFrame(d, v)
               pushed == pushMetricFrame(ring, head, frame)
    <3>1. pushed[(NextHead(head) + HISTORY_TICKS - 1 - 2) % HISTORY_TICKS]
            = ring[(head + HISTORY_TICKS - 1 - (2 - 1)) % HISTORY_TICKS]
      <4>1. ring \in [Ring -> Frames] /\ head \in 0 .. Byte - 1
        BY <1>0, <2>2 DEF IsState
      <4>2. 2 \in 0 .. HISTORY_TICKS - 1 /\ 2 # 0
        BY DEF HISTORY_TICKS
      <4>3. ASSUME NEW k \in 0 .. HISTORY_TICKS - 1
            PROVE  pushed[(NextHead(head) + HISTORY_TICKS - 1 - k) % HISTORY_TICKS]
                     = IF k = 0 THEN frame
                       ELSE ring[(head + HISTORY_TICKS - 1 - (k - 1)) % HISTORY_TICKS]
        <5> HIDE DEF ring, head, frame
        <5> QED BY <4>1, PushedRing
      <4> HIDE DEF ring, head, frame, pushed
      <4> QED BY <4>2, <4>3
    <3>2. frameAgo(d, v, 2) = pushed[(NextHead(head) + HISTORY_TICKS - 1 - 2) % HISTORY_TICKS]
      <4> HIDE DEF pushed
      <4> QED BY <2>4 DEF frameAgo, pushed
    <3>3. frameAgo(st, v, 1) = ring[(head + HISTORY_TICKS - 1 - (2 - 1)) % HISTORY_TICKS]
      BY DEF frameAgo
    <3> HIDE DEF pushed
    <3> QED BY <3>1, <3>2, <3>3
  <2>8. st.metrics[v] \in Gauges /\ frameAgo(st, v, 1) \in Frames
    <3>1. st.metrics[v] \in Gauges
      BY <1>0, <2>2 DEF IsState
    <3> QED BY <1>0, <2>2, <2>6, <3>1, AgesAreFrames
  <2>9. \A x \in Visible : currentFrame(d, v)[x] = Rested(st.metrics[v])[x]
    BY <2>4, FrameFacts
  <2>10. \A x \in Visible : Rested(st.metrics[v])[x] \in Int /\ frameAgo(st, v, 1)[x] \in Int
    <3>1. Rested(st.metrics[v]) \in Gauges
      BY <2>8, RestedFacts
    <3> QED BY <2>8, <3>1 DEF Gauges, Frames, Drift, Visible, MetricMax
  <2>11. currentFrame(d, v)["ERRORS"] = frameAgo(d, v, 2)["ERRORS"]
    <3>1. Rested(st.metrics[v])["ERRORS"] = 0 /\ frameAgo(st, v, 1)["ERRORS"] = 0
      BY <2>8, RestedFacts DEF Gauges, Frames
    <3> QED BY <2>7, <2>9, <3>1 DEF Visible
  <2>12. ASSUME NEW x \in {"CPU", "NETWORK"}
         PROVE  currentFrame(d, v)[x] - frameAgo(d, v, 2)[x] \in -2 .. 0
    <3> DEFINE a == frameAgo(st, v, 1)[x]
               b == frameAgo(st, v, 0)[x]
               c == st.metrics[v][x]
               r == Rested(st.metrics[v])[x]
    <3>1. x \in Visible
      BY DEF Visible
    <3>2. acted[v] # st.tick
      <4>1. acted[v] \in Int
        BY <1>0, <2>2
      <4> QED BY <1>0, <4>1
    <3>3. c = b /\ b \in a - 1 .. a
      BY <2>2, <3>1, <3>2 DEF NoiseInv, Steady
    <3>4. r = IF c = 0 THEN 0 ELSE c - 1
      BY <2>8, RestedFacts
    <3>5. a \in Int /\ c \in Nat /\ a \in Nat
      BY <2>8, <3>1 DEF Gauges, Frames, Drift, Visible, MetricMax
    <3>6. currentFrame(d, v)[x] = r /\ frameAgo(d, v, 2)[x] = a
      BY <2>7, <2>9, <3>1
    <3> HIDE DEF a, b, c, r
    <3>7. r - a \in -2 .. 0
      BY <3>3, <3>4, <3>5
    <3> QED BY <3>6, <3>7
  <2>13. v \in d.active
    BY <2>3, <2>4
  <2> QED BY <2>2, <2>5, <2>7, <2>9, <2>10, <2>11, <2>12, <2>13, QuietScore
<1>2. ASSUME NEW m, m.hider \in Slots, m.kind \in Kinds, Play(m) PROVE OnlyActsMakeNoise'
  <2>1. /\ policy' = policy /\ st'.tick = st.tick /\ st'.events = st.events
        /\ \A v \in Gone(st') : acted'[v] = acted[v]
        /\ \A v \in Servers \ Gone(st') : acted'[v] = acted[v] \/ acted'[v] = st.tick
    BY <1>2, PlayEffects DEF Play
  <2> SUFFICES ASSUME policy = "baseline", NEW v \in Probes(st)
               PROVE  st.tick - acted'[v] <= 2
    BY <2>1 DEF OnlyActsMakeNoise, Probes
  <2>2. v \in Servers
    <3>1. PICK e \in Range(st.events) : v = e.server_id
      BY DEF Probes
    <3>2. e \in Notices
      <4>1. PICK i \in DOMAIN st.events : e = st.events[i]
        BY <3>1 DEF Range
      <4> QED BY <1>0, <4>1 DEF IsState
    <3> QED BY <3>1, <3>2 DEF Notices
  <2>3. st.tick - acted[v] <= 2
    BY DEF OnlyActsMakeNoise
  <2> QED BY <1>0, <2>1, <2>2, <2>3
<1>3. CASE UNCHANGED vars
  BY <1>3 DEF vars, OnlyActsMakeNoise
<1> QED BY <1>1, <1>2, <1>3, NextPlays

-----------------------------------------------------------------------------
(* What the seeker cannot see.                                             *)

\* The observation is a function of what the seeker may know.
LEMMA SameObservation ==
  ASSUME NEW s, NEW t,
         t.active = s.active, t.mask = s.mask, t.tick = s.tick, t.tokens = s.tokens,
         t.probed = s.probed, t.belief = s.belief, t.head = s.head,
         \A v \in Servers \cap s.mask :
           t.history[v] = s.history[v] /\ \A x \in Visible : t.metrics[v][x] = s.metrics[v][x]
  PROVE  buildSeekerObservation(t) = buildSeekerObservation(s)
<1>1. globalFeatures(t) = globalFeatures(s)
  BY DEF globalFeatures
<1>2. ASSUME NEW v \in Servers PROVE serverFeatures(t, v) = serverFeatures(s, v)
  <2>1. CASE v \in s.mask
    <3>1. currentFrame(t, v) = currentFrame(s, v)
      BY <2>1, FrameFacts
    <3>2. \A k : frameAgo(t, v, k) = frameAgo(s, v, k)
      BY <2>1 DEF frameAgo
    <3>3. \A k : Change(t, v, k) = Change(s, v, k)
      BY <3>1, <3>2 DEF Change
    <3> QED BY <3>1, <3>3 DEF serverFeatures, SeesMetrics
  <2>2. CASE v \notin s.mask
    BY <2>2 DEF serverFeatures, SeesMetrics
  <2> QED BY <2>1, <2>2
<1> QED BY <1>1, <1>2 DEF buildSeekerObservation

LEMMA Blindness ==
  ASSUME TypeInv
  PROVE  SeekerIsBlind
<1>1. /\ DOMAIN st = Fields
      /\ st.metrics \in [Servers -> Gauges] /\ st.history \in [Servers -> [Ring -> Frames]]
  BY DEF TypeInv, IsState
<1> SUFFICES ASSUME NEW other \in Hidden(st)
             PROVE  buildSeekerObservation(other) = buildSeekerObservation(st)
  BY DEF SeekerIsBlind
<1>2. ASSUME NEW v \in Servers \ st.mask, NEW cpu, NEW frame,
             other = [st EXCEPT !.metrics[v].CPU = cpu, !.history[v][0] = frame]
      PROVE  buildSeekerObservation(other) = buildSeekerObservation(st)
  <2>1. /\ other.active = st.active /\ other.mask = st.mask /\ other.tick = st.tick
        /\ other.tokens = st.tokens /\ other.probed = st.probed /\ other.belief = st.belief
        /\ other.head = st.head
        /\ other.metrics = [st.metrics EXCEPT ![v].CPU = cpu]
        /\ other.history = [st.history EXCEPT ![v][0] = frame]
    BY <1>1, <1>2 DEF Fields
  <2>2. \A w \in Servers \cap st.mask :
          other.history[w] = st.history[w] /\ other.metrics[w] = st.metrics[w]
    BY <1>1, <2>1
  <2> QED BY <2>1, <2>2, SameObservation
<1>3. ASSUME NEW v \in Servers, NEW trace, other = [st EXCEPT !.metrics[v].TRACE = trace]
      PROVE  buildSeekerObservation(other) = buildSeekerObservation(st)
  <2>1. /\ other.active = st.active /\ other.mask = st.mask /\ other.tick = st.tick
        /\ other.tokens = st.tokens /\ other.probed = st.probed /\ other.belief = st.belief
        /\ other.head = st.head /\ other.history = st.history
        /\ other.metrics = [st.metrics EXCEPT ![v].TRACE = trace]
    BY <1>1, <1>3 DEF Fields
  <2>2. \A w \in Servers, x \in Visible : other.metrics[w][x] = st.metrics[w][x]
    <3>1. \A w \in Servers : DOMAIN st.metrics[w] = DOMAIN Drift
      BY <1>1 DEF Gauges
    <3> QED BY <1>1, <2>1, <3>1 DEF Visible, Drift
  <2> QED BY <2>1, <2>2, SameObservation
<1>4. ASSUME \/ \E conn : other = [st EXCEPT !.conn = conn]
             \/ \E ap, loa : other = [st EXCEPT !.ap = ap, !.loa = loa]
             \/ \E pool : other = [st EXCEPT !.pool = pool]
             \/ \E goals : other = [st EXCEPT !.goals = goals]
      PROVE  buildSeekerObservation(other) = buildSeekerObservation(st)
  <2>1. /\ other.active = st.active /\ other.mask = st.mask /\ other.tick = st.tick
        /\ other.tokens = st.tokens /\ other.probed = st.probed /\ other.belief = st.belief
        /\ other.head = st.head /\ other.history = st.history /\ other.metrics = st.metrics
    BY <1>1, <1>4 DEF Fields
  <2> QED BY <2>1, SameObservation
<1>5. ASSUME NEW v \in Servers \ st.mask, other = Loaded(st, v)
      PROVE  buildSeekerObservation(other) = buildSeekerObservation(st)
  BY <1>2, <1>5 DEF Loaded
<1>6. ASSUME NEW v \in Servers, other = Traced(st, v)
      PROVE  buildSeekerObservation(other) = buildSeekerObservation(st)
  BY <1>3, <1>6 DEF Traced
<1>7. ASSUME NEW h \in Slots, NEW v \in st.active, other = Placed(st, h, v)
      PROVE  buildSeekerObservation(other) = buildSeekerObservation(st)
  BY <1>4, <1>7 DEF Placed
<1>8. ASSUME NEW h \in Slots, other = Richer(st, h)
      PROVE  buildSeekerObservation(other) = buildSeekerObservation(st)
  BY <1>4, <1>8 DEF Richer
<1>9. CASE other \in Shared(st)
  BY <1>4, <1>9 DEF Shared
<1> QED BY <1>5, <1>6, <1>7, <1>8, <1>9 DEF Hidden

-----------------------------------------------------------------------------
(* The theorems.                                                           *)

\* The state of a match is always what the type invariant says, and so are the
\* histories kept of it: connections name servers that are there, heads and probe
\* ticks are bytes, beliefs at most eight (seeker_turn.cpp, metric_history.cpp).
THEOREM SeekerPlayTypes == Spec => []TypeInv
<1>1. TypeInv /\ [Next]_vars => TypeInv'
  BY TypeStep
<1> QED BY <1>1, InitialState, PTL DEF Spec

\* Whatever hiders do and however long a match lasts, an active server's ring is
\* its last sixteen frames and what the seeker believes of it is what its last wager
\* found (metric_history.cpp, feature_extract.cpp, seeker_turn.cpp).
THEOREM MemoryIsAlwaysTrue == Spec => []MemoryIsTrue
<1>1. Init => TypeInv /\ RingInv /\ WagerInv
  <2>1. Init => WagerInv
    BY DEF Init, WagerInv, Started, NoWager
  <2> QED BY <2>1, InitialState, RingInitially
<1>2. TypeInv /\ RingInv /\ WagerInv /\ [Next]_vars => (TypeInv /\ RingInv /\ WagerInv)'
  BY TypeStep, RingStep, WagerStepInv
<1>3. TypeInv /\ RingInv /\ WagerInv => MemoryIsTrue
  BY MemoryFollows
<1> QED BY <1>1, <1>2, <1>3, PTL DEF Spec

\* In a match against the baseline, every server it wagers on is one that a hider acted
\* on in the last two ticks, after any history of acts and drift: what drift alone adds
\* to a score is at most 15, below the threshold of 20 (baseline_policy.cpp:38-47).
\* It says nothing of the other policies, whose models may wager on anything.
THEOREM OnlyActsAlwaysMakeNoise == Spec => []OnlyActsMakeNoise
<1> DEFINE Inv == TypeInv /\ RingInv /\ NoiseInv /\ OnlyActsMakeNoise
<1>1. Init => Inv
  <2>1. Init => OnlyActsMakeNoise
    BY DEF Init, Started, OnlyActsMakeNoise, Probes, Range
  <2> QED BY <2>1, InitialState, RingInitially, NoiseInitially
<1>2. Inv /\ [Next]_vars => Inv'
  BY TypeStep, RingStep, NoiseStep, NoiseFollows
<1> QED BY <1>1, <1>2, PTL DEF Spec

\* In every state of every match the observation the seeker's policies get is the
\* same whatever the servers it has no connection to show, wherever hiders are and
\* whatever they have left to spend (feature_extract.cpp, audience.cpp).
THEOREM SeekerIsAlwaysBlind == Spec => []SeekerIsBlind
<1>1. TypeInv => SeekerIsBlind
  BY Blindness
<1> QED BY <1>1, SeekerPlayTypes, PTL
=============================================================================
