---------------------------- MODULE NpcPlayProofs ----------------------------
(***************************************************************************)
(* Theorems about NpcPlay, for any hiders, NPCs, servers, rings and        *)
(* quotas: what a response lists adds up, views show nothing they should   *)
(* not, and NPCs and rules agree on what can be done and paid.             *)
(***************************************************************************)
EXTENDS NpcPlay, FiniteSetTheorems, WellFoundedInduction, TLAPS

-----------------------------------------------------------------------------
(* Numbers.                                                                *)

LEMMA MinOfTwo == \A a, b \in Int : Min({a, b}) = IF a <= b THEN a ELSE b
<1> SUFFICES ASSUME NEW a \in Int, NEW b \in Int PROVE Min({a, b}) = IF a <= b THEN a ELSE b
  OBVIOUS
<1> DEFINE least == IF a <= b THEN a ELSE b
<1>1. least \in {a, b} /\ \A y \in {a, b} : least <= y
  OBVIOUS
<1>2. \A x \in {a, b} : (\A y \in {a, b} : x <= y) => x = least
  OBVIOUS
<1>3. Min({a, b}) = CHOOSE x \in {a, b} : \A y \in {a, b} : x <= y
  BY DEF Min
<1> HIDE DEF least
<1>4. Min({a, b}) = least
  BY <1>1, <1>2, <1>3
<1> QED BY <1>4 DEF least

LEMMA MaxOfTwo == \A a, b \in Int : Max({a, b}) = IF a >= b THEN a ELSE b
<1> SUFFICES ASSUME NEW a \in Int, NEW b \in Int PROVE Max({a, b}) = IF a >= b THEN a ELSE b
  OBVIOUS
<1> DEFINE most == IF a >= b THEN a ELSE b
<1>1. most \in {a, b} /\ \A y \in {a, b} : most >= y
  OBVIOUS
<1>2. \A x \in {a, b} : (\A y \in {a, b} : x >= y) => x = most
  OBVIOUS
<1>3. Max({a, b}) = CHOOSE x \in {a, b} : \A y \in {a, b} : x >= y
  BY DEF Max
<1> HIDE DEF most
<1>4. Max({a, b}) = most
  BY <1>1, <1>2, <1>3
<1> QED BY <1>4 DEF most

LEMMA LeastOfNaturals ==
  ASSUME NEW S \in SUBSET Nat, S # {}
  PROVE  \E n \in S : \A m \in S : n <= m
<1>1. PICK n \in S : \A m \in S : ~ (<<m, n>> \in OpToRel(<, Nat))
  BY NatLessThanWellFounded, WFMin
<1>2. \A m \in S : ~ (m < n)
  BY <1>1 DEF OpToRel
<1>3. ASSUME NEW m \in S PROVE n <= m
  <2>1. ~ (m < n) /\ m \in Nat /\ n \in Nat
    BY <1>1, <1>2
  <2> QED BY <2>1
<1> QED BY <1>1, <1>3

LEMMA MinIsMember ==
  ASSUME NEW S \in SUBSET Nat, S # {}
  PROVE  Min(S) \in S
BY LeastOfNaturals DEF Min

-----------------------------------------------------------------------------
(* Sets of slots in order, and the moves that are left of a ring.          *)

\* How many of a set are below a number: its place in the order, from 0.
Rank(S, x) == Cardinality({y \in S : y < x})

LEMMA RankFacts ==
  ASSUME NEW S \in SUBSET Nat, IsFiniteSet(S)
  PROVE  /\ \A x \in S : Rank(S, x) \in 0 .. Cardinality(S) - 1
         /\ \A x, z \in S : Rank(S, x) = Rank(S, z) => x = z
         /\ \A n \in 0 .. Cardinality(S) - 1 : \E x \in S : Rank(S, x) = n
<1> DEFINE Below(x) == {y \in S : y < x}
           last == Cardinality(S) - 1
<1>0. Cardinality(S) \in Nat
  BY FS_CardinalityType
<1>1. \A x \in S : IsFiniteSet(Below(x)) /\ Cardinality(Below(x)) \in Nat
  BY FS_Subset, FS_CardinalityType
<1>2. ASSUME NEW x \in S PROVE Cardinality(Below(x)) \in 0 .. last
  <2>1. Below(x) \in SUBSET S /\ x \notin Below(x)
    OBVIOUS
  <2>2. Cardinality(Below(x)) <= Cardinality(S) /\ Cardinality(Below(x)) # Cardinality(S)
    <3> HIDE DEF Below
    <3> QED BY <2>1, FS_Subset
  <2> QED BY <1>0, <1>1, <2>2
<1>3. ASSUME NEW x \in S, NEW z \in S, x < z PROVE Cardinality(Below(x)) < Cardinality(Below(z))
  <2>1. Below(x) \in SUBSET Below(z) /\ x \notin Below(x) /\ x \in Below(z)
    <3>1. x \in Int /\ z \in Int /\ \A y \in S : y \in Int
      OBVIOUS
    <3>2. ~ (x < x)
      BY <3>1
    <3>3. ASSUME NEW y \in S, y < x PROVE y < z
      BY <1>3, <3>1, <3>3
    <3> QED BY <1>3, <3>2, <3>3
  <2>2. /\ Cardinality(Below(x)) <= Cardinality(Below(z))
        /\ Cardinality(Below(x)) # Cardinality(Below(z))
    <3>1. IsFiniteSet(Below(z))
      BY <1>1
    <3> HIDE DEF Below
    <3> QED BY <2>1, <3>1, FS_Subset
  <2>3. Cardinality(Below(x)) \in Nat /\ Cardinality(Below(z)) \in Nat
    BY <1>1
  <2> HIDE DEF Below
  <2> QED BY <2>2, <2>3
<1>4. \A x, z \in S : Cardinality(Below(x)) = Cardinality(Below(z)) => x = z
  <2> SUFFICES ASSUME NEW x \in S, NEW z \in S, x # z
               PROVE  Cardinality(Below(x)) # Cardinality(Below(z))
    OBVIOUS
  <2>1. x < z \/ z < x
    OBVIOUS
  <2>2. Cardinality(Below(x)) \in Nat /\ Cardinality(Below(z)) \in Nat
    BY <1>1
  <2> HIDE DEF Below
  <2> QED BY <1>3, <2>1, <2>2
<1>5. \A n \in 0 .. last : \E x \in S : Cardinality(Below(x)) = n
  <2> DEFINE f == [x \in S |-> Cardinality(Below(x))]
  <2>1. f \in [S -> 0 .. last]
    BY <1>2
  <2>2. f \in Injection(S, 0 .. last)
    <3>1. \A x, z \in S : f[x] = f[z] => x = z
      BY <1>4
    <3> HIDE DEF f, last
    <3> QED BY <2>1, <3>1 DEF Injection, IsInjective
  <2>3. IsFiniteSet(0 .. last) /\ Cardinality(0 .. last) = Cardinality(S)
    <3>1. last \in Int /\ Cardinality(S) = IF 0 > last THEN 0 ELSE last - 0 + 1
      BY <1>0
    <3> HIDE DEF last
    <3> QED BY <3>1, FS_Interval
  <2>4. f \in Surjection(S, 0 .. last)
    <3> HIDE DEF f, last
    <3> QED BY <2>2, <2>3, FS_Injection
  <2>5. \A n \in 0 .. last : \E x \in S : f[x] = n
    <3> HIDE DEF f, last
    <3> QED BY <2>4 DEF Surjection
  <2> QED BY <2>5
<1> QED BY <1>2, <1>4, <1>5 DEF Rank

\* Each member of a set has its place in the order and each place a member.
LEMMA OrderFacts ==
  ASSUME NEW S \in SUBSET Nat, IsFiniteSet(S)
  PROVE  /\ InOrder(S) \in [1 .. Cardinality(S) -> S]
         /\ \A x \in S : \E i \in 1 .. Cardinality(S) : InOrder(S)[i] = x
         /\ \A i, j \in 1 .. Cardinality(S) : InOrder(S)[i] = InOrder(S)[j] => i = j
<1> DEFINE q == InOrder(S)
<1>0. Cardinality(S) \in Nat
  BY FS_CardinalityType
<1>1. q = [i \in 1 .. Cardinality(S) |-> CHOOSE x \in S : Rank(S, x) = i - 1]
  BY DEF InOrder, Rank
<1> HIDE DEF q
<1>2. \A i \in 1 .. Cardinality(S) : q[i] \in S /\ Rank(S, q[i]) = i - 1
  <2>1. ASSUME NEW i \in 1 .. Cardinality(S) PROVE q[i] \in S /\ Rank(S, q[i]) = i - 1
    <3>1. \E x \in S : Rank(S, x) = i - 1
      BY <1>0, RankFacts
    <3>2. q[i] = CHOOSE x \in S : Rank(S, x) = i - 1
      BY <1>1
    <3> QED BY <3>1, <3>2
  <2> QED BY <2>1
<1>3. ASSUME NEW x \in S PROVE \E i \in 1 .. Cardinality(S) : q[i] = x
  <2>1. Rank(S, x) \in 0 .. Cardinality(S) - 1
    BY RankFacts
  <2>2. Rank(S, x) + 1 \in 1 .. Cardinality(S)
    BY <1>0, <2>1
  <2> DEFINE i == Rank(S, x) + 1
  <2>3. q[i] \in S /\ Rank(S, q[i]) = i - 1
    <3> HIDE DEF i
    <3> QED BY <1>2, <2>2 DEF i
  <2>4. i - 1 = Rank(S, x)
    BY <1>0, <2>1
  <2>5. q[i] = x
    <3>1. \A z \in S : Rank(S, x) = Rank(S, z) => x = z
      BY RankFacts
    <3> HIDE DEF i
    <3> QED BY <2>3, <2>4, <3>1
  <2> QED BY <2>2, <2>5
<1>4. ASSUME NEW i \in 1 .. Cardinality(S), NEW j \in 1 .. Cardinality(S), q[i] = q[j]
      PROVE  i = j
  <2>1. i - 1 = j - 1
    BY <1>2, <1>4
  <2> QED BY <1>0, <2>1
<1>5. q \in [1 .. Cardinality(S) -> S]
  BY <1>1, <1>2
<1> QED BY <1>3, <1>4, <1>5 DEF q

\* A ring: moves with ids of their own.
Moves == [id : 1 .. RingCap + 1, hider : Slots, kind : Kinds, server : 0 .. NO_SERVER_ID]
IsRing(q) ==
  /\ q \in Seq(Moves) /\ Len(q) <= RingCap
  /\ \A i, j \in DOMAIN q : q[i].id = q[j].id => i = j

LEMMA Constants ==
  /\ Slots \in SUBSET Nat /\ IsFiniteSet(Slots) /\ Npcs \subseteq Slots
  /\ NumServers \in Nat /\ NumServers <= 255 /\ RingCap \in Nat /\ NO_SERVER_ID = 255
  /\ Cardinality(Slots) \in Nat /\ Cardinality(Slots) <= NumServers
  /\ Servers \in SUBSET Nat /\ Servers \subseteq 0 .. NO_SERVER_ID /\ IsFiniteSet(Servers)
  /\ Cardinality(Servers) = NumServers /\ NO_SERVER_ID \notin Servers
<1>1. NumServers \in Nat /\ NumServers <= 255 /\ NO_SERVER_ID = 255
  BY NpcAssumption DEF NO_SERVER_ID
<1>2. IsFiniteSet(Servers) /\ Cardinality(Servers) = NumServers
  BY <1>1, FS_Interval DEF Servers
<1>3. Servers \in SUBSET Nat /\ Servers \subseteq 0 .. NO_SERVER_ID /\ NO_SERVER_ID \notin Servers
  BY <1>1 DEF Servers
<1> QED BY <1>1, <1>2, <1>3, NpcAssumption, FS_CardinalityType

LEMMA WithoutFacts ==
  ASSUME NEW q, IsRing(q), NEW ids
  PROVE  IsRing(Without(q, ids)) /\ Ids(Without(q, ids)) = Ids(q) \ ids
<1> DEFINE S == {i \in DOMAIN q : q[i].id \notin ids}
           kept == InOrder(S)
           n == Cardinality(S)
           r == Without(q, ids)
<1>1. DOMAIN q = 1 .. Len(q) /\ Len(q) \in Nat /\ Len(q) <= RingCap
  BY DEF IsRing
<1>2. S \in SUBSET Nat /\ S \in SUBSET (1 .. Len(q)) /\ IsFiniteSet(S) /\ n \in Nat /\ n <= Len(q)
  <2>1. S \in SUBSET (1 .. Len(q)) /\ S \in SUBSET Nat
    BY <1>1
  <2>2. IsFiniteSet(1 .. Len(q)) /\ Cardinality(1 .. Len(q)) = Len(q)
    <3>1. Len(q) \in Int /\ Len(q) = IF 1 > Len(q) THEN 0 ELSE Len(q) - 1 + 1
      BY <1>1
    <3> QED BY <3>1, FS_Interval
  <2> HIDE DEF S
  <2> QED BY <2>1, <2>2, FS_Subset, FS_CardinalityType
<1>3. /\ kept \in [1 .. n -> S]
      /\ \A x \in S : \E i \in 1 .. n : kept[i] = x
      /\ \A i, j \in 1 .. n : kept[i] = kept[j] => i = j
  <2> HIDE DEF S
  <2> QED BY <1>2, OrderFacts
<1>4. r = [i \in 1 .. n |-> q[kept[i]]]
  <2>1. r = [i \in DOMAIN kept |-> q[kept[i]]]
    BY DEF Without
  <2> HIDE DEF r, kept
  <2> QED BY <1>3, <2>1
<1>5. \A i \in DOMAIN q : q[i] \in Moves
  BY DEF IsRing
<1>6. \A i \in 1 .. n : r[i] = q[kept[i]] /\ kept[i] \in DOMAIN q /\ r[i].id \notin ids
  <2> HIDE DEF r, kept, n
  <2> QED BY <1>3, <1>4
<1>7. r \in Seq(Moves) /\ Len(r) = n /\ DOMAIN r = 1 .. n
  <2> HIDE DEF r, kept, n, S
  <2> QED BY <1>2, <1>4, <1>5, <1>6
<1>8. \A i, j \in DOMAIN r : r[i].id = r[j].id => i = j
  <2> SUFFICES ASSUME NEW i \in 1 .. n, NEW j \in 1 .. n, r[i].id = r[j].id PROVE i = j
    BY <1>7
  <2> HIDE DEF r, kept, n, S
  <2>1. kept[i] = kept[j]
    BY <1>6 DEF IsRing
  <2> QED BY <1>3, <2>1
<1>9. Ids(r) = Ids(q) \ ids
  <2>1. Ids(r) = {r[i].id : i \in 1 .. n} /\ Ids(q) = {q[i].id : i \in DOMAIN q}
    BY <1>7 DEF Ids, Range
  <2>2. ASSUME NEW i \in 1 .. n PROVE r[i].id \in Ids(q) \ ids
    <3> HIDE DEF r, kept, n
    <3> QED BY <1>6, <2>1
  <2>3. ASSUME NEW i \in DOMAIN q, q[i].id \notin ids PROVE q[i].id \in Ids(r)
    <3>1. i \in S
      BY <2>3
    <3>2. PICK j \in 1 .. n : kept[j] = i
      BY <1>3, <3>1
    <3> HIDE DEF r, kept, n
    <3> QED BY <1>6, <2>1, <3>2
  <2> HIDE DEF r, n
  <2> QED BY <2>1, <2>2, <2>3
<1>10. IsRing(r)
  <2> HIDE DEF r, n
  <2> QED BY <1>1, <1>2, <1>7, <1>8, Constants DEF IsRing
<1> QED BY <1>9, <1>10

-----------------------------------------------------------------------------
(* The states of a match.                                                  *)

Fields ==
  {"phase", "winner", "ap", "loa", "conn", "active", "metrics", "goals", "pool", "pending", "events"}
Gauges == [DOMAIN Drift -> 0 .. MetricMax]
Statuses == {"OPEN", "COMPLETED", "CANCELLED"}

IsState(s) ==
  /\ DOMAIN s = Fields
  /\ s.ap \in [Slots -> 0 .. ApCap] /\ s.loa \in [Slots -> Nat] /\ s.pool \in Nat
  /\ s.active \in SUBSET Servers /\ s.conn \in [Slots -> s.active \cup {NO_SERVER_ID}]
  /\ s.metrics \in [Servers -> Gauges] /\ s.goals \in [0 .. 3 -> Statuses]
  /\ IsRing(s.pending)

\* Two states that differ in what no type depends on.
Alike(s, t) ==
  /\ DOMAIN t = Fields
  /\ t.ap = s.ap /\ t.loa = s.loa /\ t.pool = s.pool /\ t.active = s.active /\ t.conn = s.conn
  /\ t.metrics = s.metrics /\ t.goals = s.goals /\ t.pending = s.pending

LEMMA AlikeStates == \A s, t : IsState(s) /\ Alike(s, t) => IsState(t)
BY DEF IsState, Alike

\* What is a move but for its id.
IsMove(m) == m.kind \in Kinds /\ m.hider \in Slots

-----------------------------------------------------------------------------
(* A move.                                                                 *)

LEMMA ActionDefs ==
  ASSUME NEW kind \in DOMAIN HiderActionDefs
  PROVE  /\ HiderActionDefs[kind].ap_cost \in Nat
         /\ \A m \in DOMAIN HiderActionDefs[kind].effects : HiderActionDefs[kind].effects[m] \in Int
         /\ kind \notin {"ADD_SERVER", "REMOVE_SERVER", "CONNECT", "DISCONNECT"}
<1>1. kind \in {"CONFIGURE_SERVER", "SUPPRESS_ERROR", "BOOST_CPU", "ROTATE_ROUTE", "PAY_GOAL"}
  BY DEF HiderActionDefs
<1>2. CASE kind = "CONFIGURE_SERVER"
  <2>1. HiderActionDefs[kind] = [ap_cost |-> 5, effects |-> [TRACE |-> 5]]
    BY <1>2 DEF HiderActionDefs
  <2> QED BY <1>2, <2>1
<1>3. CASE kind = "SUPPRESS_ERROR"
  <2>1. HiderActionDefs[kind] = [ap_cost |-> 3, effects |-> [ERRORS |-> -10, TRACE |-> 20]]
    BY <1>3 DEF HiderActionDefs
  <2> QED BY <1>3, <2>1
<1>4. CASE kind = "BOOST_CPU"
  <2>1. HiderActionDefs[kind] = [ap_cost |-> 2, effects |-> [CPU |-> 15, TRACE |-> 5]]
    BY <1>4 DEF HiderActionDefs
  <2> QED BY <1>4, <2>1
<1>5. CASE kind = "ROTATE_ROUTE"
  <2>1. HiderActionDefs[kind] = [ap_cost |-> 4, effects |-> [NETWORK |-> 5, TRACE |-> 10]]
    BY <1>5 DEF HiderActionDefs
  <2> QED BY <1>5, <2>1
<1>6. CASE kind = "PAY_GOAL"
  <2>1. HiderActionDefs[kind] = [ap_cost |-> 10, effects |-> [none \in {} |-> 0]]
    BY <1>6 DEF HiderActionDefs
  <2> QED BY <1>6, <2>1
<1> QED BY <1>1, <1>2, <1>3, <1>4, <1>5, <1>6

LEMMA ClampFacts ==
  ASSUME NEW v \in Int
  PROVE  Clamp(v) \in 0 .. MetricMax
<1>1. MetricMax \in Int /\ MetricMax = 100 /\ 0 \in Int
  BY DEF MetricMax
<1>2. Min({MetricMax, v}) = IF MetricMax <= v THEN MetricMax ELSE v
  BY <1>1, MinOfTwo
<1>3. Min({MetricMax, v}) \in Int
  BY <1>1, <1>2
<1> DEFINE least == Min({MetricMax, v})
<1>4. Max({0, least}) = IF 0 >= least THEN 0 ELSE least
  <2> HIDE DEF least
  <2> QED BY <1>1, <1>3, MaxOfTwo DEF least
<1>5. Clamp(v) = IF 0 >= least THEN 0 ELSE least
  BY <1>4 DEF Clamp
<1> HIDE DEF least
<1> QED BY <1>1, <1>2, <1>3, <1>5 DEF least

LEMMA AffectFacts ==
  ASSUME NEW f \in Gauges, NEW kind \in DOMAIN HiderActionDefs
  PROVE  Affect(f, HiderActionDefs[kind].effects) \in Gauges
<1> DEFINE effects == HiderActionDefs[kind].effects
           a == Affect(f, effects)
<1>1. DOMAIN f = DOMAIN Drift /\ \A m \in DOMAIN f : f[m] \in 0 .. MetricMax
  BY DEF Gauges
<1>2. \A m \in DOMAIN effects : effects[m] \in Int
  BY ActionDefs
<1> HIDE DEF effects
<1>3. a = [m \in DOMAIN f |-> IF m \in DOMAIN effects THEN Clamp(f[m] + effects[m]) ELSE f[m]]
  BY DEF Affect
<1>4. \A m \in DOMAIN f : a[m] \in 0 .. MetricMax
  <2>1. ASSUME NEW m \in DOMAIN f, m \in DOMAIN effects PROVE a[m] \in 0 .. MetricMax
    <3>1. f[m] + effects[m] \in Int
      BY <1>1, <1>2, <2>1 DEF MetricMax
    <3> QED BY <1>3, <2>1, <3>1, ClampFacts
  <2> QED BY <1>1, <1>3, <2>1
<1> QED BY <1>1, <1>3, <1>4 DEF Gauges, effects

LEMMA ActionFacts ==
  ASSUME NEW s, IsState(s), NEW m, m.kind \in DOMAIN HiderActionDefs, m.hider \in Slots,
         Outcome(s, m) = "ACCEPTED"
  PROVE  LET t == applyTickIntent(s, m) IN IsState(t) /\ t.pending = s.pending
<1> DEFINE def == HiderActionDefs[m.kind]
           c == s.conn[m.hider]
           ap == [s.ap EXCEPT ![m.hider] = @ - def.ap_cost]
           paid == [s EXCEPT !.ap[m.hider] = @ - def.ap_cost]
           done == IF m.kind = "PAY_GOAL" THEN CompleteGoal(paid) ELSE paid
           t == applyTickIntent(s, m)
<1>1. c \in s.active
  <2>1. s.conn[m.hider] # NO_SERVER_ID
    BY DEF Outcome
  <2> QED BY <2>1 DEF IsState
<1>2. ap \in [Slots -> 0 .. ApCap]
  <2>1. s.ap \in [Slots -> 0 .. ApCap]
    BY DEF IsState
  <2>2. ~ (s.ap[m.hider] < def.ap_cost)
    BY DEF Outcome
  <2>3. def.ap_cost \in Nat
    BY ActionDefs
  <2> HIDE DEF def
  <2>4. s.ap[m.hider] - def.ap_cost \in 0 .. ApCap
    BY <2>1, <2>2, <2>3 DEF ApCap
  <2> QED BY <2>1, <2>4
<1>3. Alike([s EXCEPT !.ap = ap], paid)
  <2>1. DOMAIN s = Fields
    BY DEF IsState
  <2> HIDE DEF def
  <2> QED BY <2>1 DEF Alike, Fields
<1>4. IsState(paid) /\ paid.pending = s.pending
  <2>1. IsState([s EXCEPT !.ap = ap])
    <3> HIDE DEF ap
    <3> QED BY <1>2 DEF IsState, Fields
  <2>2. [s EXCEPT !.ap = ap].pending = s.pending
    <3> HIDE DEF ap
    <3> QED BY DEF IsState, Fields
  <2> HIDE DEF ap, paid
  <2> QED BY <1>3, <2>1, <2>2, AlikeStates DEF Alike
<1> HIDE DEF paid
<1>5. IsState(done) /\ done.pending = s.pending
  <2> DEFINE goals == [paid.goals EXCEPT ![SeededGoals[Min(Completable(paid))].goal_id] = "COMPLETED"]
  <2>1. CompleteGoal(paid) = paid \/ CompleteGoal(paid) = [paid EXCEPT !.goals = goals]
    BY DEF CompleteGoal
  <2>2. goals \in [0 .. 3 -> Statuses]
    BY <1>4 DEF IsState, Statuses
  <2> HIDE DEF goals
  <2>3. IsState([paid EXCEPT !.goals = goals]) /\ [paid EXCEPT !.goals = goals].pending = s.pending
    BY <1>4, <2>2 DEF IsState, Fields
  <2> QED BY <1>4, <2>1, <2>3
<1>6. done.active = s.active /\ done.conn = s.conn /\ done.metrics = s.metrics
  <2>1. /\ paid.active = s.active /\ paid.conn = s.conn /\ paid.metrics = s.metrics
        /\ DOMAIN paid = Fields
    BY DEF IsState, Fields, paid
  <2>2. LET d == CompleteGoal(paid) IN
        d.active = paid.active /\ d.conn = paid.conn /\ d.metrics = paid.metrics
    <3> DEFINE goals == [paid.goals EXCEPT ![SeededGoals[Min(Completable(paid))].goal_id] = "COMPLETED"]
    <3>1. CompleteGoal(paid) = paid \/ CompleteGoal(paid) = [paid EXCEPT !.goals = goals]
      BY DEF CompleteGoal
    <3> HIDE DEF goals
    <3> QED BY <2>1, <3>1 DEF Fields
  <2> QED BY <2>1, <2>2
<1> HIDE DEF done
<1>7. t = [done EXCEPT !.metrics[c] = Affect(@, def.effects)]
  <2>1. applyTickIntent(s, m) = applyHiderAction(s, m)
    BY ActionDefs DEF applyTickIntent
  <2> QED BY <2>1 DEF applyHiderAction, done, paid
<1> DEFINE metrics == [s.metrics EXCEPT ![c] = Affect(@, def.effects)]
<1>8. metrics \in [Servers -> Gauges]
  <2>1. c \in Servers /\ s.metrics[c] \in Gauges /\ s.metrics \in [Servers -> Gauges]
    BY <1>1 DEF IsState
  <2>2. Affect(s.metrics[c], def.effects) \in Gauges
    BY <2>1, AffectFacts
  <2> QED BY <2>1, <2>2
<1> HIDE DEF t, def, c
<1>9. t = [done EXCEPT !.metrics = metrics]
  BY <1>5, <1>6, <1>7 DEF IsState
<1> HIDE DEF metrics
<1>10. IsState(t) /\ t.pending = s.pending
  BY <1>5, <1>8, <1>9 DEF IsState, Fields
<1> QED BY <1>10 DEF t

LEMMA RemovalFacts ==
  ASSUME NEW s, IsState(s), NEW m, m.kind = "REMOVE_SERVER", m.hider \in Slots,
         Outcome(s, m) = "ACCEPTED"
  PROVE  LET t == applyTickIntent(s, m) IN IsState(t) /\ t.pending = s.pending
<1> DEFINE v == m.server
           left == s.active \ {v}
           t == applyTickIntent(s, m)
           conn == [h \in Slots |-> IF h \in Occupants(s, v) THEN Min(left) ELSE s.conn[h]]
           loa == [s.loa EXCEPT ![m.hider] = @ - 1]
           goals == [g \in DOMAIN s.goals |-> IF g \in CancelledBy(v) THEN "CANCELLED" ELSE s.goals[g]]
           events == Append(s.events, [type |-> "SERVER_REMOVED"])
           metrics == [s.metrics EXCEPT ![v] = Zeroed]
<1>1. v \in s.active /\ (Occupants(s, v) # {} => left # {}) /\ ~ (s.loa[m.hider] < 1)
  <2>1. v \in s.active
    BY DEF Outcome
  <2>2. ~ (Occupants(s, v) # {} /\ s.active = {v}) /\ ~ (s.loa[m.hider] < 1)
    BY DEF Outcome
  <2> QED BY <2>1, <2>2
<1>2. t = applyRemoveServer(s, m)
  BY DEF applyTickIntent
<1>3. conn \in [Slots -> left \cup {NO_SERVER_ID}]
  <2>1. ASSUME NEW h \in Slots PROVE conn[h] \in left \cup {NO_SERVER_ID}
    <3>1. CASE h \in Occupants(s, v)
      <4>1. left # {} /\ left \in SUBSET Nat
        BY <1>1, <3>1, Constants DEF IsState
      <4>2. Min(left) \in left
        <5> HIDE DEF left
        <5> QED BY <4>1, MinIsMember
      <4> QED BY <3>1, <4>2
    <3>2. CASE h \notin Occupants(s, v)
      <4>1. s.conn[h] # v /\ s.conn[h] \in s.active \cup {NO_SERVER_ID}
        BY <3>2 DEF Occupants, IsState
      <4> QED BY <3>2, <4>1
    <3> QED BY <3>1, <3>2
  <2> QED BY <2>1
<1>4. loa \in [Slots -> Nat]
  <2>1. s.loa \in [Slots -> Nat]
    BY DEF IsState
  <2>2. s.loa[m.hider] - 1 \in Nat
    BY <1>1, <2>1
  <2> QED BY <2>1, <2>2
<1>5. goals \in [0 .. 3 -> Statuses]
  BY DEF IsState, Statuses
<1>6. Zeroed \in Gauges
  BY DEF Zeroed, Gauges, MetricMax
<1>7. metrics \in [Servers -> Gauges]
  BY <1>1, <1>6 DEF IsState
<1>8. t = [s EXCEPT !.loa = loa, !.active = left, !.metrics = metrics, !.conn = conn,
                    !.goals = goals, !.events = events]
  BY <1>2 DEF applyRemoveServer, IsState
<1>9. left \in SUBSET Servers
  BY DEF IsState
<1> HIDE DEF t, conn, loa, goals, events, metrics, left
<1>10. IsState(t) /\ t.pending = s.pending
  BY <1>3, <1>4, <1>5, <1>7, <1>8, <1>9 DEF IsState, Fields
<1> QED BY <1>10 DEF t

LEMMA RelocationFacts ==
  ASSUME NEW s, IsState(s), NEW m, m.kind \in {"ADD_SERVER", "CONNECT", "DISCONNECT"},
         m.hider \in Slots, Outcome(s, m) = "ACCEPTED"
  PROVE  LET t == applyTickIntent(s, m) IN IsState(t) /\ t.pending = s.pending
<1> DEFINE t == applyTickIntent(s, m)
<1>0. s.pool \in Nat /\ s.loa \in [Slots -> Nat]
  BY DEF IsState
<1>1. CASE m.kind = "ADD_SERVER"
  <2> DEFINE new == Min(Servers \ s.active)
             loa == [s.loa EXCEPT ![m.hider] = @ - 1]
             events == Append(s.events, [type |-> "SERVER_ADDED"])
  <2>1. new \in Servers
    <3>1. Servers \ s.active # {} /\ Servers \ s.active \in SUBSET Nat
      <4>1. s.active # Servers /\ s.active \subseteq Servers
        BY <1>1 DEF Outcome, IsState
      <4> QED BY <4>1, Constants
    <3> QED BY <3>1, MinIsMember
  <2>2. loa \in [Slots -> Nat]
    <3>1. ~ (s.loa[m.hider] < 1)
      BY <1>1 DEF Outcome
    <3>2. s.loa[m.hider] - 1 \in Nat
      BY <1>0, <3>1
    <3> QED BY <1>0, <3>2
  <2>3. t = [s EXCEPT !.loa = loa, !.active = s.active \cup {new}, !.events = events]
    BY <1>1 DEF applyTickIntent, applyAddServer, IsState
  <2> HIDE DEF t, loa, events, new
  <2> QED BY <2>1, <2>2, <2>3 DEF IsState, Fields, t
<1>2. CASE m.kind = "CONNECT"
  <2> DEFINE conn == [s.conn EXCEPT ![m.hider] = m.server]
  <2>1. m.server \in s.active /\ s.pool # 0
    BY <1>2 DEF Outcome
  <2>2. conn \in [Slots -> s.active \cup {NO_SERVER_ID}] /\ s.pool - 1 \in Nat
    BY <1>0, <2>1 DEF IsState
  <2>3. t = [s EXCEPT !.conn = conn, !.pool = s.pool - 1]
    BY <1>2 DEF applyTickIntent, IsState
  <2> HIDE DEF t, conn
  <2> QED BY <2>2, <2>3 DEF IsState, Fields, t
<1>3. CASE m.kind = "DISCONNECT"
  <2> DEFINE conn == [s.conn EXCEPT ![m.hider] = NO_SERVER_ID]
  <2>1. conn \in [Slots -> s.active \cup {NO_SERVER_ID}] /\ s.pool + 1 \in Nat
    BY <1>0 DEF IsState
  <2>2. t = [s EXCEPT !.conn = conn, !.pool = s.pool + 1]
    BY <1>3 DEF applyTickIntent, IsState
  <2> HIDE DEF t, conn
  <2> QED BY <2>1, <2>2 DEF IsState, Fields, t
<1> QED BY <1>1, <1>2, <1>3

\* A move that is accepted leaves the ring as it was.
LEMMA MoveFacts ==
  ASSUME NEW s, IsState(s), NEW m, IsMove(m), Outcome(s, m) = "ACCEPTED"
  PROVE  IsState(applyTickIntent(s, m)) /\ applyTickIntent(s, m).pending = s.pending
<1>1. \/ m.kind \in DOMAIN HiderActionDefs \/ m.kind = "REMOVE_SERVER"
      \/ m.kind \in {"ADD_SERVER", "CONNECT", "DISCONNECT"}
  BY DEF IsMove, Kinds
<1>2. m.hider \in Slots
  BY DEF IsMove
<1> QED BY <1>1, <1>2, ActionFacts, RemovalFacts, RelocationFacts

-----------------------------------------------------------------------------
(* The pending moves of a tick, one after the other.  The recursive        *)
(* function of DispatchAll exists, and what its values have in common is   *)
(* shown by a least number for which they have not.                        *)

NothingDispatched(s) == [s |-> s, done |-> {}, refused |-> {}]

IsDispatch(f, s, n) ==
  f = [i \in 0 .. n |-> IF i = 0 THEN NothingDispatched(s) ELSE dispatchIntent(f[i - 1], s.pending[i])]

LEMMA DispatchExists ==
  ASSUME NEW s, NEW N \in Nat
  PROVE  \E f : IsDispatch(f, s, N)
<1> SUFFICES \A n \in Nat : \E f : IsDispatch(f, s, n)  OBVIOUS
<1> USE DEF IsDispatch
<1> DEFINE Body(f, i) == IF i = 0 THEN NothingDispatched(s) ELSE dispatchIntent(f[i - 1], s.pending[i])
           Bad == {n \in Nat : ~ \E f : f = [i \in 0 .. n |-> Body(f, i)]}
<1>1. CASE Bad = {}
  BY <1>1
<1>2. CASE Bad # {}
  <2>1. PICK n \in Bad : \A m \in Bad : n <= m
    <3> HIDE DEF Body
    <3> QED BY <1>2, LeastOfNaturals
  <2>2. CASE n = 0
    <3> DEFINE f == [i \in 0 .. 0 |-> NothingDispatched(s)]
    <3>1. f = [i \in 0 .. 0 |-> Body(f, i)]
      OBVIOUS
    <3> QED BY <2>1, <2>2, <3>1
  <2>3. CASE n # 0
    <3> HIDE DEF Body
    <3>1. n - 1 \in Nat /\ n - 1 \notin Bad
      BY <2>1, <2>3
    <3>2. PICK f : f = [i \in 0 .. n - 1 |-> Body(f, i)]
      BY <3>1
    <3> DEFINE g == [i \in 0 .. n |-> IF i = n THEN dispatchIntent(f[n - 1], s.pending[n]) ELSE f[i]]
    <3>3. \A i \in 0 .. n : g[i] = Body(g, i)
      <4>1. \A i \in 0 .. n : i # n => g[i] = f[i] /\ f[i] = Body(f, i)
        BY <3>1, <3>2
      <4>2. \A i \in 0 .. n : i # n => Body(f, i) = Body(g, i)
        BY <3>1 DEF Body
      <4>3. g[n] = Body(g, n)
        BY <3>1 DEF Body
      <4> QED BY <4>1, <4>2, <4>3
    <3>4. g = [i \in 0 .. n |-> Body(g, i)]
      BY <3>3
    <3> QED BY <2>1, <3>4
  <2> QED BY <2>2, <2>3
<1>3. QED BY <1>1, <1>2

LEMMA DispatchFacts ==
  ASSUME NEW s, Len(s.pending) \in Nat
  PROVE  /\ DispatchUpTo(s)[0] = NothingDispatched(s)
         /\ \A n \in 1 .. Len(s.pending) :
              DispatchUpTo(s)[n] = dispatchIntent(DispatchUpTo(s)[n - 1], s.pending[n])
<1>1. \E f : IsDispatch(f, s, Len(s.pending))
  BY DispatchExists
<1>2. DispatchUpTo(s) = CHOOSE f : IsDispatch(f, s, Len(s.pending))
  BY DEF DispatchUpTo, IsDispatch, NothingDispatched
<1>3. IsDispatch(DispatchUpTo(s), s, Len(s.pending))
  BY <1>1, <1>2
<1> QED BY <1>3 DEF IsDispatch

\* After the first n moves: what is done or refused was among them, and not both.
Dispatched(s, acc, n) ==
  /\ DOMAIN acc = {"s", "done", "refused"}
  /\ IsState(acc.s) /\ acc.s.pending = s.pending
  /\ acc.done \cup acc.refused \subseteq {s.pending[i].id : i \in 1 .. n}
  /\ acc.done \cap acc.refused = {}

LEMMA DispatchStep ==
  ASSUME NEW s, IsState(s), NEW n \in 1 .. Len(s.pending), NEW acc, Dispatched(s, acc, n - 1)
  PROVE  Dispatched(s, dispatchIntent(acc, s.pending[n]), n)
<1> DEFINE m == s.pending[n]
           next == dispatchIntent(acc, m)
           Before == {s.pending[i].id : i \in 1 .. n - 1}
           UpTo == {s.pending[i].id : i \in 1 .. n}
<1>1. IsMove(m) /\ n \in DOMAIN s.pending /\ DOMAIN s.pending = 1 .. Len(s.pending) /\ n \in Nat
  <2>1. s.pending \in Seq(Moves)
    BY DEF IsState, IsRing
  <2>2. n \in DOMAIN s.pending /\ DOMAIN s.pending = 1 .. Len(s.pending) /\ n \in Nat
    BY <2>1
  <2>3. m \in Moves
    BY <2>1, <2>2
  <2> QED BY <2>2, <2>3 DEF IsMove, Moves
<1>2. m.id \notin Before /\ Before \subseteq UpTo /\ m.id \in UpTo
  <2>1. ASSUME NEW i \in 1 .. n - 1 PROVE s.pending[i].id # m.id /\ i \in 1 .. n
    <3>1. i \in DOMAIN s.pending /\ i # n /\ i \in 1 .. n
      BY <1>1
    <3> QED BY <1>1, <3>1 DEF IsState, IsRing
  <2>2. n \in 1 .. n
    BY <1>1
  <2> QED BY <2>1, <2>2
<1>3. /\ DOMAIN acc = {"s", "done", "refused"} /\ IsState(acc.s) /\ acc.s.pending = s.pending
      /\ acc.done \cup acc.refused \subseteq Before /\ acc.done \cap acc.refused = {}
  BY DEF Dispatched
<1> DEFINE applied == applyTickIntent(acc.s, m)
<1>4. CASE Outcome(acc.s, m) = "ACCEPTED"
  <2>1. IsState(applied) /\ applied.pending = s.pending
    <3> HIDE DEF m
    <3> QED BY <1>1, <1>3, <1>4, MoveFacts
  <2>2. next = [acc EXCEPT !.s = applied, !.done = @ \cup {m.id}]
    BY <1>4 DEF dispatchIntent
  <2> HIDE DEF next, applied, m, Before, UpTo
  <2>3. /\ DOMAIN next = {"s", "done", "refused"} /\ next.s = applied
        /\ next.done = acc.done \cup {m.id} /\ next.refused = acc.refused
    BY <1>3, <2>2
  <2>4. next.done \cup next.refused \subseteq UpTo /\ next.done \cap next.refused = {}
    BY <1>2, <1>3, <2>3
  <2> QED BY <2>1, <2>3, <2>4 DEF Dispatched, UpTo, next, m
<1>5. CASE Outcome(acc.s, m) = "INSUFFICIENT_RESOURCE"
  <2>1. next = acc
    BY <1>5 DEF dispatchIntent
  <2>2. acc.done \cup acc.refused \subseteq UpTo
    <3> HIDE DEF Before, UpTo, m
    <3> QED BY <1>2, <1>3
  <2> QED BY <1>3, <2>1, <2>2 DEF Dispatched
<1>6. CASE Outcome(acc.s, m) \notin {"ACCEPTED", "INSUFFICIENT_RESOURCE"}
  <2>1. next = [acc EXCEPT !.refused = @ \cup {m.id}]
    BY <1>6 DEF dispatchIntent
  <2> HIDE DEF next, m, Before, UpTo
  <2>2. /\ DOMAIN next = {"s", "done", "refused"} /\ next.s = acc.s
        /\ next.refused = acc.refused \cup {m.id} /\ next.done = acc.done
    BY <1>3, <2>1
  <2>3. next.done \cup next.refused \subseteq UpTo /\ next.done \cap next.refused = {}
    BY <1>2, <1>3, <2>2
  <2> QED BY <1>3, <2>2, <2>3 DEF Dispatched, UpTo, next, m
<1> QED BY <1>4, <1>5, <1>6

LEMMA DispatchAllFacts ==
  ASSUME NEW s, IsState(s)
  PROVE  Dispatched(s, DispatchAll(s), Len(s.pending))
<1> DEFINE D(n) == DispatchUpTo(s)[n]
           last == Len(s.pending)
           Bad == {n \in 0 .. last : ~ Dispatched(s, D(n), n)}
<1>0. last \in Nat
  BY DEF IsState, IsRing
<1>1. Dispatched(s, D(0), 0)
  <2>1. D(0) = NothingDispatched(s)
    BY <1>0, DispatchFacts
  <2> HIDE DEF D
  <2> QED BY <2>1 DEF NothingDispatched, Dispatched
<1>2. ASSUME NEW n \in 1 .. last, Dispatched(s, D(n - 1), n - 1) PROVE Dispatched(s, D(n), n)
  <2>1. D(n) = dispatchIntent(D(n - 1), s.pending[n])
    BY <1>0, DispatchFacts
  <2> HIDE DEF D
  <2> QED BY <1>2, <2>1, DispatchStep
<1>3. CASE Bad # {}
  <2>1. Bad \in SUBSET Nat
    BY <1>0
  <2>2. PICK n \in Bad : \A m \in Bad : n <= m
    <3> HIDE DEF Bad
    <3> QED BY <1>3, <2>1, LeastOfNaturals
  <2>3. n # 0 /\ n \in 0 .. last /\ ~ Dispatched(s, D(n), n)
    <3> HIDE DEF D
    <3> QED BY <1>1, <2>2
  <2>4. n \in 1 .. last /\ n - 1 \in 0 .. last /\ n - 1 \notin Bad
    <3>1. n \in 1 .. last /\ n - 1 \in 0 .. last /\ ~ (n <= n - 1)
      BY <1>0, <2>3
    <3> HIDE DEF Bad
    <3> QED BY <2>2, <3>1
  <2>5. Dispatched(s, D(n - 1), n - 1)
    BY <2>4
  <2> HIDE DEF D, Bad, last
  <2> QED BY <1>2, <2>3, <2>4, <2>5
<1>4. CASE Bad = {}
  <2>1. last \in 0 .. last
    BY <1>0
  <2>2. Dispatched(s, D(last), last)
    <3> HIDE DEF last, D
    <3> QED BY <1>4, <2>1
  <2> QED BY <2>2 DEF DispatchAll
<1> QED BY <1>3, <1>4

-----------------------------------------------------------------------------
(* The rest of a tick.                                                     *)

LEMMA RestedFacts ==
  ASSUME NEW s, IsState(s)
  PROVE  IsState(regenerateForTick(s)) /\ regenerateForTick(s).pending = s.pending
<1> DEFINE ap == [h \in Slots |-> IF isBound(Accounts, h) THEN Min({ApCap, s.ap[h] + ApRegen}) ELSE s.ap[h]]
           t == regenerateForTick(s)
<1>1. t = [s EXCEPT !.ap = ap]
  BY DEF regenerateForTick, IsState
<1>2. ASSUME NEW h \in Slots PROVE Min({ApCap, s.ap[h] + ApRegen}) \in 0 .. ApCap
  <2>1. s.ap[h] \in 0 .. 10 /\ ApCap = 10 /\ ApRegen = 2
    BY DEF IsState, ApCap, ApRegen
  <2>2. ApCap \in Int /\ s.ap[h] + ApRegen \in Int
    BY <2>1
  <2>3. Min({ApCap, s.ap[h] + ApRegen}) = IF ApCap <= s.ap[h] + ApRegen THEN ApCap ELSE s.ap[h] + ApRegen
    BY <2>2, MinOfTwo
  <2> QED BY <2>1, <2>3
<1>3. ap \in [Slots -> 0 .. ApCap]
  BY <1>2 DEF IsState
<1> HIDE DEF t, ap
<1> QED BY <1>1, <1>3 DEF IsState, Fields, t

LEMMA DriftedFacts ==
  ASSUME NEW s, IsState(s)
  PROVE  IsState(driftMetrics(s)) /\ driftMetrics(s).pending = s.pending
<1> DEFINE metrics == [server \in Servers |->
                        IF server \in s.active
                        THEN [m \in DOMAIN Drift |-> Max({0, s.metrics[server][m] - Drift[m]})]
                        ELSE s.metrics[server]]
           t == driftMetrics(s)
<1>1. t = [s EXCEPT !.metrics = metrics]
  BY DEF driftMetrics, IsState
<1>2. ASSUME NEW v \in Servers, NEW m \in DOMAIN Drift
      PROVE  Max({0, s.metrics[v][m] - Drift[m]}) \in 0 .. MetricMax
  <2>1. s.metrics[v][m] \in 0 .. 100 /\ MetricMax = 100
    BY DEF IsState, Gauges, MetricMax
  <2>2. Drift[m] \in Nat
    BY DEF Drift
  <2> DEFINE drifted == s.metrics[v][m] - Drift[m]
  <2>3. drifted \in Int /\ drifted <= 100
    BY <2>1, <2>2
  <2>4. Max({0, drifted}) = IF 0 >= drifted THEN 0 ELSE drifted
    <3> HIDE DEF drifted
    <3> QED BY <2>3, MaxOfTwo
  <2> QED BY <2>1, <2>3, <2>4
<1>3. metrics \in [Servers -> Gauges]
  BY <1>2 DEF IsState, Gauges
<1> HIDE DEF t, metrics
<1> QED BY <1>1, <1>3 DEF IsState, Fields, t

LEMMA WagerFacts ==
  ASSUME NEW s, IsState(s), NEW server
  PROVE  IsState(Wagered(s, server)) /\ Wagered(s, server).pending = s.pending
<1> DEFINE hit == Occupants(s, server)
           conn == [h \in Slots |-> IF hit # {} /\ h = Min(hit) THEN NO_SERVER_ID ELSE s.conn[h]]
           events == Append(s.events, [type |-> "SERVER_PROBED", server_id |-> server,
                                       outcome |-> IF hit = {} THEN "MISS" ELSE "HIT"])
           t == Wagered(s, server)
<1>1. t = [s EXCEPT !.conn = conn, !.events = events]
  BY DEF Wagered, IsState
<1>2. conn \in [Slots -> s.active \cup {NO_SERVER_ID}]
  BY DEF IsState
<1> HIDE DEF t, conn, events
<1> QED BY <1>1, <1>2 DEF IsState, Fields, t

LEMMA EndedFacts ==
  ASSUME NEW s, IsState(s)
  PROVE  IsState(Ended(s)) /\ Ended(s).pending = s.pending
<1>1. \/ Ended(s) = s
      \/ Ended(s) = [s EXCEPT !.phase = "COMPLETE", !.winner = "HIDERS"]
      \/ Ended(s) = [s EXCEPT !.phase = "COMPLETE", !.winner = "SEEKER"]
  BY DEF Ended
<1> DEFINE t == Ended(s)
<1>2. /\ DOMAIN t = Fields
      /\ t.ap = s.ap /\ t.loa = s.loa /\ t.pool = s.pool /\ t.active = s.active /\ t.conn = s.conn
      /\ t.metrics = s.metrics /\ t.goals = s.goals /\ t.pending = s.pending
  <2>1. DOMAIN s = Fields
    BY DEF IsState
  <2> HIDE DEF t
  <2> QED BY <1>1, <2>1 DEF Fields, t
<1> HIDE DEF t
<1>3. IsState(t)
  BY <1>2, AlikeStates DEF Alike
<1> QED BY <1>2, <1>3 DEF t

LEMMA CompactedFacts ==
  ASSUME NEW s, IsState(s), NEW ids
  PROVE  LET t == [s EXCEPT !.pending = Without(@, ids)] IN
         IsState(t) /\ t.pending = Without(s.pending, ids) /\ Ids(t.pending) = Ids(s.pending) \ ids
<1> DEFINE ring == Without(s.pending, ids)
<1>1. IsRing(ring) /\ Ids(ring) = Ids(s.pending) \ ids
  BY WithoutFacts DEF IsState
<1> HIDE DEF ring
<1>2. LET t == [s EXCEPT !.pending = ring] IN IsState(t) /\ t.pending = ring
  BY <1>1 DEF IsState, Fields
<1> QED BY <1>1, <1>2 DEF ring

-----------------------------------------------------------------------------
(* Queueing.                                                               *)

\* A ring with room leaves an id that none of its moves has.
LEMMA FreshId ==
  ASSUME NEW q, IsRing(q), Len(q) < RingCap
  PROVE  Min((1 .. RingCap + 1) \ Ids(q)) \in (1 .. RingCap + 1) \ Ids(q)
<1> DEFINE n == Len(q)
           f == [i \in 1 .. n |-> q[i].id]
           free == (1 .. RingCap + 1) \ Ids(q)
<1>1. n \in Nat /\ DOMAIN q = 1 .. n /\ RingCap \in Nat /\ \A i \in 1 .. n : q[i] \in Moves
  BY Constants DEF IsRing
<1>2. Ids(q) = {q[i].id : i \in 1 .. n}
  BY <1>1 DEF Ids, Range
<1>3. IsFiniteSet(1 .. n) /\ Cardinality(1 .. n) = n
  <2>1. n \in Int /\ n = IF 1 > n THEN 0 ELSE n - 1 + 1
    BY <1>1
  <2> HIDE DEF n
  <2> QED BY <2>1, FS_Interval
<1>4. f \in Surjection(1 .. n, Ids(q))
  BY <1>2 DEF Surjection
<1>5. IsFiniteSet(Ids(q)) /\ Cardinality(Ids(q)) <= n
  <2> HIDE DEF f, n
  <2> QED BY <1>3, <1>4, FS_Surjection
<1>6. IsFiniteSet(1 .. RingCap + 1) /\ Cardinality(1 .. RingCap + 1) = RingCap + 1
  <2>1. RingCap + 1 \in Int /\ RingCap + 1 = IF 1 > RingCap + 1 THEN 0 ELSE RingCap + 1 - 1 + 1
    BY <1>1
  <2> QED BY <2>1, FS_Interval
<1>7. free # {}
  <2>1. SUFFICES ASSUME free = {} PROVE FALSE
    OBVIOUS
  <2>2. 1 .. RingCap + 1 \in SUBSET Ids(q)
    BY <2>1
  <2>3. Cardinality(1 .. RingCap + 1) <= Cardinality(Ids(q))
    BY <1>5, <2>2, FS_Subset
  <2>4. Cardinality(Ids(q)) \in Nat
    BY <1>5, FS_CardinalityType
  <2> HIDE DEF n
  <2> QED BY <1>1, <1>5, <1>6, <2>3, <2>4 DEF n
<1>8. free \in SUBSET Nat
  BY <1>1
<1> HIDE DEF free
<1> QED BY <1>7, <1>8, MinIsMember DEF free

LEMMA EnqueuedFacts ==
  ASSUME NEW s, IsState(s), NEW h \in Slots, NEW kind \in Kinds, NEW server \in 0 .. NO_SERVER_ID,
         Len(s.pending) < RingCap
  PROVE  LET t == Enqueued(s, MoveOf(h, kind, server)) IN
         IsState(t) /\ Ids(s.pending) \subseteq Ids(t.pending)
<1> DEFINE m == MoveOf(h, kind, server)
           q == s.pending
           new == Min((1 .. RingCap + 1) \ Ids(q))
           queued == [m EXCEPT !.id = new]
           r == Append(q, queued)
           t == Enqueued(s, m)
<1>1. IsRing(q) /\ q \in Seq(Moves) /\ Len(q) \in Nat /\ DOMAIN q = 1 .. Len(q)
  BY DEF IsState, IsRing
<1>2. new \in 1 .. RingCap + 1 /\ new \notin Ids(q)
  <2>1. new \in (1 .. RingCap + 1) \ Ids(q)
    <3> HIDE DEF q
    <3> QED BY <1>1, FreshId DEF q
  <2> QED BY <2>1
<1> HIDE DEF new
<1>3. queued \in Moves /\ queued.id = new
  BY <1>2 DEF MoveOf, Moves
<1>4. t = [s EXCEPT !.pending = r]
  BY DEF Enqueued, IsState, Fields, new
<1> HIDE DEF queued, t
<1>5. /\ r \in Seq(Moves) /\ Len(r) = Len(q) + 1 /\ DOMAIN r = 1 .. Len(q) + 1
      /\ \A i \in DOMAIN q : r[i] = q[i]
      /\ r[Len(q) + 1] = queued
  <2> HIDE DEF q
  <2> QED BY <1>1, <1>3
<1>6. \A i \in DOMAIN q : q[i].id \in Ids(q)
  BY DEF Ids, Range
<1>7. \A i, j \in DOMAIN r : r[i].id = r[j].id => i = j
  <2> SUFFICES ASSUME NEW i \in DOMAIN r, NEW j \in DOMAIN r, r[i].id = r[j].id PROVE i = j
    OBVIOUS
  <2> HIDE DEF q, r
  <2>1. CASE i \in DOMAIN q /\ j \in DOMAIN q
    BY <1>1, <1>5, <2>1 DEF IsRing
  <2>2. CASE i \in DOMAIN q /\ j \notin DOMAIN q
    <3>1. j = Len(q) + 1
      BY <1>1, <1>5, <2>2
    <3> QED BY <1>2, <1>3, <1>5, <1>6, <2>2, <3>1
  <2>3. CASE i \notin DOMAIN q /\ j \in DOMAIN q
    <3>1. i = Len(q) + 1
      BY <1>1, <1>5, <2>3
    <3> QED BY <1>2, <1>3, <1>5, <1>6, <2>3, <3>1
  <2>4. CASE i \notin DOMAIN q /\ j \notin DOMAIN q
    BY <1>1, <1>5, <2>4
  <2> QED BY <2>1, <2>2, <2>3, <2>4
<1>8. Len(r) <= RingCap
  <2>1. Len(q) + 1 <= RingCap
    BY <1>1, Constants
  <2> HIDE DEF q, r
  <2> QED BY <1>5, <2>1
<1>9. Ids(q) \subseteq Ids(r)
  <2>1. Ids(q) = {q[i].id : i \in DOMAIN q} /\ Ids(r) = {r[i].id : i \in DOMAIN r}
    BY DEF Ids, Range
  <2>2. DOMAIN q \subseteq DOMAIN r
    <3> HIDE DEF q, r
    <3> QED BY <1>1, <1>5
  <2> HIDE DEF q, r
  <2> QED BY <1>5, <2>1, <2>2
<1>10. IsRing(r)
  <2> HIDE DEF q, r
  <2> QED BY <1>5, <1>7, <1>8 DEF IsRing
<1> HIDE DEF r
<1>11. IsState(t) /\ t.pending = r
  BY <1>4, <1>10 DEF IsState, Fields
<1> QED BY <1>9, <1>11 DEF t, q

\* queueMove takes nothing off the ring.
LEMMA QueueFacts ==
  ASSUME NEW s, IsState(s), NEW h \in Slots, NEW kind \in Kinds, NEW server \in 0 .. NO_SERVER_ID
  PROVE  LET t == queueMove(s, MoveOf(h, kind, server)) IN
         IsState(t) /\ Ids(s.pending) \subseteq Ids(t.pending)
<1> DEFINE m == MoveOf(h, kind, server)
           t == queueMove(s, m)
<1>1. IsMove(m) /\ m.hider = h
  BY DEF MoveOf, IsMove
<1>2. CASE Outcome(s, m) = "ACCEPTED"
  <2>1. t = applyTickIntent(s, m)
    BY <1>2 DEF queueMove
  <2> HIDE DEF m, t
  <2>2. IsState(t) /\ t.pending = s.pending
    BY <1>1, <1>2, <2>1, MoveFacts
  <2> QED BY <2>2 DEF t, m
<1>3. CASE Outcome(s, m) = "INSUFFICIENT_RESOURCE" /\ HasRoom(s, h)
  <2>1. t = Enqueued(s, m)
    BY <1>1, <1>3 DEF queueMove
  <2>2. Len(s.pending) < RingCap
    BY <1>3 DEF HasRoom
  <2>3. IsState(Enqueued(s, m)) /\ Ids(s.pending) \subseteq Ids(Enqueued(s, m).pending)
    BY <2>2, EnqueuedFacts
  <2> QED BY <2>1, <2>3
<1>4. CASE Outcome(s, m) # "ACCEPTED" /\ ~ (Outcome(s, m) = "INSUFFICIENT_RESOURCE" /\ HasRoom(s, h))
  <2>1. t = s
    BY <1>1, <1>4 DEF queueMove
  <2> QED BY <2>1
<1> QED BY <1>2, <1>3, <1>4

-----------------------------------------------------------------------------
(* What a hider's view shows of a state.                                   *)

LEMMA ViewFacts ==
  ASSUME NEW s, NEW h
  PROVE  LET view == buildHiderView(s, Accounts, h) IN
         /\ view.phase = s.phase /\ view.servers = renderServers(s)
         /\ view.self = renderSelf(s, Accounts, h) /\ view.pending = renderPending(s, Accounts)
         /\ view.team_connections = s.pool /\ view.goals = renderGoals(s)
<1> DEFINE common == renderCommon(s, Accounts, "hider")
           own == [hider_id |-> h, self |-> renderSelf(s, Accounts, h), team |-> renderTeam(s, Accounts, h),
                   pending |-> renderPending(s, Accounts), team_connections |-> s.pool,
                   goals |-> renderGoals(s), team_reward |-> teamReward(s)]
           view == buildHiderView(s, Accounts, h)
<1>1. view = [x \in DOMAIN common \cup DOMAIN own |-> IF x \in DOMAIN common THEN common[x] ELSE own[x]]
  BY DEF buildHiderView, Joined
<1>2. /\ DOMAIN common = {"audience", "phase", "winner", "hider_count", "server_count", "servers", "events"}
      /\ common.phase = s.phase /\ common.servers = renderServers(s)
  BY DEF renderCommon
<1>3. /\ DOMAIN own = {"hider_id", "self", "team", "pending", "team_connections", "goals", "team_reward"}
      /\ own.self = renderSelf(s, Accounts, h) /\ own.pending = renderPending(s, Accounts)
      /\ own.team_connections = s.pool /\ own.goals = renderGoals(s)
  OBVIOUS
<1> HIDE DEF view, common, own
<1> QED BY <1>1, <1>2, <1>3 DEF view

\* Every active server once, and nothing else.
LEMMA ShownServers ==
  ASSUME NEW s, IsState(s)
  PROVE  LET shown == renderServers(s) IN
         /\ DOMAIN shown = 1 .. Cardinality(s.active) /\ Len(shown) = Cardinality(s.active)
         /\ Cardinality(s.active) \in Nat
         /\ \A i \in DOMAIN shown :
              shown[i].server_id \in s.active
              /\ shown[i].metrics = renderMetricFrame(s.metrics[shown[i].server_id])
         /\ \A v \in s.active : \E i \in DOMAIN shown : shown[i].server_id = v
<1> DEFINE ids == InOrder(s.active)
           n == Cardinality(s.active)
           shown == renderServers(s)
<1>1. s.active \in SUBSET Nat /\ IsFiniteSet(s.active) /\ n \in Nat
  <2>1. s.active \in SUBSET Servers
    BY DEF IsState
  <2> QED BY <2>1, Constants, FS_Subset, FS_CardinalityType
<1>2. ids \in [1 .. n -> s.active] /\ \A v \in s.active : \E i \in 1 .. n : ids[i] = v
  BY <1>1, OrderFacts
<1>3. shown = [i \in DOMAIN ids |-> [server_id |-> ids[i], metrics |-> renderMetricFrame(s.metrics[ids[i]])]]
  BY DEF renderServers
<1> HIDE DEF ids, shown, n
<1>4. shown = [i \in 1 .. n |-> [server_id |-> ids[i], metrics |-> renderMetricFrame(s.metrics[ids[i]])]]
  BY <1>2, <1>3
<1>5. \A i \in 1 .. n : shown[i].server_id = ids[i] /\ shown[i].metrics = renderMetricFrame(s.metrics[ids[i]])
  BY <1>4
<1>6. DOMAIN shown = 1 .. n /\ Len(shown) = n
  BY <1>1, <1>4
<1> QED BY <1>1, <1>2, <1>5, <1>6 DEF shown, n

LEMMA SeededFacts ==
  /\ DOMAIN SeededGoals = 1 .. 4
  /\ \A k \in 1 .. 4 :
       LET g == SeededGoals[k]
           r == g.requirements[1]
       IN /\ g.goal_id = k - 1 /\ g.reward_amount = 1 /\ g.requirements = <<r>>
          /\ r.type \in {"ACTIVE_SERVER_COUNT", "SERVER_METRIC_THRESHOLD"}
          /\ r.metric \in {"CPU", "NETWORK"} /\ r.subject_id = 0 /\ r.threshold \in Nat
<1>1. DOMAIN SeededGoals = 1 .. 4
  BY DEF SeededGoals
<1>2. \A k \in 1 .. 4 : k = 1 \/ k = 2 \/ k = 3 \/ k = 4
  OBVIOUS
<1>3. /\ SeededGoals[1].goal_id = 0 /\ SeededGoals[1].reward_amount = 1
      /\ SeededGoals[1].requirements = <<MetricOf(0, "CPU", 40)>>
      /\ SeededGoals[2].goal_id = 1 /\ SeededGoals[2].reward_amount = 1
      /\ SeededGoals[2].requirements = <<MetricOf(0, "NETWORK", 20)>>
      /\ SeededGoals[3].goal_id = 2 /\ SeededGoals[3].reward_amount = 1
      /\ SeededGoals[3].requirements = <<CountOf(3)>>
      /\ SeededGoals[4].goal_id = 3 /\ SeededGoals[4].reward_amount = 1
      /\ SeededGoals[4].requirements = <<MetricOf(0, "CPU", 80)>>
  BY DEF SeededGoals
<1>4. /\ CountOf(3).type = "ACTIVE_SERVER_COUNT" /\ CountOf(3).metric = "CPU"
      /\ CountOf(3).subject_id = 0 /\ CountOf(3).threshold = 3
  BY DEF CountOf
<1>5. \A x, t : LET r == MetricOf(0, x, t) IN
        r.type = "SERVER_METRIC_THRESHOLD" /\ r.metric = x /\ r.subject_id = 0 /\ r.threshold = t
  BY DEF MetricOf
<1>6. ASSUME NEW k \in 1 .. 4
      PROVE  LET g == SeededGoals[k]
                 r == g.requirements[1]
             IN /\ g.goal_id = k - 1 /\ g.reward_amount = 1 /\ g.requirements = <<r>>
                /\ r.type \in {"ACTIVE_SERVER_COUNT", "SERVER_METRIC_THRESHOLD"}
                /\ r.metric \in {"CPU", "NETWORK"} /\ r.subject_id = 0 /\ r.threshold \in Nat
  <2>1. CASE k = 1
    BY <1>3, <1>5, <2>1
  <2>2. CASE k = 2
    BY <1>3, <1>5, <2>2
  <2>3. CASE k = 3
    BY <1>3, <1>4, <2>3
  <2>4. CASE k = 4
    BY <1>3, <1>5, <2>4
  <2> QED BY <1>2, <2>1, <2>2, <2>3, <2>4
<1> QED BY <1>1, <1>6

\* A goal as views show it, and its one requirement.
Shown(s, k) == renderGoal(SeededGoals[k], s.goals[k - 1])
Req(k) == SeededGoals[k].requirements[1]

LEMMA ShownGoal ==
  ASSUME NEW s, NEW k \in 1 .. 4
  PROVE  LET g == Shown(s, k) IN
         /\ g.goal_id = k - 1 /\ g.status = s.goals[k - 1] /\ g.reward_amount = 1
         /\ g.requirements = <<renderRequirement(Req(k))>>
<1> DEFINE given == SeededGoals[k]
           g == Shown(s, k)
<1>1. given.goal_id = k - 1 /\ given.reward_amount = 1 /\ given.requirements = <<Req(k)>>
  BY SeededFacts DEF Req
<1>2. /\ g.goal_id = given.goal_id /\ g.status = s.goals[k - 1] /\ g.reward_amount = given.reward_amount
      /\ g.requirements = [i \in DOMAIN given.requirements |-> renderRequirement(given.requirements[i])]
  BY DEF Shown, renderGoal
<1> HIDE DEF given, g
<1>3. g.requirements = <<renderRequirement(Req(k))>>
  BY <1>1, <1>2
<1> QED BY <1>1, <1>2, <1>3 DEF g

LEMMA ShownRequirement ==
  ASSUME NEW k \in 1 .. 4
  PROVE  LET r == Req(k)
             shown == renderRequirement(r)
         IN /\ r.type \in {"ACTIVE_SERVER_COUNT", "SERVER_METRIC_THRESHOLD"}
            /\ r.metric \in {"CPU", "NETWORK"} /\ r.subject_id = 0 /\ r.threshold \in Nat
            /\ shown.type = r.type /\ shown.threshold = r.threshold
            /\ r.type = "ACTIVE_SERVER_COUNT" => shown.server_id = NO_SERVER_ID
            /\ r.type = "SERVER_METRIC_THRESHOLD" => shown.server_id = 0 /\ shown.metric = r.metric
<1> DEFINE r == Req(k)
<1>1. /\ r.type \in {"ACTIVE_SERVER_COUNT", "SERVER_METRIC_THRESHOLD"}
      /\ r.metric \in {"CPU", "NETWORK"} /\ r.subject_id = 0 /\ r.threshold \in Nat
  BY SeededFacts DEF Req
<1> HIDE DEF r
<1> QED BY <1>1 DEF renderRequirement, NoServer, NO_SERVER_ID, r

LEMMA ShownGoals ==
  ASSUME NEW s, IsState(s)
  PROVE  LET goals == renderGoals(s) IN
         /\ \E n \in Nat : DOMAIN goals = 1 .. n
         /\ \A i \in DOMAIN goals : \E k \in 1 .. 4 : goals[i] = Shown(s, k)
         /\ \A k \in 1 .. 4 : s.goals[k - 1] = "OPEN" => \E i \in DOMAIN goals : goals[i] = Shown(s, k)
<1> DEFINE S == {k \in DOMAIN SeededGoals : s.goals[SeededGoals[k].goal_id] # "CANCELLED"}
           n == Cardinality(S)
           ids == InOrder(S)
           goals == renderGoals(s)
<1>1. S = {k \in 1 .. 4 : s.goals[k - 1] # "CANCELLED"}
  BY SeededFacts
<1>2. S \in SUBSET Nat /\ IsFiniteSet(S) /\ n \in Nat /\ S \subseteq 1 .. 4
  <2>1. S \in SUBSET (1 .. 4) /\ S \in SUBSET Nat
    BY <1>1
  <2>2. IsFiniteSet(1 .. 4)
    <3>1. 1 \in Int /\ 4 \in Int
      OBVIOUS
    <3> QED BY <3>1, FS_Interval
  <2> HIDE DEF S
  <2>3. IsFiniteSet(S)
    BY <2>1, <2>2, FS_Subset
  <2>4. n \in Nat
    BY <2>3, FS_CardinalityType
  <2> QED BY <2>1, <2>3, <2>4
<1>3. ids \in [1 .. n -> S] /\ \A k \in S : \E i \in 1 .. n : ids[i] = k
  <2> HIDE DEF S
  <2> QED BY <1>2, OrderFacts
<1>4. goals = [i \in DOMAIN ids |->
                 renderGoal(SeededGoals[ids[i]], s.goals[SeededGoals[ids[i]].goal_id])]
  BY DEF renderGoals
<1> HIDE DEF ids, goals, n
<1>5. \A i \in 1 .. n : ids[i] \in S /\ goals[i] = renderGoal(SeededGoals[ids[i]], s.goals[SeededGoals[ids[i]].goal_id])
  <2> HIDE DEF S
  <2> QED BY <1>3, <1>4
<1>6. \A i \in 1 .. n : ids[i] \in 1 .. 4 /\ goals[i] = Shown(s, ids[i])
  <2>1. \A k \in 1 .. 4 : SeededGoals[k].goal_id = k - 1
    BY SeededFacts
  <2> HIDE DEF S
  <2> QED BY <1>2, <1>5, <2>1 DEF Shown
<1>7. DOMAIN goals = 1 .. n
  <2> HIDE DEF S
  <2> QED BY <1>3, <1>4
<1>8. ASSUME NEW k \in 1 .. 4, s.goals[k - 1] = "OPEN" PROVE \E i \in 1 .. n : goals[i] = Shown(s, k)
  <2>1. k \in S
    BY <1>1, <1>8
  <2> HIDE DEF S
  <2> QED BY <1>3, <1>6, <2>1
<1> QED BY <1>2, <1>6, <1>7, <1>8 DEF goals

-----------------------------------------------------------------------------
(* The two readings of a requirement.                                      *)

LEMMA SameRequirement ==
  ASSUME NEW s, IsState(s), NEW h, NEW k \in 1 .. 4
  PROVE  LET view == buildHiderView(s, Accounts, h) IN
         requirementMet(view, renderRequirement(Req(k))) <=> StateMeets(s, Req(k))
<1> DEFINE view == buildHiderView(s, Accounts, h)
           shown == view.servers
           r == Req(k)
           rr == renderRequirement(r)
<1>1. shown = renderServers(s)
  BY ViewFacts
<1>2. /\ DOMAIN shown = 1 .. Cardinality(s.active) /\ Len(shown) = Cardinality(s.active)
      /\ \A i \in DOMAIN shown :
           shown[i].server_id \in s.active
           /\ shown[i].metrics = renderMetricFrame(s.metrics[shown[i].server_id])
      /\ \A v \in s.active : \E i \in DOMAIN shown : shown[i].server_id = v
  BY <1>1, ShownServers
<1>3. /\ r.type \in {"ACTIVE_SERVER_COUNT", "SERVER_METRIC_THRESHOLD"}
      /\ r.metric \in {"CPU", "NETWORK"} /\ r.subject_id = 0 /\ r.threshold \in Nat
      /\ rr.type = r.type /\ rr.threshold = r.threshold
      /\ r.type = "SERVER_METRIC_THRESHOLD" => rr.server_id = 0 /\ rr.metric = r.metric
  BY ShownRequirement
<1>4. DOMAIN Raises = {"CPU", "NETWORK"}
  BY DEF Raises
<1>5. ServersNamed(view, 0) = {x \in {shown[i] : i \in DOMAIN shown} : x.server_id = 0}
  BY DEF ServersNamed, Range
<1>6. requirementMet(view, rr) <=>
        \/ rr.type = "ACTIVE_SERVER_COUNT" /\ Len(shown) >= rr.threshold
        \/ /\ rr.type = "SERVER_METRIC_THRESHOLD" /\ rr.metric \in DOMAIN Raises
           /\ \E x \in ServersNamed(view, rr.server_id) : x.metrics[rr.metric] >= rr.threshold
  BY DEF requirementMet
<1> DEFINE named == ServersNamed(view, 0)
<1> HIDE DEF rr, r, shown, view, named
<1>7. CASE r.type = "ACTIVE_SERVER_COUNT"
  <2>1. requirementMet(view, rr) <=> Len(shown) >= r.threshold
    BY <1>3, <1>6, <1>7
  <2> QED BY <1>2, <1>7, <2>1 DEF StateMeets, r, rr, view
<1>8. CASE r.type = "SERVER_METRIC_THRESHOLD"
  <2>1. requirementMet(view, rr) <=> \E x \in named : x.metrics[r.metric] >= r.threshold
    BY <1>3, <1>4, <1>6, <1>8 DEF named
  <2>2. \A f : renderMetricFrame(f)[r.metric] = f[r.metric]
    BY <1>3 DEF renderMetricFrame, VisibleMetrics
  <2>3. \A x \in named : 0 \in s.active /\ x.metrics = renderMetricFrame(s.metrics[0])
    BY <1>2, <1>5 DEF named
  <2>4. 0 \in s.active => \E x \in named : TRUE
    BY <1>2, <1>5 DEF named
  <2>5. StateMeets(s, r) <=> 0 \in s.active /\ s.metrics[0][r.metric] >= r.threshold
    BY <1>3, <1>8 DEF StateMeets
  <2>6. requirementMet(view, rr) <=> StateMeets(s, r)
    BY <2>1, <2>2, <2>3, <2>4, <2>5
  <2> QED BY <2>6 DEF r, rr, view
<1> QED BY <1>3, <1>7, <1>8

LEMMA GoalReadings ==
  ASSUME NEW s, IsState(s), NEW h, NEW k \in 1 .. 4
  PROVE  LET view == buildHiderView(s, Accounts, h)
             g == Shown(s, k)
         IN /\ goalSupported(g) <=> s.goals[k - 1] = "OPEN"
            /\ Unmet(view, g) = IF StateMeets(s, Req(k)) THEN {} ELSE {1}
            /\ goalRequirementsMet(s, SeededGoals[k]) <=> StateMeets(s, Req(k))
<1> DEFINE view == buildHiderView(s, Accounts, h)
           g == Shown(s, k)
           rr == renderRequirement(Req(k))
<1>1. g.status = s.goals[k - 1] /\ g.reward_amount = 1 /\ g.requirements = <<rr>>
  BY ShownGoal
<1>2. rr.type = "ACTIVE_SERVER_COUNT" \/ (rr.type = "SERVER_METRIC_THRESHOLD" /\ rr.metric \in DOMAIN Raises)
  <2>1. DOMAIN Raises = {"CPU", "NETWORK"}
    BY DEF Raises
  <2> QED BY <2>1, ShownRequirement
<1>3. requirementMet(view, rr) <=> StateMeets(s, Req(k))
  BY SameRequirement
<1> HIDE DEF g, rr, view
<1>4. g.requirements # <<>> /\ Range(g.requirements) = {rr}
  <2>1. DOMAIN <<rr>> = {1} /\ <<rr>>[1] = rr /\ <<rr>> # <<>>
    OBVIOUS
  <2> QED BY <1>1, <2>1 DEF Range
<1>5. goalSupported(g) <=> s.goals[k - 1] = "OPEN"
  BY <1>1, <1>2, <1>4 DEF goalSupported
<1>6. Unmet(view, g) = IF StateMeets(s, Req(k)) THEN {} ELSE {1}
  <2>1. DOMAIN g.requirements = {1} /\ g.requirements[1] = rr
    BY <1>1
  <2>2. Unmet(view, g) = {i \in {1} : ~ requirementMet(view, rr)}
    BY <2>1 DEF Unmet
  <2> QED BY <1>3, <2>2
<1>7. goalRequirementsMet(s, SeededGoals[k]) <=> StateMeets(s, Req(k))
  <2>1. SeededGoals[k].requirements = <<Req(k)>>
    BY SeededFacts DEF Req
  <2> DEFINE r == Req(k)
             reqs == SeededGoals[k].requirements
  <2> HIDE DEF r, reqs
  <2>2. reqs # <<>> /\ Range(reqs) = {r}
    <3>1. DOMAIN <<r>> = {1} /\ <<r>>[1] = r /\ <<r>> # <<>> /\ reqs = <<r>>
      BY <2>1 DEF reqs, r
    <3> QED BY <3>1 DEF Range
  <2>3. goalRequirementsMet(s, SeededGoals[k]) <=> reqs # <<>> /\ \A x \in Range(reqs) : StateMeets(s, x)
    BY DEF goalRequirementsMet, reqs
  <2> QED BY <2>2, <2>3 DEF r
<1> QED BY <1>5, <1>6, <1>7 DEF g, view

\* Which goals can be paid is the same from the view and from the state.
LEMMA SamePayable ==
  ASSUME NEW s, IsState(s), NEW h
  PROVE  LET view == buildHiderView(s, Accounts, h) IN
         {view.goals[i].goal_id : i \in Payable(view)} = {SeededGoals[i].goal_id : i \in Completable(s)}
<1> DEFINE view == buildHiderView(s, Accounts, h)
           goals == view.goals
<1>1. goals = renderGoals(s)
  BY ViewFacts
<1>2. /\ \A i \in DOMAIN goals : \E k \in 1 .. 4 : goals[i] = Shown(s, k)
      /\ \A k \in 1 .. 4 : s.goals[k - 1] = "OPEN" => \E i \in DOMAIN goals : goals[i] = Shown(s, k)
  BY <1>1, ShownGoals
<1>3. Payable(view) = {i \in DOMAIN goals : goalSupported(goals[i]) /\ Unmet(view, goals[i]) = {}}
  BY DEF Payable, allRequirementsMet
<1>4. Completable(s) = {k \in 1 .. 4 : s.goals[k - 1] = "OPEN" /\ StateMeets(s, Req(k))}
  BY SeededFacts, GoalReadings DEF Completable
<1>5. \A k \in 1 .. 4 : SeededGoals[k].goal_id = k - 1 /\ Shown(s, k).goal_id = k - 1
  BY SeededFacts, ShownGoal
<1>6. \A k \in 1 .. 4 : goalSupported(Shown(s, k)) /\ Unmet(view, Shown(s, k)) = {}
                         <=> s.goals[k - 1] = "OPEN" /\ StateMeets(s, Req(k))
  BY GoalReadings
<1> HIDE DEF goals, view
<1>7. ASSUME NEW i \in Payable(view) PROVE \E k \in Completable(s) : goals[i].goal_id = SeededGoals[k].goal_id
  <2>1. i \in DOMAIN goals /\ goalSupported(goals[i]) /\ Unmet(view, goals[i]) = {}
    BY <1>3, <1>7
  <2>2. PICK k \in 1 .. 4 : goals[i] = Shown(s, k)
    BY <1>2, <2>1
  <2> QED BY <1>4, <1>5, <1>6, <2>1, <2>2
<1>8. ASSUME NEW k \in Completable(s) PROVE \E i \in Payable(view) : goals[i].goal_id = SeededGoals[k].goal_id
  <2>1. k \in 1 .. 4 /\ s.goals[k - 1] = "OPEN" /\ StateMeets(s, Req(k))
    BY <1>4, <1>8
  <2>2. PICK i \in DOMAIN goals : goals[i] = Shown(s, k)
    BY <1>2, <2>1
  <2> QED BY <1>3, <1>5, <1>6, <2>1, <2>2
<1> QED BY <1>7, <1>8 DEF goals, view

-----------------------------------------------------------------------------
(* What the policy chooses is a move, and one the rules do not refuse.     *)

LEMMA CostExists ==
  ASSUME NEW view, NEW goal, NEW rr, goal.requirements = <<rr>>,
         Unmet(view, goal) = {1}, RequirementCost(view, rr) \in Int
  PROVE  CostUpTo(view, goal)[1] = 10 + RequirementCost(view, rr)
<1> DEFINE Step(total, n) ==
             IF n = 0 THEN HiderActionDefs.PAY_GOAL.ap_cost
             ELSE total[n - 1] + IF n \in Unmet(view, goal)
                                 THEN RequirementCost(view, goal.requirements[n]) ELSE 0
           last == Len(goal.requirements)
           Is(f) == f = [n \in 0 .. last |-> Step(f, n)]
           cost == RequirementCost(view, rr)
           g == [n \in 0 .. 1 |-> IF n = 0 THEN 10 ELSE 10 + cost]
<1>1. HiderActionDefs.PAY_GOAL.ap_cost = 10
  BY DEF HiderActionDefs
<1>2. last = 1 /\ goal.requirements[1] = rr
  OBVIOUS
<1>3. CostUpTo(view, goal) = CHOOSE f : Is(f)
  BY DEF CostUpTo
<1> HIDE DEF cost
<1>4. \A f : Step(f, 0) = 10 /\ Step(f, 1) = f[0] + cost
  BY <1>1, <1>2 DEF cost
<1> HIDE DEF Step, last
<1>5. g[0] = 10 /\ g[1] = 10 + cost /\ DOMAIN g = 0 .. 1
  OBVIOUS
<1>6. \A n \in 0 .. 1 : n = 0 \/ n = 1
  OBVIOUS
<1>7. \A n \in 0 .. 1 : g[n] = Step(g, n)
  <2> HIDE DEF g
  <2> QED BY <1>4, <1>5, <1>6
<1>8. Is(g)
  BY <1>2, <1>7
<1>9. ASSUME NEW f, Is(f) PROVE f[1] = 10 + cost
  <2>1. f[0] = Step(f, 0) /\ f[1] = Step(f, 1)
    BY <1>2, <1>9
  <2> QED BY <1>4, <2>1
<1>10. Is(CostUpTo(view, goal))
  <2> HIDE DEF g, Is
  <2> QED BY <1>3, <1>8
<1>11. CostUpTo(view, goal)[1] = 10 + cost
  <2> HIDE DEF Is
  <2> QED BY <1>9, <1>10
<1> QED BY <1>11 DEF cost

\* An open goal that is not met, as the policy reads it.
LEMMA CostFacts ==
  ASSUME NEW s, IsState(s), NEW h \in Slots, NEW k \in 1 .. 4, ~ StateMeets(s, Req(k))
  PROVE  LET view == buildHiderView(s, Accounts, h)
             rr == renderRequirement(Req(k))
         IN /\ Unmet(view, Shown(s, k)) = {1}
            /\ ~ Hopeless(view, rr, NumServers) => RequirementCost(view, rr) \in Nat
            /\ rr.type = "SERVER_METRIC_THRESHOLD" /\ ~ Hopeless(view, rr, NumServers) => 0 \in s.active
            /\ rr.type = "ACTIVE_SERVER_COUNT" /\ ~ Hopeless(view, rr, NumServers) => s.active # Servers
<1> DEFINE view == buildHiderView(s, Accounts, h)
           shown == view.servers
           r == Req(k)
           rr == renderRequirement(r)
           named == ServersNamed(view, 0)
<1>1. /\ shown = renderServers(s)
      /\ DOMAIN shown = 1 .. Cardinality(s.active) /\ Len(shown) = Cardinality(s.active)
      /\ Cardinality(s.active) \in Nat
      /\ \A i \in DOMAIN shown :
           shown[i].server_id \in s.active
           /\ shown[i].metrics = renderMetricFrame(s.metrics[shown[i].server_id])
      /\ \A v \in s.active : \E i \in DOMAIN shown : shown[i].server_id = v
  BY ViewFacts, ShownServers
<1>2. /\ r.type \in {"ACTIVE_SERVER_COUNT", "SERVER_METRIC_THRESHOLD"}
      /\ r.metric \in {"CPU", "NETWORK"} /\ r.subject_id = 0 /\ r.threshold \in Nat
      /\ rr.type = r.type /\ rr.threshold = r.threshold
      /\ r.type = "SERVER_METRIC_THRESHOLD" => rr.server_id = 0 /\ rr.metric = r.metric
  BY ShownRequirement
<1>3. Unmet(view, Shown(s, k)) = {1}
  BY GoalReadings
<1>4. named = {x \in {shown[i] : i \in DOMAIN shown} : x.server_id = 0}
  BY DEF ServersNamed, Range
<1>5. Hopeless(view, rr, NumServers) <=>
        \/ rr.type = "ACTIVE_SERVER_COUNT"
           /\ (rr.threshold - Len(shown) > view.self.loa \/ rr.threshold > NumServers)
        \/ rr.type = "SERVER_METRIC_THRESHOLD" /\ ServersNamed(view, rr.server_id) = {}
  BY DEF Hopeless
<1> DEFINE server == CHOOSE x \in named : TRUE
           def == HiderActionDefs[Raises[r.metric]]
           gain == def.effects[r.metric]
<1>6. RequirementCost(view, rr) =
        IF r.type = "ACTIVE_SERVER_COUNT" THEN 0
        ELSE ((r.threshold - server.metrics[r.metric] + gain - 1) \div gain) * def.ap_cost
  <2>1. RequirementCost(view, rr) =
          IF rr.type = "ACTIVE_SERVER_COUNT" THEN 0
          ELSE LET d == HiderActionDefs[Raises[rr.metric]]
                   x == CHOOSE y \in ServersNamed(view, rr.server_id) : TRUE
               IN ((rr.threshold - x.metrics[rr.metric] + d.effects[rr.metric] - 1)
                     \div d.effects[rr.metric]) * d.ap_cost
    BY DEF RequirementCost
  <2> HIDE DEF rr, r, view
  <2>2. CASE r.type = "ACTIVE_SERVER_COUNT"
    BY <1>2, <2>1, <2>2
  <2>3. CASE r.type = "SERVER_METRIC_THRESHOLD"
    BY <1>2, <2>1, <2>3
  <2> QED BY <1>2, <2>2, <2>3
<1> HIDE DEF rr, r, shown, view
<1>7. CASE r.type = "ACTIVE_SERVER_COUNT"
  <2>1. ~ Hopeless(view, rr, NumServers) => r.threshold <= NumServers
    BY <1>2, <1>5, <1>7, Constants
  <2>2. Cardinality(s.active) < r.threshold
    BY <1>1, <1>2, <1>7 DEF StateMeets, r
  <2>3. ~ Hopeless(view, rr, NumServers) => s.active # Servers
    BY <1>1, <1>2, <2>1, <2>2, Constants
  <2>4. RequirementCost(view, rr) = 0
    BY <1>6, <1>7
  <2> QED BY <1>2, <1>3, <1>7, <2>3, <2>4 DEF rr, r, view
<1>8. CASE r.type = "SERVER_METRIC_THRESHOLD"
  <2> SUFFICES ASSUME ~ Hopeless(view, rr, NumServers)
               PROVE  0 \in s.active /\ RequirementCost(view, rr) \in Nat
    BY <1>2, <1>3, <1>8 DEF rr, r, view
  <2>1. named # {}
    BY <1>2, <1>5, <1>8
  <2>2. server \in named
    BY <2>1
  <2>3. 0 \in s.active /\ server.metrics = renderMetricFrame(s.metrics[0])
    <3> HIDE DEF server, named
    <3> QED BY <1>1, <1>4, <2>2
  <2>4. server.metrics[r.metric] = s.metrics[0][r.metric]
    <3> HIDE DEF server, named
    <3> QED BY <1>2, <2>3 DEF renderMetricFrame, VisibleMetrics
  <2>5. s.metrics[0][r.metric] \in 0 .. 100
    <3>1. s.metrics[0] \in Gauges
      BY <2>3 DEF IsState
    <3>2. r.metric \in DOMAIN Drift
      BY <1>2 DEF Drift
    <3> QED BY <3>1, <3>2 DEF Gauges, MetricMax
  <2>6. s.metrics[0][r.metric] < r.threshold
    BY <1>2, <1>8, <2>3, <2>5 DEF StateMeets, r
  <2> DEFINE short == r.threshold - server.metrics[r.metric]
  <2>7. short \in Nat /\ short > 0
    <3> DEFINE level == s.metrics[0][r.metric]
    <3>1. short = r.threshold - level /\ level \in 0 .. 100 /\ level < r.threshold
      BY <2>4, <2>5, <2>6
    <3> HIDE DEF short, level
    <3> QED BY <1>2, <3>1
  <2>8. RequirementCost(view, rr) = ((short + gain - 1) \div gain) * def.ap_cost
    <3> HIDE DEF server, gain, def
    <3> QED BY <1>6, <1>8
  <2>9. (gain = 15 /\ def.ap_cost = 2) \/ (gain = 5 /\ def.ap_cost = 4)
    <3>1. HiderActionDefs["BOOST_CPU"].effects = [CPU |-> 15, TRACE |-> 5]
          /\ HiderActionDefs["BOOST_CPU"].ap_cost = 2
      BY DEF HiderActionDefs
    <3>2. HiderActionDefs["ROTATE_ROUTE"].effects = [NETWORK |-> 5, TRACE |-> 10]
          /\ HiderActionDefs["ROTATE_ROUTE"].ap_cost = 4
      BY DEF HiderActionDefs
    <3>3. Raises["CPU"] = "BOOST_CPU" /\ Raises["NETWORK"] = "ROTATE_ROUTE"
      BY DEF Raises
    <3> QED BY <1>2, <3>1, <3>2, <3>3
  <2> HIDE DEF short, gain, def, server
  <2>10. RequirementCost(view, rr) \in Nat
    <3>1. CASE gain = 15 /\ def.ap_cost = 2
      BY <2>7, <2>8, <3>1
    <3>2. CASE gain = 5 /\ def.ap_cost = 4
      BY <2>7, <2>8, <3>2
    <3> QED BY <2>9, <3>1, <3>2
  <2> QED BY <2>3, <2>10
<1> QED BY <1>2, <1>7, <1>8

\* A set of goals with costs has a cheapest one, of the lowest goal_id.
LEMMA CheapestExists ==
  ASSUME NEW F, F # {}, NEW c, \A g \in F : c[g] \in Nat /\ g.goal_id \in Nat
  PROVE  \E g \in F : \A o \in F : c[g] < c[o] \/ (c[g] = c[o] /\ g.goal_id <= o.goal_id)
<1>1. {c[g] : g \in F} \in SUBSET Nat /\ {c[g] : g \in F} # {}
  OBVIOUS
<1>2. PICK n \in {c[g] : g \in F} : \A m \in {c[g] : g \in F} : n <= m
  BY <1>1, LeastOfNaturals
<1> DEFINE Near == {g \in F : c[g] = n}
<1>3. {g.goal_id : g \in Near} \in SUBSET Nat /\ {g.goal_id : g \in Near} # {}
  BY <1>2
<1>4. PICK id \in {g.goal_id : g \in Near} : \A other \in {g.goal_id : g \in Near} : id <= other
  BY <1>3, LeastOfNaturals
<1>5. PICK g \in Near : g.goal_id = id
  BY <1>4
<1>6. ASSUME NEW o \in F PROVE c[g] < c[o] \/ (c[g] = c[o] /\ g.goal_id <= o.goal_id)
  <2>1. c[g] = n /\ n <= c[o] /\ n \in Nat /\ c[o] \in Nat
    BY <1>2, <1>5
  <2>2. c[o] = n => id <= o.goal_id
    BY <1>4
  <2> QED BY <1>5, <2>1, <2>2
<1> QED BY <1>5, <1>6

-----------------------------------------------------------------------------
LegalOutcomes == {"ACCEPTED", "INSUFFICIENT_RESOURCE"}

\* A choice that is a move the rules do not refuse.
IsLegal(s, h, choice) ==
  choice.has_move =>
    /\ choice.kind \in Kinds /\ choice.server_id \in 0 .. NO_SERVER_ID
    /\ Outcome(s, Submitted(h, choice)) \in LegalOutcomes

LEMMA LegalMoves ==
  ASSUME NEW s, IsState(s), NEW h \in Slots, NEW goal
  PROVE  /\ IsLegal(s, h, NoMove)
         /\ \A kind \in DOMAIN HiderActionDefs \cup {"DISCONNECT"} :
              s.conn[h] # NO_SERVER_ID => IsLegal(s, h, Move(kind, NO_SERVER_ID, goal))
         /\ \A server \in s.active :
              s.conn[h] = NO_SERVER_ID /\ s.pool > 0 => IsLegal(s, h, Move("CONNECT", server, goal))
         /\ s.active # Servers => IsLegal(s, h, Move("ADD_SERVER", NO_SERVER_ID, goal))
<1>1. \A kind, server : LET c == Move(kind, server, goal)
                            m == Submitted(h, c)
                        IN c.kind = kind /\ c.server_id = server /\ m.kind = kind /\ m.hider = h /\ m.server = server
  BY DEF Move, Submitted, MoveOf
<1>2. IsLegal(s, h, NoMove)
  BY DEF IsLegal, NoMove
<1>3. ASSUME NEW kind \in DOMAIN HiderActionDefs \cup {"DISCONNECT"}, s.conn[h] # NO_SERVER_ID
      PROVE  IsLegal(s, h, Move(kind, NO_SERVER_ID, goal))
  <2>1. kind \notin {"ADD_SERVER", "REMOVE_SERVER", "CONNECT"}
    BY ActionDefs
  <2>2. NO_SERVER_ID \in 0 .. NO_SERVER_ID /\ kind \in Kinds
    BY DEF NO_SERVER_ID, Kinds
  <2> DEFINE m == Submitted(h, Move(kind, NO_SERVER_ID, goal))
  <2>3. m.kind = kind /\ m.hider = h
    BY <1>1
  <2> HIDE DEF m
  <2>4. Outcome(s, m) \in LegalOutcomes
    BY <1>3, <2>1, <2>3 DEF Outcome, LegalOutcomes
  <2> QED BY <1>1, <2>2, <2>4 DEF IsLegal, m
<1>4. ASSUME NEW server \in s.active, s.conn[h] = NO_SERVER_ID, s.pool > 0
      PROVE  IsLegal(s, h, Move("CONNECT", server, goal))
  <2>1. server \in 0 .. NO_SERVER_ID /\ s.pool # 0
    BY <1>4, Constants DEF IsState
  <2>2. "CONNECT" \in Kinds /\ "CONNECT" \notin DOMAIN HiderActionDefs \cup {"DISCONNECT"}
    BY ActionDefs DEF Kinds
  <2> DEFINE m == Submitted(h, Move("CONNECT", server, goal))
  <2>3. m.kind = "CONNECT" /\ m.hider = h /\ m.server = server
    BY <1>1
  <2> HIDE DEF m
  <2>4. Outcome(s, m) \in LegalOutcomes
    BY <1>4, <2>1, <2>2, <2>3 DEF Outcome, LegalOutcomes
  <2> QED BY <1>1, <2>1, <2>2, <2>4 DEF IsLegal, m
<1>5. ASSUME s.active # Servers PROVE IsLegal(s, h, Move("ADD_SERVER", NO_SERVER_ID, goal))
  <2>1. NO_SERVER_ID \in 0 .. NO_SERVER_ID
    BY DEF NO_SERVER_ID
  <2>2. "ADD_SERVER" \in Kinds /\ "ADD_SERVER" \notin DOMAIN HiderActionDefs \cup {"DISCONNECT"}
    BY ActionDefs DEF Kinds
  <2> DEFINE m == Submitted(h, Move("ADD_SERVER", NO_SERVER_ID, goal))
  <2>3. m.kind = "ADD_SERVER" /\ m.hider = h
    BY <1>1
  <2> HIDE DEF m
  <2>4. Outcome(s, m) \in LegalOutcomes
    BY <1>5, <2>2, <2>3 DEF Outcome, LegalOutcomes
  <2> QED BY <1>1, <2>1, <2>2, <2>4 DEF IsLegal, m
<1> QED BY <1>2, <1>3, <1>4, <1>5

LEMMA GoalCostFacts ==
  ASSUME NEW s, IsState(s), NEW h \in Slots, NEW k \in 1 .. 4, ~ StateMeets(s, Req(k))
  PROVE  LET view == buildHiderView(s, Accounts, h)
             rr == renderRequirement(Req(k))
         IN goalCost(view, Shown(s, k), NumServers)
              = IF Hopeless(view, rr, NumServers) THEN GOAL_INFEASIBLE ELSE 10 + RequirementCost(view, rr)
<1> DEFINE view == buildHiderView(s, Accounts, h)
           rr == renderRequirement(Req(k))
           g == Shown(s, k)
<1>1. g.requirements = <<rr>>
  BY ShownGoal
<1>2. Unmet(view, g) = {1} /\ (~ Hopeless(view, rr, NumServers) => RequirementCost(view, rr) \in Nat)
  BY CostFacts
<1> HIDE DEF view, rr, g
<1>3. Len(g.requirements) = 1 /\ g.requirements[1] = rr
  BY <1>1
<1>4. goalCost(view, g, NumServers)
        = IF Hopeless(view, rr, NumServers) THEN GOAL_INFEASIBLE ELSE CostUpTo(view, g)[1]
  BY <1>2, <1>3 DEF goalCost
<1>5. CASE Hopeless(view, rr, NumServers)
  BY <1>4, <1>5 DEF view, rr, g
<1>6. CASE ~ Hopeless(view, rr, NumServers)
  <2>1. RequirementCost(view, rr) \in Int
    BY <1>2, <1>6
  <2>2. CostUpTo(view, g)[1] = 10 + RequirementCost(view, rr)
    BY <1>1, <1>2, <2>1, CostExists
  <2> QED BY <1>4, <1>6, <2>2 DEF view, rr, g
<1> QED BY <1>5, <1>6

\* A met goal is paid from the hider's server, or after it connects to one.
LEMMA PaymentIsLegal ==
  ASSUME NEW s, IsState(s), NEW h \in Slots, NEW goal
  PROVE  IsLegal(s, h, payGoal(buildHiderView(s, Accounts, h), goal))
<1> DEFINE view == buildHiderView(s, Accounts, h)
<1>1. /\ view.servers = renderServers(s) /\ view.self = renderSelf(s, Accounts, h)
      /\ view.team_connections = s.pool
  BY ViewFacts
<1>2. view.self.server_id = s.conn[h]
  BY <1>1 DEF renderSelf
<1> HIDE DEF view
<1>3. CASE s.conn[h] # NO_SERVER_ID
  <2>1. payGoal(view, goal) = Move("PAY_GOAL", NO_SERVER_ID, goal)
    BY <1>2, <1>3 DEF payGoal, IsConnected
  <2>2. "PAY_GOAL" \in DOMAIN HiderActionDefs
    BY DEF HiderActionDefs
  <2> QED BY <1>3, <2>1, <2>2, LegalMoves DEF view
<1>4. CASE s.conn[h] = NO_SERVER_ID /\ ~ (s.pool > 0 /\ view.servers # <<>>)
  <2>1. payGoal(view, goal) = NoMove
    BY <1>1, <1>2, <1>4 DEF payGoal, IsConnected
  <2> QED BY <2>1, LegalMoves DEF view
<1>5. CASE s.conn[h] = NO_SERVER_ID /\ s.pool > 0 /\ view.servers # <<>>
  <2>1. payGoal(view, goal) = Move("CONNECT", view.servers[1].server_id, goal)
    BY <1>1, <1>2, <1>5 DEF payGoal, IsConnected
  <2>2. view.servers[1].server_id \in s.active
    <3> DEFINE shown == renderServers(s)
    <3>1. /\ DOMAIN shown = 1 .. Cardinality(s.active) /\ Cardinality(s.active) \in Nat
          /\ \A i \in DOMAIN shown : shown[i].server_id \in s.active
      BY ShownServers
    <3>2. shown = [i \in DOMAIN shown |-> shown[i]]
      BY DEF renderServers
    <3>3. shown # <<>>
      BY <1>1, <1>5
    <3> HIDE DEF shown
    <3>4. Cardinality(s.active) # 0
      <4> SUFFICES ASSUME Cardinality(s.active) = 0 PROVE FALSE
        OBVIOUS
      <4>1. DOMAIN shown = {}
        BY <3>1
      <4>2. shown = <<>>
        BY <3>2, <4>1
      <4> QED BY <3>3, <4>2
    <3>5. 1 \in DOMAIN shown
      BY <3>1, <3>4
    <3> QED BY <1>1, <3>1, <3>5 DEF shown
  <2> QED BY <1>5, <2>1, <2>2, LegalMoves DEF view
<1> QED BY <1>3, <1>4, <1>5

\* The step towards a goal that is open, unmet and within reach.
LEMMA StepIsLegal ==
  ASSUME NEW s, IsState(s), NEW h \in Slots, NEW k \in 1 .. 4, ~ StateMeets(s, Req(k)),
         ~ Hopeless(buildHiderView(s, Accounts, h), renderRequirement(Req(k)), NumServers)
  PROVE  IsLegal(s, h, nextMove(buildHiderView(s, Accounts, h), Shown(s, k)))
<1> DEFINE view == buildHiderView(s, Accounts, h)
           r == Req(k)
           rr == renderRequirement(r)
           g == Shown(s, k)
           move == nextMove(view, g)
<1>1. view.self.server_id = s.conn[h] /\ view.team_connections = s.pool
  <2>1. view.self = renderSelf(s, Accounts, h) /\ view.team_connections = s.pool
    BY ViewFacts
  <2> HIDE DEF view
  <2> QED BY <2>1 DEF renderSelf
<1>2. Unmet(view, g) = {1} /\ g.requirements = <<rr>>
  BY CostFacts, ShownGoal
<1>3. firstUnmetRequirement(view, g) = rr
  <2>1. Min({1}) = 1
    BY MinIsMember
  <2> HIDE DEF g, rr, view
  <2> QED BY <1>2, <2>1 DEF firstUnmetRequirement
<1>4. /\ rr.type = "ACTIVE_SERVER_COUNT" \/ rr.type = "SERVER_METRIC_THRESHOLD"
      /\ rr.type = "SERVER_METRIC_THRESHOLD" => rr.server_id = 0 /\ rr.metric \in {"CPU", "NETWORK"}
  BY ShownRequirement
<1>5. /\ rr.type = "SERVER_METRIC_THRESHOLD" => 0 \in s.active
      /\ rr.type = "ACTIVE_SERVER_COUNT" => s.active # Servers
  BY CostFacts
<1>6. move = IF rr.type = "ACTIVE_SERVER_COUNT" THEN Move("ADD_SERVER", NO_SERVER_ID, g)
             ELSE IF view.self.server_id = rr.server_id THEN Move(Raises[rr.metric], NO_SERVER_ID, g)
             ELSE IF IsConnected(view) THEN Move("DISCONNECT", NO_SERVER_ID, g)
             ELSE IF view.team_connections > 0 THEN Move("CONNECT", rr.server_id, g)
             ELSE NoMove
  BY <1>3 DEF nextMove
<1>7. IsConnected(view) <=> s.conn[h] # NO_SERVER_ID
  BY <1>1 DEF IsConnected
<1>8. Raises["CPU"] \in DOMAIN HiderActionDefs /\ Raises["NETWORK"] \in DOMAIN HiderActionDefs
  BY DEF Raises, HiderActionDefs
<1>9. NO_SERVER_ID # 0
  BY DEF NO_SERVER_ID
<1> HIDE DEF move, g, rr, r, view
<1>10. CASE rr.type = "ACTIVE_SERVER_COUNT"
  <2>1. move = Move("ADD_SERVER", NO_SERVER_ID, g)
    BY <1>6, <1>10
  <2>2. IsLegal(s, h, move)
    BY <1>5, <1>10, <2>1, LegalMoves
  <2> QED BY <2>2 DEF move, g, view
<1>11. CASE rr.type = "SERVER_METRIC_THRESHOLD" /\ s.conn[h] = 0
  <2>1. move = Move(Raises[rr.metric], NO_SERVER_ID, g)
    BY <1>1, <1>4, <1>6, <1>11
  <2>2. Raises[rr.metric] \in DOMAIN HiderActionDefs
    BY <1>4, <1>8, <1>11
  <2>3. IsLegal(s, h, move)
    BY <1>9, <1>11, <2>1, <2>2, LegalMoves
  <2> QED BY <2>3 DEF move, g, view
<1>12. CASE rr.type = "SERVER_METRIC_THRESHOLD" /\ s.conn[h] # 0 /\ s.conn[h] # NO_SERVER_ID
  <2>1. move = Move("DISCONNECT", NO_SERVER_ID, g)
    BY <1>1, <1>4, <1>6, <1>7, <1>12
  <2>2. IsLegal(s, h, move)
    BY <1>12, <2>1, LegalMoves
  <2> QED BY <2>2 DEF move, g, view
<1>13. CASE rr.type = "SERVER_METRIC_THRESHOLD" /\ s.conn[h] = NO_SERVER_ID
  <2>1. (move = Move("CONNECT", 0, g) /\ s.pool > 0) \/ move = NoMove
    BY <1>1, <1>4, <1>6, <1>7, <1>9, <1>13
  <2>2. IsLegal(s, h, move)
    BY <1>5, <1>13, <2>1, LegalMoves
  <2> QED BY <2>2 DEF move, g, view
<1> QED BY <1>4, <1>10, <1>11, <1>12, <1>13

\* The goal an NPC sets out for is one of the match's, unmet and within reach.
LEMMA CheapestIsWithinReach ==
  ASSUME NEW s, IsState(s), NEW h \in Slots,
         Payable(buildHiderView(s, Accounts, h)) = {},
         Feasible(buildHiderView(s, Accounts, h), NumServers) # {}
  PROVE  LET view == buildHiderView(s, Accounts, h) IN
         \E k \in 1 .. 4 :
           /\ cheapestGoal(view, NumServers) = Shown(s, k)
           /\ ~ StateMeets(s, Req(k))
           /\ ~ Hopeless(view, renderRequirement(Req(k)), NumServers)
<1> DEFINE view == buildHiderView(s, Accounts, h)
           goals == view.goals
           F == Feasible(view, NumServers)
           Reach(g, k) == /\ g = Shown(s, k) /\ ~ StateMeets(s, Req(k))
                          /\ ~ Hopeless(view, renderRequirement(Req(k)), NumServers)
           c == [g \in F |-> goalCost(view, g, NumServers)]
<1>1. \A i \in DOMAIN goals : \E k \in 1 .. 4 : goals[i] = Shown(s, k)
  BY ViewFacts, ShownGoals
<1>2. ASSUME NEW g \in F
      PROVE  \E k \in 1 .. 4 : Reach(g, k) /\ c[g] \in Nat /\ g.goal_id \in Nat
  <2>1. g \in Range(goals) /\ goalSupported(g) /\ goalCost(view, g, NumServers) # GOAL_INFEASIBLE
    BY DEF Feasible
  <2>2. PICK i \in DOMAIN goals : g = goals[i]
    BY <2>1 DEF Range
  <2>3. PICK k \in 1 .. 4 : g = Shown(s, k)
    BY <1>1, <2>2
  <2>4. Unmet(view, g) # {}
    BY <2>1, <2>2 DEF Payable, allRequirementsMet
  <2>5. ~ StateMeets(s, Req(k))
    BY <2>3, <2>4, GoalReadings
  <2> DEFINE rr == renderRequirement(Req(k))
  <2>6. goalCost(view, g, NumServers)
          = IF Hopeless(view, rr, NumServers) THEN GOAL_INFEASIBLE ELSE 10 + RequirementCost(view, rr)
    BY <2>3, <2>5, GoalCostFacts
  <2>7. ~ Hopeless(view, rr, NumServers) => RequirementCost(view, rr) \in Nat
    BY <2>5, CostFacts
  <2>8. g.goal_id \in Nat
    <3>1. Shown(s, k).goal_id = k - 1
      BY ShownGoal
    <3>2. k - 1 \in Nat
      OBVIOUS
    <3> QED BY <2>3, <3>1, <3>2
  <2>9. c[g] = goalCost(view, g, NumServers)
    OBVIOUS
  <2> HIDE DEF view, rr, c
  <2>10. ~ Hopeless(view, rr, NumServers) /\ c[g] \in Nat
    BY <2>1, <2>6, <2>7, <2>9
  <2> QED BY <2>3, <2>5, <2>8, <2>10 DEF rr, view
<1>3. \E g \in F : \A o \in F : c[g] < c[o] \/ (c[g] = c[o] /\ g.goal_id <= o.goal_id)
  <2>1. \A g \in F : c[g] \in Nat /\ g.goal_id \in Nat
    <3> HIDE DEF Reach, c, F
    <3> QED BY <1>2
  <2> HIDE DEF c
  <2> QED BY <2>1, CheapestExists
<1>4. \A g \in F : c[g] = goalCost(view, g, NumServers)
  OBVIOUS
<1>5. \E g \in F : \A o \in F :
        \/ goalCost(view, g, NumServers) < goalCost(view, o, NumServers)
        \/ goalCost(view, g, NumServers) = goalCost(view, o, NumServers) /\ g.goal_id <= o.goal_id
  <2> HIDE DEF c, F, view
  <2> QED BY <1>3, <1>4
<1>6. cheapestGoal(view, NumServers) \in F
  <2> HIDE DEF c, view
  <2> QED BY <1>5 DEF cheapestGoal
<1> DEFINE best == cheapestGoal(view, NumServers)
<1> HIDE DEF c, F, best
<1>7. PICK k \in 1 .. 4 : Reach(best, k)
  <2> HIDE DEF Reach
  <2> QED BY <1>2, <1>6 DEF best
<1> QED BY <1>7 DEF best

LEMMA ChoiceIsLegal ==
  ASSUME NEW s, IsState(s), NEW h \in Slots
  PROVE  IsLegal(s, h, chooseHiderMove(buildHiderView(s, Accounts, h), NumServers))
<1> DEFINE view == buildHiderView(s, Accounts, h)
           choice == chooseHiderMove(view, NumServers)
<1>1. \/ choice = NoMove
      \/ \E goal : choice = payGoal(view, goal)
      \/ /\ Payable(view) = {} /\ Feasible(view, NumServers) # {}
         /\ choice = nextMove(view, cheapestGoal(view, NumServers))
  <2> HIDE DEF view
  <2> QED BY DEF chooseHiderMove
<1>2. CASE choice = NoMove
  BY <1>2, LegalMoves
<1>3. CASE \E goal : choice = payGoal(view, goal)
  BY <1>3, PaymentIsLegal
<1>4. CASE /\ Payable(view) = {} /\ Feasible(view, NumServers) # {}
           /\ choice = nextMove(view, cheapestGoal(view, NumServers))
  <2>1. PICK k \in 1 .. 4 :
          /\ cheapestGoal(view, NumServers) = Shown(s, k) /\ ~ StateMeets(s, Req(k))
          /\ ~ Hopeless(view, renderRequirement(Req(k)), NumServers)
    BY <1>4, CheapestIsWithinReach
  <2>2. IsLegal(s, h, nextMove(view, Shown(s, k)))
    BY <2>1, StepIsLegal
  <2> HIDE DEF view, choice
  <2>3. IsLegal(s, h, choice)
    BY <1>4, <2>1, <2>2
  <2> QED BY <2>3 DEF choice, view
<1> QED BY <1>1, <1>2, <1>3, <1>4

-----------------------------------------------------------------------------
(* The inductive invariant: a state, a round of NPCs, and a report whose   *)
(* lists, with what is pending, make up what was pending before the call.  *)

Steps == {"idle", "tick", "answer", "round"}
Reports == [before : SUBSET (1 .. RingCap + 1), applied : SUBSET (1 .. RingCap + 1),
            cancelled : SUBSET (1 .. RingCap + 1)]

\* What was pending is still pending, applied or cancelled, and only one of the three.
Sums(ids, r) ==
  /\ r.before \subseteq ids \cup r.applied \cup r.cancelled
  /\ r.cancelled \subseteq r.before
  /\ r.applied \cap r.cancelled = {}
  /\ ids \cap (r.applied \cup r.cancelled) = {}

Inv ==
  /\ IsState(st)
  /\ step \in Steps /\ report \in Reports /\ round \subseteq Npcs
  /\ step \in {"tick", "answer"} => Sums(Ids(st.pending), report)
  /\ step = "tick" => Ids(st.pending) \subseteq report.before

LEMMA IdsOfRing == \A q : IsRing(q) => Ids(q) \subseteq 1 .. RingCap + 1
<1> SUFFICES ASSUME NEW q, IsRing(q) PROVE Ids(q) \subseteq 1 .. RingCap + 1
  OBVIOUS
<1>1. \A i \in DOMAIN q : q[i].id \in 1 .. RingCap + 1
  <2>1. \A i \in DOMAIN q : q[i] \in Moves
    BY DEF IsRing
  <2> QED BY <2>1 DEF Moves
<1> QED BY <1>1 DEF Ids, Range

LEMMA NewReports ==
  \A ids, gone : ids \subseteq 1 .. RingCap + 1 /\ gone \subseteq 1 .. RingCap + 1 =>
    LET r == [NoReport EXCEPT !.before = ids]
        t == [NoReport EXCEPT !.before = ids, !.cancelled = gone]
    IN /\ NoReport \in Reports /\ r \in Reports /\ t \in Reports
       /\ r.before = ids /\ r.applied = {} /\ r.cancelled = {}
       /\ t.before = ids /\ t.applied = {} /\ t.cancelled = gone
       /\ NoReport.before = {} /\ NoReport.applied = {} /\ NoReport.cancelled = {}
BY DEF NoReport, Reports

LEMMA InvHoldsInitially == Init => Inv
<1> SUFFICES ASSUME Init PROVE Inv
  OBVIOUS
<1>1. DOMAIN st = Fields /\ st.pending = <<>>
  BY DEF Init, Fields
<1>2. st.ap \in [Slots -> 0 .. ApCap] /\ st.loa \in [Slots -> Nat]
  BY DEF Init, ApCap, StartLoa
<1>3. st.pool \in Nat
  BY Constants DEF Init, PoolPerHider
<1>4. st.active \in SUBSET Servers
  BY Constants DEF Init, Servers
<1>5. st.conn \in [Slots -> st.active \cup {NO_SERVER_ID}]
  BY DEF Init
<1>6. st.metrics \in [Servers -> Gauges]
  BY DEF Init, Gauges, Zeroed, MetricMax
<1>7. st.goals \in [0 .. 3 -> Statuses]
  <2>1. {SeededGoals[i].goal_id : i \in DOMAIN SeededGoals} = 0 .. 3
    <3>1. DOMAIN SeededGoals = 1 .. 4 /\ \A k \in 1 .. 4 : SeededGoals[k].goal_id = k - 1
      BY SeededFacts
    <3>2. \A j \in 0 .. 3 : j + 1 \in 1 .. 4 /\ j = (j + 1) - 1
      OBVIOUS
    <3> QED BY <3>1, <3>2
  <2> QED BY <2>1 DEF Init, Statuses
<1>8. IsRing(<<>>) /\ Ids(<<>>) = {}
  BY Constants DEF IsRing, Ids, Range
<1>9. report = NoReport /\ step = "answer" /\ round = {}
  BY DEF Init
<1>10. NoReport \in Reports /\ Sums({}, NoReport)
  BY NewReports DEF Sums
<1> QED BY <1>1, <1>2, <1>3, <1>4, <1>5, <1>6, <1>7, <1>8, <1>9, <1>10 DEF Inv, IsState, Steps

\* A tick takes off the ring what it applied and what it refused.
LEMMA TickKeepsInv == Inv /\ Tick => Inv'
<1> SUFFICES ASSUME Inv, Tick PROVE Inv'
  OBVIOUS
<1> DEFINE rested == regenerateForTick(st)
           acc == DispatchAll(rested)
           drifted == driftMetrics(acc.s)
           old == Ids(st.pending)
<1>1. IsState(st) /\ step = "tick" /\ report \in Reports /\ round \subseteq Npcs
      /\ Sums(old, report) /\ old \subseteq report.before
  BY DEF Inv, Tick
<1>2. IsState(rested) /\ rested.pending = st.pending
  BY <1>1, RestedFacts
<1>3. Dispatched(rested, acc, Len(st.pending))
  <2> HIDE DEF rested
  <2> QED BY <1>2, DispatchAllFacts
<1>4. /\ IsState(acc.s) /\ acc.s.pending = st.pending
      /\ acc.done \cup acc.refused \subseteq old /\ acc.done \cap acc.refused = {}
  <2> HIDE DEF rested, acc
  <2>1. acc.done \cup acc.refused \subseteq {st.pending[i].id : i \in 1 .. Len(st.pending)}
    BY <1>2, <1>3 DEF Dispatched
  <2>2. DOMAIN st.pending = 1 .. Len(st.pending)
    BY <1>1 DEF IsState, IsRing
  <2>3. {st.pending[i].id : i \in 1 .. Len(st.pending)} \subseteq old
    BY <2>2 DEF Ids, Range
  <2> QED BY <1>2, <1>3, <2>1, <2>3 DEF Dispatched
<1>5. IsState(drifted) /\ drifted.pending = st.pending
  <2> HIDE DEF rested, acc
  <2> QED BY <1>4, DriftedFacts
<1>6. /\ \E s : (s = drifted \/ \E server : s = Wagered(drifted, server))
                /\ st' = compactPending(Ended(s), acc.done, acc.refused)
      /\ report' = Reported(acc.done, acc.refused)
      /\ step' \in {"answer", "tick"} /\ round' = round
  BY DEF Tick
<1> HIDE DEF rested, acc, drifted
<1>7. PICK s : /\ s = drifted \/ \E server : s = Wagered(drifted, server)
               /\ st' = compactPending(Ended(s), acc.done, acc.refused)
  BY <1>6
<1>8. IsState(s) /\ s.pending = st.pending
  BY <1>5, <1>7, WagerFacts
<1>9. IsState(Ended(s)) /\ Ended(s).pending = st.pending
  BY <1>8, EndedFacts
<1>10. IsState(st') /\ Ids(st'.pending) = old \ (acc.done \cup acc.refused)
  <2> DEFINE e == Ended(s)
             gone == acc.done \cup acc.refused
             t == [e EXCEPT !.pending = Without(@, gone)]
  <2>1. IsState(e) /\ e.pending = st.pending
    BY <1>9
  <2>2. st' = t
    BY <1>7 DEF compactPending
  <2> HIDE DEF e, gone
  <2>3. IsState(t) /\ Ids(t.pending) = Ids(e.pending) \ gone
    BY <2>1, CompactedFacts
  <2> HIDE DEF t
  <2> QED BY <2>1, <2>2, <2>3 DEF gone
<1>11. /\ report'.before = report.before
       /\ report'.applied = report.applied \cup acc.done
       /\ report'.cancelled = report.cancelled \cup acc.refused
       /\ report' \in Reports
  <2>1. acc.done \subseteq 1 .. RingCap + 1 /\ acc.refused \subseteq 1 .. RingCap + 1
    <3>1. old \subseteq 1 .. RingCap + 1
      BY <1>1, IdsOfRing DEF IsState
    <3> HIDE DEF old
    <3> QED BY <1>4, <3>1
  <2> QED BY <1>1, <1>6, <2>1 DEF Reported, Reports
<1> HIDE DEF old
<1>12. Sums(Ids(st'.pending), report') /\ Ids(st'.pending) \subseteq report'.before
  BY <1>1, <1>4, <1>10, <1>11 DEF Sums
<1> QED BY <1>1, <1>6, <1>10, <1>11, <1>12 DEF Inv, Steps

\* A queued move takes none of the others away.
LEMMA QueueKeepsInv ==
  ASSUME NEW h \in Slots, NEW kind \in Kinds, NEW server \in 0 .. NO_SERVER_ID,
         Inv, Queue(MoveOf(h, kind, server))
  PROVE  Inv'
<1> DEFINE m == MoveOf(h, kind, server)
           old == Ids(st.pending)
<1>1. /\ IsState(st) /\ round \subseteq Npcs /\ st' = queueMove(st, m)
      /\ step' = "answer" /\ report' = [NoReport EXCEPT !.before = old] /\ round' = round
  BY DEF Inv, Queue
<1>2. IsState(st') /\ old \subseteq Ids(st'.pending)
  BY <1>1, QueueFacts
<1>3. old \subseteq 1 .. RingCap + 1
  BY <1>1, IdsOfRing DEF IsState
<1> HIDE DEF m, old
<1>4. report' \in Reports /\ report'.before = old /\ report'.applied = {} /\ report'.cancelled = {}
  BY <1>1, <1>3, NewReports
<1>5. Sums(Ids(st'.pending), report')
  BY <1>2, <1>4 DEF Sums
<1> QED BY <1>1, <1>2, <1>4, <1>5 DEF Inv, Steps

LEMMA CancelKeepsInv ==
  ASSUME NEW m \in Range(st.pending), Inv, cancelPendingMove(m)
  PROVE  Inv'
<1> DEFINE old == Ids(st.pending)
<1>1. /\ IsState(st) /\ round \subseteq Npcs /\ st' = [st EXCEPT !.pending = Without(@, {m.id})]
      /\ step' = "answer" /\ report' = [NoReport EXCEPT !.before = old, !.cancelled = {m.id}]
      /\ round' = round
  BY DEF Inv, cancelPendingMove
<1>2. IsState(st') /\ Ids(st'.pending) = old \ {m.id}
  BY <1>1, CompactedFacts
<1>3. old \subseteq 1 .. RingCap + 1 /\ m.id \in old
  BY <1>1, IdsOfRing DEF IsState, Ids
<1> HIDE DEF old
<1>4. report' \in Reports /\ report'.before = old /\ report'.applied = {} /\ report'.cancelled = {m.id}
  <2>1. {m.id} \subseteq 1 .. RingCap + 1
    BY <1>3
  <2> QED BY <1>1, <1>3, <2>1, NewReports
<1>5. Sums(Ids(st'.pending), report')
  BY <1>2, <1>3, <1>4 DEF Sums
<1> QED BY <1>1, <1>2, <1>4, <1>5 DEF Inv, Steps

LEMMA NpcTurnKeepsInv == Inv /\ NpcTurn => Inv'
<1> SUFFICES ASSUME Inv, NpcTurn PROVE Inv'
  OBVIOUS
<1> DEFINE h == Min(round)
           choice == chooseHiderMove(buildHiderView(st, Accounts, h), NumServers)
<1>1. /\ IsState(st) /\ report \in Reports /\ round \subseteq Npcs /\ round # {} /\ step = "round"
      /\ round' = round \ {h} /\ step' = step /\ report' = report
      /\ \/ st' = st
         \/ choice.has_move /\ st' = queueMove(st, Submitted(h, choice))
  BY DEF Inv, NpcTurn
<1>2. h \in Slots
  <2>1. round \in SUBSET Nat
    BY <1>1, Constants
  <2> QED BY <1>1, <2>1, MinIsMember, Constants
<1>3. IsLegal(st, h, choice)
  <2> HIDE DEF h
  <2> QED BY <1>1, <1>2, ChoiceIsLegal
<1> HIDE DEF choice, h
<1>4. IsState(st')
  <2>1. CASE st' = st
    BY <1>1, <2>1
  <2>2. CASE choice.has_move /\ st' = queueMove(st, Submitted(h, choice))
    <3>1. choice.kind \in Kinds /\ choice.server_id \in 0 .. NO_SERVER_ID
      BY <1>3, <2>2 DEF IsLegal
    <3>2. st' = queueMove(st, MoveOf(h, choice.kind, choice.server_id))
      BY <2>2 DEF Submitted
    <3> QED BY <1>1, <1>2, <3>1, <3>2, QueueFacts
  <2> QED BY <1>1, <2>1, <2>2
<1> QED BY <1>1, <1>4 DEF Inv, Steps

LEMMA InvIsInductive == Inv /\ [Next]_vars => Inv'
<1> SUFFICES ASSUME Inv, [Next]_vars PROVE Inv'
  OBVIOUS
<1>1. CASE Tick
  BY <1>1, TickKeepsInv
<1>2. CASE runNpcRound
  <2>1. NoReport \in Reports
    BY NewReports
  <2> QED BY <1>2, <2>1 DEF runNpcRound, Inv, Steps
<1>3. CASE NpcTurn
  BY <1>3, NpcTurnKeepsInv
<1>4. CASE RoundOver
  BY <1>4 DEF RoundOver, Inv, Steps
<1>5. ASSUME NEW ticks, Pass(ticks) PROVE Inv'
  <2>1. /\ st' = st /\ step' = "tick" /\ round' = round
        /\ report' = [NoReport EXCEPT !.before = Ids(st.pending)]
    BY <1>5 DEF Pass
  <2>2. Ids(st.pending) \subseteq 1 .. RingCap + 1
    BY IdsOfRing DEF Inv, IsState
  <2>3. /\ report' \in Reports /\ report'.before = Ids(st.pending)
        /\ report'.applied = {} /\ report'.cancelled = {}
    BY <2>1, <2>2, NewReports
  <2>4. Sums(Ids(st'.pending), report') /\ Ids(st'.pending) \subseteq report'.before
    BY <2>1, <2>3 DEF Sums
  <2> QED BY <2>1, <2>3, <2>4 DEF Inv, Steps
<1>6. ASSUME NEW h \in People, NEW kind \in Kinds, NEW server \in Servers,
             Queue(MoveOf(h, kind, IF kind \in {"CONNECT", "REMOVE_SERVER"} THEN server ELSE NO_SERVER_ID))
      PROVE  Inv'
  <2>1. h \in Slots
    BY DEF People
  <2>2. (IF kind \in {"CONNECT", "REMOVE_SERVER"} THEN server ELSE NO_SERVER_ID) \in 0 .. NO_SERVER_ID
    BY Constants
  <2> QED BY <1>6, <2>1, <2>2, QueueKeepsInv
<1>7. ASSUME NEW m \in Range(st.pending), cancelPendingMove(m) PROVE Inv'
  BY <1>7, CancelKeepsInv
<1>8. CASE LeaveAlone
  BY <1>8 DEF LeaveAlone, Inv, Steps
<1>9. CASE UNCHANGED vars
  BY <1>9 DEF vars, Inv
<1> QED BY <1>1, <1>2, <1>3, <1>4, <1>5, <1>6, <1>7, <1>8, <1>9 DEF Next, Advance

\* Through every call, tick and round the match is a state its types allow: no
\* counter leaves its range, connections are to servers that are there, moves in
\* the ring have ids of their own, and a report accounts for each of them.
THEOREM NpcPlayTypes == Spec => []Inv
BY InvHoldsInitially, InvIsInductive, PTL DEF Spec

\* After every call each move that was pending before it is applied, cancelled
\* with a reason or still pending, and one of these only: turnBody may list what
\* is left over as cancelled, and looks its reason up in another array
\* (HiderSeekerService.cpp:267).
THEOREM EveryMoveIsAccountedFor == Spec => []ReportAddsUp
<1>1. Inv => ReportAddsUp
  BY DEF Inv, Sums, ReportAddsUp, pendingCancelled
<1> QED BY <1>1, NpcPlayTypes, PTL

\* Whatever the state, what an NPC chooses from its view is never refused by the
\* rules for what it is (hider_policy.cpp:208-252), and the goals the policy
\* thinks can be paid are those the ruleset would pay (goal_rules.cpp:7).
THEOREM NpcsPlayByTheRules == Spec => []PolicyKnowsTheRules
<1>1. Inv => ChoicesAreLegal
  <2> SUFFICES ASSUME Inv, NEW h \in Npcs
               PROVE  LET choice == chooseHiderMove(buildHiderView(st, Accounts, h), NumServers)
                      IN choice.has_move =>
                           Outcome(st, Submitted(h, choice)) \in {"ACCEPTED", "INSUFFICIENT_RESOURCE"}
    BY DEF ChoicesAreLegal
  <2>1. h \in Slots /\ IsState(st)
    BY Constants DEF Inv
  <2> DEFINE choice == chooseHiderMove(buildHiderView(st, Accounts, h), NumServers)
  <2>2. IsLegal(st, h, choice)
    BY <2>1, ChoiceIsLegal
  <2> HIDE DEF choice
  <2>3. choice.has_move => Outcome(st, Submitted(h, choice)) \in {"ACCEPTED", "INSUFFICIENT_RESOURCE"}
    BY <2>2 DEF IsLegal, LegalOutcomes
  <2> QED BY <2>3 DEF choice
<1>2. Inv => PolicyAgreesWithRules
  BY SamePayable DEF Inv, PolicyAgreesWithRules
<1>3. Inv => PolicyKnowsTheRules
  BY <1>1, <1>2 DEF PolicyKnowsTheRules
<1> QED BY <1>3, NpcPlayTypes, PTL

-----------------------------------------------------------------------------
(* What two states must have in common to be shown alike.                  *)

CommonAlike(s, t) ==
  /\ t.phase = s.phase /\ t.winner = s.winner /\ t.events = s.events /\ t.active = s.active
  /\ \A v \in s.active : renderMetricFrame(t.metrics[v]) = renderMetricFrame(s.metrics[v])

HiderAlike(s, t, h) ==
  /\ CommonAlike(s, t)
  /\ t.ap[h] = s.ap[h] /\ t.loa[h] = s.loa[h] /\ t.conn = s.conn
  /\ t.pool = s.pool /\ t.pending = s.pending /\ t.goals = s.goals

LEMMA ServersShownAlike ==
  ASSUME NEW s, IsState(s), NEW t, CommonAlike(s, t)
  PROVE  renderServers(t) = renderServers(s)
<1> DEFINE ids == InOrder(s.active)
<1>1. s.active \in SUBSET Nat /\ IsFiniteSet(s.active)
  <2>1. s.active \in SUBSET Servers
    BY DEF IsState
  <2> QED BY <2>1, Constants, FS_Subset
<1>2. \A i \in DOMAIN ids : ids[i] \in s.active
  <2>1. ids \in [1 .. Cardinality(s.active) -> s.active]
    BY <1>1, OrderFacts
  <2> HIDE DEF ids
  <2> QED BY <2>1
<1>3. t.active = s.active
  BY DEF CommonAlike
<1> DEFINE Line(u, i) == [server_id |-> ids[i], metrics |-> renderMetricFrame(u.metrics[ids[i]])]
<1>4. renderServers(s) = [i \in DOMAIN ids |-> Line(s, i)] /\ renderServers(t) = [i \in DOMAIN ids |-> Line(t, i)]
  BY <1>3 DEF renderServers
<1>5. \A i \in DOMAIN ids : Line(t, i) = Line(s, i)
  <2> HIDE DEF ids
  <2> QED BY <1>2 DEF CommonAlike
<1> HIDE DEF ids, Line
<1> QED BY <1>4, <1>5

LEMMA CommonShownAlike ==
  ASSUME NEW s, IsState(s), NEW t, CommonAlike(s, t), NEW audience
  PROVE  renderCommon(t, Accounts, audience) = renderCommon(s, Accounts, audience)
BY ServersShownAlike DEF renderCommon, renderEvents, CommonAlike

LEMMA HiderShownAlike ==
  ASSUME NEW s, IsState(s), NEW h, NEW t, HiderAlike(s, t, h)
  PROVE  buildHiderView(t, Accounts, h) = buildHiderView(s, Accounts, h)
<1>1. renderCommon(t, Accounts, "hider") = renderCommon(s, Accounts, "hider")
  BY CommonShownAlike DEF HiderAlike
<1>2. renderSelf(t, Accounts, h) = renderSelf(s, Accounts, h)
  BY DEF renderSelf, HiderAlike
<1>3. renderTeam(t, Accounts, h) = renderTeam(s, Accounts, h)
  BY DEF renderTeam, HiderAlike
<1>4. renderPending(t, Accounts) = renderPending(s, Accounts)
  BY DEF renderPending, HiderAlike
<1>5. renderGoals(t) = renderGoals(s) /\ teamReward(t) = teamReward(s) /\ t.pool = s.pool
  BY DEF renderGoals, teamReward, HiderAlike
<1> QED BY <1>1, <1>2, <1>3, <1>4, <1>5 DEF buildHiderView

LEMMA PublicShownAlike ==
  ASSUME NEW s, IsState(s), NEW t, CommonAlike(s, t)
  PROVE  buildPublicView(t, Accounts) = buildPublicView(s, Accounts)
<1>1. renderCommon(t, Accounts, "public") = renderCommon(s, Accounts, "public")
  BY CommonShownAlike
<1>2. renderPublicHiders(t, Accounts) = renderPublicHiders(s, Accounts)
  BY DEF renderPublicHiders
<1> QED BY <1>1, <1>2 DEF buildPublicView

LEMMA PrivateIsAlike ==
  ASSUME NEW s, IsState(s), NEW h, NEW t \in Private(s, h)
  PROVE  CommonAlike(s, t) /\ (h \in Slots => HiderAlike(s, t, h))
<1>1. DOMAIN s = Fields /\ s.ap \in [Slots -> 0 .. ApCap] /\ s.loa \in [Slots -> Nat]
      /\ s.active \in SUBSET Servers /\ s.metrics \in [Servers -> Gauges]
  BY DEF IsState
<1>2. ASSUME NEW o \in Slots \ {h}, t = [s EXCEPT !.ap[o] = (@ + 1) % ApCap]
      PROVE  CommonAlike(s, t) /\ (h \in Slots => HiderAlike(s, t, h))
  BY <1>1, <1>2 DEF CommonAlike, HiderAlike, Fields
<1>3. ASSUME NEW o \in Slots \ {h}, t = [s EXCEPT !.loa[o] = @ + 1]
      PROVE  CommonAlike(s, t) /\ (h \in Slots => HiderAlike(s, t, h))
  BY <1>1, <1>3 DEF CommonAlike, HiderAlike, Fields
<1>4. ASSUME NEW v \in Servers, t = [s EXCEPT !.metrics[v].TRACE = MetricMax - @]
      PROVE  CommonAlike(s, t) /\ (h \in Slots => HiderAlike(s, t, h))
  <2>1. ASSUME NEW w \in s.active PROVE renderMetricFrame(t.metrics[w]) = renderMetricFrame(s.metrics[w])
    <3>1. \A x \in VisibleMetrics : t.metrics[w][x] = s.metrics[w][x]
      <4>1. s.metrics[v] \in Gauges /\ DOMAIN s.metrics[v] = DOMAIN Drift
        BY <1>1 DEF Gauges
      <4>2. \A x \in VisibleMetrics : x # "TRACE"
        BY DEF VisibleMetrics
      <4>3. t.metrics = [s.metrics EXCEPT ![v].TRACE = MetricMax - @]
        BY <1>1, <1>4 DEF Fields
      <4>4. CASE w = v
        <5>1. t.metrics[v] = [s.metrics[v] EXCEPT !.TRACE = MetricMax - @]
          BY <1>1, <4>3
        <5>2. VisibleMetrics \subseteq DOMAIN s.metrics[v]
          BY <4>1 DEF VisibleMetrics, Drift
        <5> QED BY <4>2, <4>4, <5>1, <5>2
      <4>5. CASE w # v
        BY <1>1, <2>1, <4>3, <4>5
      <4> QED BY <4>4, <4>5
    <3> QED BY <3>1 DEF renderMetricFrame
  <2>2. /\ t.phase = s.phase /\ t.winner = s.winner /\ t.events = s.events /\ t.active = s.active
        /\ t.ap = s.ap /\ t.loa = s.loa /\ t.conn = s.conn
        /\ t.pool = s.pool /\ t.pending = s.pending /\ t.goals = s.goals
    BY <1>1, <1>4 DEF Fields
  <2> QED BY <2>1, <2>2 DEF CommonAlike, HiderAlike
<1>5. ASSUME NEW v \in Servers \ s.active, NEW f, t = [s EXCEPT !.metrics[v] = f]
      PROVE  CommonAlike(s, t) /\ (h \in Slots => HiderAlike(s, t, h))
  BY <1>1, <1>5 DEF CommonAlike, HiderAlike, Fields
<1> QED BY <1>2, <1>3, <1>4, <1>5 DEF Private

LEMMA UnseenIsAlike ==
  ASSUME NEW s, IsState(s), NEW t \in Unseen(s)
  PROVE  CommonAlike(s, t)
<1>1. DOMAIN s = Fields
  BY DEF IsState
<1> DEFINE SameSeen ==
      /\ t.phase = s.phase /\ t.winner = s.winner /\ t.events = s.events /\ t.active = s.active
      /\ t.metrics = s.metrics
<1>2. SameSeen
  <2>1. ASSUME NEW o, NEW v, t = [s EXCEPT !.conn[o] = v] PROVE SameSeen
    BY <1>1, <2>1 DEF Fields
  <2>2. ASSUME NEW n, t = [s EXCEPT !.pool = n] PROVE SameSeen
    BY <1>1, <2>2 DEF Fields
  <2>3. ASSUME NEW q, t = [s EXCEPT !.pending = q] PROVE SameSeen
    BY <1>1, <2>3 DEF Fields
  <2>4. ASSUME NEW f, t = [s EXCEPT !.goals = f] PROVE SameSeen
    BY <1>1, <2>4 DEF Fields
  <2>5. \/ \E o \in Slots, v \in s.active : t = [s EXCEPT !.conn[o] = v]
        \/ t = [s EXCEPT !.pool = s.pool + 1]
        \/ t = [s EXCEPT !.pending = <<>>]
        \/ t = [s EXCEPT !.goals = [g \in DOMAIN s.goals |-> "COMPLETED"]]
    BY DEF Unseen
  <2> HIDE DEF SameSeen
  <2> QED BY <2>1, <2>2, <2>3, <2>4, <2>5
<1> QED BY <1>2 DEF CommonAlike

\* In any state a hider's view is the same whatever the other hiders' points and
\* LOA, the traces and what is left on removed servers, and the public view
\* whatever anybody's points, LOA and server, the pool, the ring and the goals:
\* the builders of audience_views.cpp read none of them.
THEOREM ViewsAreAlwaysBlind == Spec => []ViewsAreBlind
<1>1. Inv => ViewsAreBlind
  <2> SUFFICES ASSUME IsState(st)
               PROVE  /\ \A h \in Slots : \A other \in Private(st, h) :
                           buildHiderView(other, Accounts, h) = buildHiderView(st, Accounts, h)
                      /\ \A other \in Private(st, NO_SERVER_ID) \cup Unseen(st) :
                           buildPublicView(other, Accounts) = buildPublicView(st, Accounts)
    BY DEF Inv, ViewsAreBlind
  <2>1. ASSUME NEW h \in Slots, NEW other \in Private(st, h)
        PROVE  buildHiderView(other, Accounts, h) = buildHiderView(st, Accounts, h)
    <3>1. HiderAlike(st, other, h)
      BY PrivateIsAlike
    <3> QED BY <3>1, HiderShownAlike
  <2>2. ASSUME NEW other \in Private(st, NO_SERVER_ID) \cup Unseen(st)
        PROVE  buildPublicView(other, Accounts) = buildPublicView(st, Accounts)
    <3>1. CommonAlike(st, other)
      BY PrivateIsAlike, UnseenIsAlike
    <3> QED BY <3>1, PublicShownAlike
  <2> QED BY <2>1, <2>2
<1> QED BY <1>1, NpcPlayTypes, PTL
=============================================================================
