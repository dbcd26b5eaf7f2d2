---------------------------- MODULE AudienceViews ----------------------------
(***************************************************************************)
(* audience_views.cpp: what a hider and what a spectator are shown of a    *)
(* match.  A state is a record of the MatchState fields the views and the  *)
(* NPC's play read; accounts is the ViewContext's binding of slots.        *)
(*                                                                         *)
(* Left out: tick and revision, which only count, the metric history (a    *)
(* copy of what the view showed before) and content_hash, which is a       *)
(* function of the rest of the view.                                       *)
(***************************************************************************)
EXTENDS Integers, Sequences, FiniteSets, SequencesExt

NoServer == 255
Unbound == ""
VisibleMetrics == {"CPU", "NETWORK", "ERRORS"}   \* of MetricFrame, those an action changes

\* The subject of a requirement, REQ_ACTIVE_SERVER_COUNT or
\* REQ_SERVER_METRIC_THRESHOLD, and goal slots 0 to 3 as seedPlaceholderGoals fills them.
CountOf(threshold) ==
  [type |-> "ACTIVE_SERVER_COUNT", subject_id |-> 0, metric |-> "CPU", threshold |-> threshold]
MetricOf(server, metric, threshold) ==
  [type |-> "SERVER_METRIC_THRESHOLD", subject_id |-> server, metric |-> metric,
   threshold |-> threshold]
SeededGoals ==
  <<[goal_id |-> 0, reward_amount |-> 1, requirements |-> <<MetricOf(0, "CPU", 40)>>],
    [goal_id |-> 1, reward_amount |-> 1, requirements |-> <<MetricOf(0, "NETWORK", 20)>>],
    [goal_id |-> 2, reward_amount |-> 1, requirements |-> <<CountOf(3)>>],
    [goal_id |-> 3, reward_amount |-> 1, requirements |-> <<MetricOf(0, "CPU", 80)>>]>>

-----------------------------------------------------------------------------
isBound(accounts, slot) == accounts[slot] # Unbound

\* Only bound slots are active, and no hider is ever captured.
hiderStatusName(accounts, slot) == IF isBound(accounts, slot) THEN "ACTIVE" ELSE "NOT_JOINED"

renderMetricFrame(frame) == [m \in VisibleMetrics |-> frame[m]]

\* A set of slots as the loops over an array of slots meet them: each has as
\* many before it as there are lower ones.
InOrder(S) == [i \in 1 .. Cardinality(S) |-> CHOOSE x \in S : Cardinality({y \in S : y < x}) = i - 1]

\* Active servers in ascending server_id.
renderServers(st) ==
  LET ids == InOrder(st.active)
  IN [i \in DOMAIN ids |->
        [server_id |-> ids[i], metrics |-> renderMetricFrame(st.metrics[ids[i]])]]

renderEvents(st) == st.events

renderRequirement(r) ==
  LET names == r.type = "SERVER_METRIC_THRESHOLD"
  IN [type |-> r.type, threshold |-> r.threshold,
      server_id |-> IF names THEN r.subject_id ELSE NoServer,
      metric |-> IF names THEN r.metric ELSE "none"]

renderGoal(goal, status) ==
  [goal_id |-> goal.goal_id, status |-> status, reward_amount |-> goal.reward_amount,
   requirements |-> [i \in DOMAIN goal.requirements |-> renderRequirement(goal.requirements[i])]]

\* Goals with active # 0: a goal cancelled with its server is not shown.
renderGoals(st) ==
  LET shown == InOrder({i \in DOMAIN SeededGoals : st.goals[SeededGoals[i].goal_id] # "CANCELLED"})
  IN [i \in DOMAIN shown |->
        renderGoal(SeededGoals[shown[i]], st.goals[SeededGoals[shown[i]].goal_id])]

RewardOf(goals) ==
  LET paid == SelectSeq(SeededGoals, LAMBDA g : goals[g.goal_id] = "COMPLETED")
  IN FoldLeft(LAMBDA sum, g : sum + g.reward_amount, 0, paid)

teamReward(st) == RewardOf(st.goals)

\* Top-level fields shared by every audience.
renderCommon(st, accounts, audience) ==
  [audience |-> audience, phase |-> st.phase, winner |-> st.winner,
   hider_count |-> Cardinality(DOMAIN accounts), server_count |-> Cardinality(st.active),
   servers |-> renderServers(st), events |-> renderEvents(st)]

renderSelf(st, accounts, h) ==
  [hider_id |-> h, account |-> accounts[h], status |-> hiderStatusName(accounts, h),
   action_points |-> st.ap[h], server_id |-> st.conn[h], loa |-> st.loa[h]]

\* The slots but the own one, in order.
renderTeam(st, accounts, h) ==
  LET slots == InOrder(DOMAIN accounts \ {h})
  IN [i \in DOMAIN slots |->
        [hider_id |-> slots[i], account |-> accounts[slots[i]],
         status |-> hiderStatusName(accounts, slots[i]), server_id |-> st.conn[slots[i]]]]

pendingActionName(move) == move.kind

\* The ring in submit order; only a pending REMOVE_SERVER shows its server.
renderPending(st, accounts) ==
  [i \in DOMAIN st.pending |->
     LET move == st.pending[i]
     IN [intent_id |-> move.id, hider_id |-> move.hider, account |-> accounts[move.hider],
         action |-> pendingActionName(move), queue_position |-> i - 1,
         server_id |-> IF move.kind = "REMOVE_SERVER" THEN move.server ELSE NoServer]]

\* (mutant) the roster shows where every hider hides
LeakyRoster(st, accounts) ==
  LET slots == InOrder(DOMAIN accounts)
  IN [i \in DOMAIN slots |->
        [hider_id |-> slots[i], account |-> accounts[slots[i]], server_id |-> st.conn[slots[i]]]]

renderPublicHiders(st, accounts) ==
  LET slots == InOrder(DOMAIN accounts)
  IN [i \in DOMAIN slots |->
        [hider_id |-> slots[i], account |-> accounts[slots[i]],
         status |-> hiderStatusName(accounts, slots[i])]]

\* The shared fields and an audience's own.
Joined(common, own) ==
  [field \in DOMAIN common \cup DOMAIN own |->
     IF field \in DOMAIN common THEN common[field] ELSE own[field]]

buildHiderView(st, accounts, h) ==
  Joined(renderCommon(st, accounts, "hider"),
         [hider_id |-> h, self |-> renderSelf(st, accounts, h), team |-> renderTeam(st, accounts, h),
          pending |-> renderPending(st, accounts), team_connections |-> st.pool,
          goals |-> renderGoals(st), team_reward |-> teamReward(st)])

buildPublicView(st, accounts) ==
  Joined(renderCommon(st, accounts, "public"), [hiders |-> renderPublicHiders(st, accounts)])
=============================================================================
