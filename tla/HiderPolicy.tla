----------------------------- MODULE HiderPolicy -----------------------------
(***************************************************************************)
(* hider_policy.cpp: the one move an NPC hider makes, chosen from the view *)
(* its account is served and from nothing else.  A view is the record that *)
(* AudienceViews builds; a choice is the move API's intent.                *)
(***************************************************************************)
EXTENDS Integers, Sequences, FiniteSetsExt, SequencesExt

NO_SERVER_ID == 255
GOAL_INFEASIBLE == -1

\* HiderAction.enum: what a mode costs and what it adds to its server's metrics.
\* ADD_SERVER, REMOVE_SERVER, CONNECT and DISCONNECT have lines too, without
\* cost or effect: those kinds never reach this table.
HiderActionDefs ==
  [CONFIGURE_SERVER |-> [ap_cost |-> 5, effects |-> [TRACE |-> 5]],
   SUPPRESS_ERROR |-> [ap_cost |-> 3, effects |-> [ERRORS |-> -10, TRACE |-> 20]],
   BOOST_CPU |-> [ap_cost |-> 2, effects |-> [CPU |-> 15, TRACE |-> 5]],
   ROTATE_ROUTE |-> [ap_cost |-> 4, effects |-> [NETWORK |-> 5, TRACE |-> 10]],
   PAY_GOAL |-> [ap_cost |-> 10, effects |-> [none \in {} |-> 0]]]

\* The mode that raises each metric the policy knows.
Raises == [CPU |-> "BOOST_CPU", NETWORK |-> "ROTATE_ROUTE"]

ServersNamed(view, id) == {s \in Range(view.servers) : s.server_id = id}

requirementMet(view, requirement) ==
  \/ /\ requirement.type = "ACTIVE_SERVER_COUNT"
     /\ Len(view.servers) >= requirement.threshold
  \/ /\ requirement.type = "SERVER_METRIC_THRESHOLD"
     /\ requirement.metric \in DOMAIN Raises
     /\ \E s \in ServersNamed(view, requirement.server_id) :
          s.metrics[requirement.metric] >= requirement.threshold

goalSupported(goal) ==
  /\ goal.status = "OPEN" /\ goal.reward_amount > 0
  /\ goal.requirements # <<>>
  /\ \A r \in Range(goal.requirements) :
       \/ r.type = "ACTIVE_SERVER_COUNT"
       \/ r.type = "SERVER_METRIC_THRESHOLD" /\ r.metric \in DOMAIN Raises

Unmet(view, goal) ==
  {i \in DOMAIN goal.requirements : ~ requirementMet(view, goal.requirements[i])}

\* An unmet requirement that no number of the NPC's moves can meet.
Hopeless(view, r, maxServers) ==
  \/ /\ r.type = "ACTIVE_SERVER_COUNT"
     /\ r.threshold - Len(view.servers) > view.self.loa \/ r.threshold > maxServers
  \/ r.type = "SERVER_METRIC_THRESHOLD" /\ ServersNamed(view, r.server_id) = {}

\* The action points an unmet requirement takes: boosts, rounded up; LOA is free.
RequirementCost(view, r) ==
  IF r.type = "ACTIVE_SERVER_COUNT" THEN 0
  ELSE LET def == HiderActionDefs[Raises[r.metric]]
           server == CHOOSE s \in ServersNamed(view, r.server_id) : TRUE
           gain == def.effects[r.metric]
       IN ((r.threshold - server.metrics[r.metric] + gain - 1) \div gain) * def.ap_cost

\* The payment and what the first so many requirements add to it.
CostUpTo(view, goal) ==
  LET total[n \in 0 .. Len(goal.requirements)] ==
        IF n = 0 THEN HiderActionDefs.PAY_GOAL.ap_cost
        ELSE total[n - 1] + IF n \in Unmet(view, goal)
                            THEN RequirementCost(view, goal.requirements[n]) ELSE 0
  IN total

goalCost(view, goal, maxServers) ==
  IF \E i \in Unmet(view, goal) : Hopeless(view, goal.requirements[i], maxServers)
  THEN GOAL_INFEASIBLE
  ELSE CostUpTo(view, goal)[Len(goal.requirements)]

-----------------------------------------------------------------------------
(* The choice.                                                             *)

NoMove == [has_move |-> FALSE, kind |-> "NONE", server_id |-> NO_SERVER_ID, goal_id |-> -1]
Move(kind, server, goal) ==
  [has_move |-> TRUE, kind |-> kind, server_id |-> server, goal_id |-> goal.goal_id]

hasOwnPending(view) == \E p \in Range(view.pending) : p.hider_id = view.self.hider_id

allRequirementsMet(view, goal) == Unmet(view, goal) = {}

IsConnected(view) == view.self.server_id # NO_SERVER_ID

\* (mutant) a disconnected hider pays without connecting
PayAnywhere(view, goal) == Move("PAY_GOAL", NO_SERVER_ID, goal)

\* A met goal is paid from any server; a hider that has none connects first.
payGoal(view, goal) ==
  IF IsConnected(view) THEN Move("PAY_GOAL", NO_SERVER_ID, goal)
  ELSE IF view.team_connections > 0 /\ view.servers # <<>>
       THEN Move("CONNECT", view.servers[1].server_id, goal)
       ELSE NoMove

Feasible(view, maxServers) ==
  {g \in Range(view.goals) : goalSupported(g) /\ goalCost(view, g, maxServers) # GOAL_INFEASIBLE}

\* The cheapest feasible goal, the lowest goal_id of those as cheap.
cheapestGoal(view, maxServers) ==
  LET cost(g) == goalCost(view, g, maxServers)
  IN CHOOSE g \in Feasible(view, maxServers) :
       \A other \in Feasible(view, maxServers) :
         \/ cost(g) < cost(other)
         \/ cost(g) = cost(other) /\ g.goal_id <= other.goal_id

firstUnmetRequirement(view, goal) == goal.requirements[Min(Unmet(view, goal))]

\* A server is added at once; a metric is raised from its own server, which the
\* hider leaves another one for, or connects to.
nextMove(view, goal) ==
  LET r == firstUnmetRequirement(view, goal)
  IN IF r.type = "ACTIVE_SERVER_COUNT" THEN Move("ADD_SERVER", NO_SERVER_ID, goal)
     ELSE IF view.self.server_id = r.server_id THEN Move(Raises[r.metric], NO_SERVER_ID, goal)
     ELSE IF IsConnected(view) THEN Move("DISCONNECT", NO_SERVER_ID, goal)
     ELSE IF view.team_connections > 0 THEN Move("CONNECT", r.server_id, goal)
     ELSE NoMove

Payable(view) ==
  {i \in DOMAIN view.goals :
     goalSupported(view.goals[i]) /\ allRequirementsMet(view, view.goals[i])}

chooseHiderMove(view, maxServers) ==
  IF view.phase # "ACTIVE" \/ view.self.status # "ACTIVE" \/ hasOwnPending(view) THEN NoMove
  ELSE IF Payable(view) # {} THEN payGoal(view, view.goals[Min(Payable(view))])
  ELSE IF Feasible(view, maxServers) = {} THEN NoMove
  ELSE nextMove(view, cheapestGoal(view, maxServers))
=============================================================================
