------------------------------ MODULE Ruleset ------------------------------
(***************************************************************************)
(* The hider-seeker rules with their numbers, as functions of a MatchState *)
(* s and a move m: what ruleset/ answers to a move, what an accepted move  *)
(* does, and the parts of a tick that need no seeker.  A state is a record *)
(* with at least the fields ap, loa, conn, active, metrics, goals, pool,   *)
(* pending and events; modules that play matches add their own.            *)
(***************************************************************************)
EXTENDS HiderPolicy, AudienceViews

CONSTANTS
  Slots,        \* the hider slots of the match, 0 .. hider_count - 1
  Accounts,     \* the account bound to each slot
  NumServers    \* MAX_SERVERS

ApRegen == 2
ApCap == 10
StartLoa == 1
PoolPerHider == 3
RewardTarget == 3
MetricMax == 100
Drift == [CPU |-> 1, NETWORK |-> 1, ERRORS |-> 1, TRACE |-> 2]
Servers == 0 .. NumServers - 1
Zeroed == [m \in DOMAIN Drift |-> 0]
Kinds == DOMAIN HiderActionDefs \cup {"ADD_SERVER", "REMOVE_SERVER", "CONNECT", "DISCONNECT"}

-----------------------------------------------------------------------------
(* The rules, on a state s and a move m.                                   *)

Occupants(s, server) == {h \in Slots : s.conn[h] = server}
MoveOf(h, kind, server) == [id |-> 0, hider |-> h, kind |-> kind, server |-> server]

Outcome(s, m) ==
  IF \/ m.kind \in DOMAIN HiderActionDefs \cup {"DISCONNECT"} /\ s.conn[m.hider] = NO_SERVER_ID
     \/ m.kind = "CONNECT" /\ (m.server \notin s.active \/ s.conn[m.hider] # NO_SERVER_ID)
     \/ m.kind = "REMOVE_SERVER" /\ m.server \notin s.active
  THEN "INVALID_TARGET"
  ELSE IF \/ m.kind \in {"ADD_SERVER", "REMOVE_SERVER"} /\ s.loa[m.hider] < 1
          \/ m.kind \in DOMAIN HiderActionDefs /\ s.ap[m.hider] < HiderActionDefs[m.kind].ap_cost
       THEN "INSUFFICIENT_RESOURCE"
  ELSE IF \/ m.kind = "ADD_SERVER" /\ s.active = Servers
          \/ m.kind = "REMOVE_SERVER" /\ Occupants(s, m.server) # {} /\ s.active = {m.server}
          \/ m.kind = "CONNECT" /\ s.pool = 0
       THEN "NO_ROOM" ELSE "ACCEPTED"

\* The ruleset's own reading of a requirement, from the state.
StateMeets(s, r) ==
  IF r.type = "ACTIVE_SERVER_COUNT" THEN Cardinality(s.active) >= r.threshold
  ELSE r.subject_id \in s.active /\ s.metrics[r.subject_id][r.metric] >= r.threshold

goalRequirementsMet(s, goal) ==
  goal.requirements # <<>> /\ \A r \in Range(goal.requirements) : StateMeets(s, r)

Completable(s) ==
  {i \in DOMAIN SeededGoals :
     s.goals[SeededGoals[i].goal_id] = "OPEN" /\ goalRequirementsMet(s, SeededGoals[i])}

\* The lowest goal slot that is met is completed by a PAY_GOAL.
CompleteGoal(s) ==
  IF Completable(s) = {} THEN s
  ELSE [s EXCEPT !.goals[SeededGoals[Min(Completable(s))].goal_id] = "COMPLETED"]

Clamp(value) == Max({0, Min({MetricMax, value})})

\* applyMetricDelta for each effect, clamped to the metric's range.
Affect(frame, effects) ==
  [m \in DOMAIN frame |-> IF m \in DOMAIN effects THEN Clamp(frame[m] + effects[m]) ELSE frame[m]]

applyHiderAction(s, m) ==
  LET def == HiderActionDefs[m.kind]
      paid == [s EXCEPT !.ap[m.hider] = @ - def.ap_cost]
      done == IF m.kind = "PAY_GOAL" THEN CompleteGoal(paid) ELSE paid
  IN [done EXCEPT !.metrics[s.conn[m.hider]] = Affect(@, def.effects)]

applyAddServer(s, m) ==
  [s EXCEPT !.loa[m.hider] = @ - 1, !.active = @ \cup {Min(Servers \ @)},
            !.events = Append(@, [type |-> "SERVER_ADDED"])]

\* invalidateServerReferences: a goal on the server is cancelled, completed or not.
CancelledBy(server) ==
  {SeededGoals[i].goal_id : i \in
     {j \in DOMAIN SeededGoals : \E r \in Range(SeededGoals[j].requirements) :
        r.type = "SERVER_METRIC_THRESHOLD" /\ r.subject_id = server}}

applyRemoveServer(s, m) ==
  [s EXCEPT
     !.loa[m.hider] = @ - 1, !.active = @ \ {m.server}, !.metrics[m.server] = Zeroed,
     !.conn = [h \in Slots |-> IF h \in Occupants(s, m.server)
                               THEN Min(s.active \ {m.server}) ELSE s.conn[h]],
     !.goals = [g \in DOMAIN @ |-> IF g \in CancelledBy(m.server) THEN "CANCELLED" ELSE @[g]],
     !.events = Append(@, [type |-> "SERVER_REMOVED"])]

applyTickIntent(s, m) ==
  CASE m.kind = "ADD_SERVER" -> applyAddServer(s, m)
    [] m.kind = "REMOVE_SERVER" -> applyRemoveServer(s, m)
    [] m.kind = "CONNECT" -> [s EXCEPT !.conn[m.hider] = m.server, !.pool = @ - 1]
    [] m.kind = "DISCONNECT" -> [s EXCEPT !.conn[m.hider] = NO_SERVER_ID, !.pool = @ + 1]
    [] OTHER -> applyHiderAction(s, m)

-----------------------------------------------------------------------------
(* A tick.                                                                 *)

regenerateForTick(s) ==
  [s EXCEPT !.ap = [h \in Slots |-> IF isBound(Accounts, h) THEN Min({ApCap, @[h] + ApRegen})
                                    ELSE @[h]]]

\* (mutant) the metrics drift back a whole boost a tick
DriftFast(s) ==
  [s EXCEPT !.metrics = [server \in Servers |->
     IF server \in s.active THEN [m \in DOMAIN Drift |-> Max({0, @[server][m] - 15})]
     ELSE @[server]]]

\* driftMetric: every metric of an active server drifts to its rest value, 0.
driftMetrics(s) ==
  [s EXCEPT !.metrics = [server \in Servers |->
     IF server \in s.active THEN [m \in DOMAIN Drift |-> Max({0, @[server][m] - Drift[m]})]
     ELSE @[server]]]
=============================================================================
