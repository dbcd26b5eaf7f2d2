----------------------------- MODULE TurnEngine -----------------------------
(***************************************************************************)
(* The hider-seeker turn engine: the four entry points of turn_engine.cpp  *)
(* (playMove, queueMove, passTicks, cancelPendingMove), the advance loop   *)
(* they share, the tick it runs (tick.cpp), the rules a tick dispatches to *)
(* (ruleset/) and the seeker's turn (seeker_turn.cpp).                     *)
(*                                                                         *)
(* A call that advances ticks is a run of steps: while step # "idle" only  *)
(* the next step of that call is enabled, in the order of the code, so a   *)
(* call is never interleaved with another one (the service holds the       *)
(* match's mutex).  The seeker's policy is an arbitrary function of what   *)
(* it observes, so every choice it can make is a choice of the model.      *)
(*                                                                         *)
(* Abstracted: server metrics (a PAY_GOAL completes any of the goals whose *)
(* metric threshold the metrics could meet), the tick counter, the         *)
(* seeker's beliefs and the wording of results.  A move is identified by   *)
(* its submit_seq: the service numbers moves freshly, which MatchService   *)
(* checks, so move_id and submit_seq identify the same moves.              *)
(***************************************************************************)
EXTENDS Integers, FiniteSets

CONSTANTS
  Hiders,        \* slots of the hiders that joined (integers: probes hit low slots first)
  HiderCount,    \* MatchState::hider_count, the slots of the match
  NumServers,    \* MAX_SERVERS
  Modes,         \* the HiderActionModes a move may name
  PayGoal,       \* the mode PAY_GOAL, an element of Modes
  ApCost,        \* HiderActionDef::ap_cost of each mode
  ApRegen,       \* PLACEHOLDER_AP_REGEN_PER_TICK
  ApCap,         \* PLACEHOLDER_AP_CAP
  StartAp,       \* PLACEHOLDER_START_ACTION_POINTS
  StartLoa,      \* PLACEHOLDER_START_LOA
  PoolPerHider,  \* PLACEHOLDER_HIDER_CONNECTIONS_PER_HIDER
  SeekerTokens,  \* PLACEHOLDER_SEEKER_START_CONNECTIONS
  OpensPerTick,  \* PLACEHOLDER_SEEKER_OPENS_PER_TICK
  MaxWager,      \* MAX_HIDERS, the largest wager of one probe
  MetricGoals,   \* goal slots whose requirement is a metric of server 0
  CountGoals,    \* goal slots whose requirement is an active server count
  CountNeeded,   \* threshold of the CountGoals
  RewardTarget,  \* PLACEHOLDER_HIDER_REWARD_TARGET
  RingCap,       \* MAX_PENDING_MOVES
  HiderQuota,    \* PLACEHOLDER_MAX_PENDING_PER_HIDER
  MaxAdvance,    \* MAX_ADVANCE_TICKS
  EventCap,      \* MAX_TICK_PUBLIC_EVENTS, the size of TurnResult::publicEvents
  MaxRevision    \* bound of the model: no call is made at this revision

Servers == 0 .. NumServers - 1
NO_SERVER_ID == 255
Goals == MetricGoals \cup CountGoals
GOAL_SERVER == 0
Kinds == Modes \cup {"ADD_SERVER", "REMOVE_SERVER", "CONNECT", "DISCONNECT"}
Moves == [seq : Nat, hider : Hiders, kind : Kinds, server : Servers \cup {NO_SERVER_ID}]
NoMove == [seq |-> -1]

ASSUME SlotAssumption ==
  /\ HiderCount \in 1 .. 255
  /\ Hiders # {} /\ Hiders \subseteq 0 .. HiderCount - 1
  /\ NumServers \in HiderCount .. 255
ASSUME ModeAssumption ==
  /\ PayGoal \in Modes
  /\ Modes \cap {"ADD_SERVER", "REMOVE_SERVER", "CONNECT", "DISCONNECT"} = {}
  /\ ApCost \in [Modes -> Nat]
ASSUME BudgetAssumption ==
  /\ ApRegen \in Nat /\ ApCap \in Nat /\ StartAp \in 0 .. ApCap /\ StartLoa \in Nat
  /\ PoolPerHider \in Nat \ {0} /\ SeekerTokens \in Nat \ {0}
  /\ OpensPerTick \in Nat /\ MaxWager \in Nat
ASSUME GoalAssumption ==
  /\ MetricGoals \subseteq Nat /\ CountGoals \subseteq Nat
  /\ IsFiniteSet(MetricGoals) /\ IsFiniteSet(CountGoals)
  /\ MetricGoals \cap CountGoals = {}
  /\ CountNeeded \in Nat /\ RewardTarget \in Nat \ {0}
ASSUME RingAssumption ==
  /\ MaxAdvance \in Nat \ {0} /\ RingCap \in Nat /\ HiderQuota \in Nat /\ EventCap \in Nat /\ MaxRevision \in Nat

VARIABLES
  phase,      \* MatchState::phase, "ACTIVE" or "COMPLETE"
  winner,     \* MatchState::winner
  revision,   \* MatchState::revision
  ap,         \* ap[h]: HiderState::action_points
  loa,        \* loa[h]: HiderState::resources[LOA_RESOURCE_INDEX]
  conn,       \* conn[h]: HiderState::server_id
  active,     \* the servers with ServerState::active
  pool,       \* MatchState::hider_connection_pool
  tokens,     \* SeekerState::connection_tokens
  mask,       \* the servers of MatchState::seeker_connection_mask
  goals,      \* goals[g]: GoalState::status
  pending,    \* the moves of the pending ring, ordered by their seq
  nextSeq,    \* MatchState::next_submit_seq
  step,       \* where the call in progress is, "idle" between calls
  trigger,    \* the move an advancing playMove waits for, or NoMove
  ticksLeft,  \* ticks the advance loop may still run
  todo,       \* the candidates of this tick not dispatched yet
  accepted,   \* the candidates of this tick whose outcome was ACCEPTED
  refused,    \* those that a rule refused for another reason than their cost
  cursor,     \* the lowest server the wager phase may still probe
  events,     \* public events produced by the advancing call in progress
  spenders,   \* hiders of the pending moves this call applied in earlier ticks
  result      \* status and reason of the last TurnResult

hiderVars == <<ap, loa, conn>>
seekerVars == <<tokens, mask>>
ruleVars == <<ap, loa, conn, active, pool, tokens, mask, goals>>
ringVars == <<pending, nextSeq>>
endVars == <<phase, winner>>
tickVars == <<todo, accepted, refused, cursor>>
callVars == <<trigger, ticksLeft, spenders>>
vars == <<endVars, revision, ruleVars, ringVars, step, callVars, tickVars, events, result>>

Statuses == {"NONE", "APPLIED", "QUEUED", "REJECTED", "CANCELLED"}
Reasons == {"NONE", "NEVER_AFFORDABLE", "QUEUE_FULL", "HIDER_QUEUE_LIMIT", "RULE_REJECTED",
            "MATCH_NOT_ACTIVE", "ADVANCE_LIMIT", "NOT_FOUND", "INVALID_TICK_COUNT"}
Results == [status : Statuses, reason : Reasons]
NoResult == [status |-> "NONE", reason |-> "NONE"]
Result(status, reason) == [status |-> status, reason |-> reason]

TypeOK ==
  /\ phase \in {"ACTIVE", "COMPLETE"}
  /\ winner \in {"NONE", "HIDERS", "SEEKER"}
  /\ revision \in Nat
  /\ ap \in [Hiders -> 0 .. ApCap]
  /\ loa \in [Hiders -> Nat]
  /\ conn \in [Hiders -> Servers \cup {NO_SERVER_ID}]
  /\ active \in SUBSET Servers
  /\ pool \in Nat
  /\ tokens \in Nat
  /\ mask \in SUBSET Servers
  /\ goals \in [Goals -> {"OPEN", "COMPLETED", "CANCELLED"}]
  /\ pending \in SUBSET Moves /\ IsFiniteSet(pending)
  /\ nextSeq \in Nat
  /\ step \in {"idle", "tick", "intents", "seeker", "end", "settle"}
  /\ trigger \in Moves \cup {NoMove}
  /\ ticksLeft \in 0 .. MaxAdvance
  /\ todo \in SUBSET Moves
  /\ accepted \in SUBSET Moves
  /\ refused \in SUBSET Moves
  /\ cursor \in 0 .. NumServers
  /\ events \in Nat
  /\ spenders \in SUBSET Hiders
  /\ result \in Results

\* A match that startMatch has just started: every hider disconnected, the
\* first HiderCount servers active, all goals open, an empty ring.
Init ==
  /\ phase = "ACTIVE" /\ winner = "NONE" /\ revision = 0
  /\ ap = [h \in Hiders |-> StartAp]
  /\ loa = [h \in Hiders |-> StartLoa]
  /\ conn = [h \in Hiders |-> NO_SERVER_ID]
  /\ active = 0 .. HiderCount - 1
  /\ pool = PoolPerHider * HiderCount
  /\ tokens = SeekerTokens
  /\ mask = {}
  /\ goals = [g \in Goals |-> "OPEN"]
  /\ pending = {} /\ nextSeq = 0
  /\ step = "idle" /\ trigger = NoMove /\ ticksLeft = 0 /\ spenders = {}
  /\ todo = {} /\ accepted = {} /\ refused = {} /\ cursor = 0
  /\ events = 0 /\ result = NoResult

-----------------------------------------------------------------------------
(* The rules: the outcome of a move and its effect.                        *)

Connected == {h \in Hiders : conn[h] # NO_SERVER_ID}
Occupants(s) == {h \in Hiders : conn[h] = s}
teamReward == Cardinality({g \in Goals : goals[g] = "COMPLETED"})
Lower(a, b) == IF a < b THEN a ELSE b

\* The move names a server or presupposes a connection that is not there.
InvalidTarget(m) ==
  \/ m.kind \in Modes \cup {"DISCONNECT"} /\ conn[m.hider] = NO_SERVER_ID
  \/ m.kind = "CONNECT" /\ (m.server \notin active \/ conn[m.hider] # NO_SERVER_ID)
  \/ m.kind = "REMOVE_SERVER" /\ m.server \notin active

\* A hider with points action points cannot pay for the move.
Unaffordable(m, points) ==
  \/ m.kind \in Modes /\ points < ApCost[m.kind]
  \/ m.kind \in {"ADD_SERVER", "REMOVE_SERVER"} /\ loa[m.hider] < 1

\* REJECTED_NO_SLOT_AVAILABLE, REJECTED_RELOCATION_FAILED and
\* REJECTED_NO_CONNECTIONS.  (hasRoomForLifecycleEvent never fails: before any
\* probe a tick emits one event per LOA spent, far fewer than fit.)
NoRoom(m) ==
  \/ m.kind = "ADD_SERVER" /\ active = Servers
  \/ m.kind = "REMOVE_SERVER" /\ Occupants(m.server) # {} /\ active \ {m.server} = {}
  \/ m.kind = "CONNECT" /\ pool = 0

Outcome(m, points) ==
  IF InvalidTarget(m) THEN "INVALID_TARGET"
  ELSE IF Unaffordable(m, points) THEN "INSUFFICIENT_RESOURCE"
  ELSE IF NoRoom(m) THEN "NO_ROOM" ELSE "ACCEPTED"

\* applyHiderAction: the cost is paid; PAY_GOAL also completes the lowest open
\* goal whose requirement is met, if there is one.  Which metric goals are met
\* depends on metrics the model leaves out, provided their server is active.
Completable(met) ==
  {g \in Goals : /\ goals[g] = "OPEN"
                 /\ \/ g \in met /\ GOAL_SERVER \in active
                    \/ g \in CountGoals /\ Cardinality(active) >= CountNeeded}

applyHiderAction(m) ==
  /\ m.kind \in Modes
  /\ ap' = [ap EXCEPT ![m.hider] = @ - ApCost[m.kind]]
  /\ \/ m.kind # PayGoal /\ UNCHANGED goals
     \/ /\ m.kind = PayGoal
        /\ \E met \in SUBSET MetricGoals :
             \/ Completable(met) = {} /\ UNCHANGED goals
             \/ \E g \in Completable(met) :
                  /\ \A other \in Completable(met) : g <= other
                  /\ goals' = [goals EXCEPT ![g] = "COMPLETED"]
  /\ UNCHANGED <<loa, conn, active, pool, seekerVars>>

applyAddServer(m) ==
  /\ m.kind = "ADD_SERVER"
  /\ loa' = [loa EXCEPT ![m.hider] = @ - 1]
  /\ \E s \in Servers \ active :
       /\ \A other \in Servers \ active : s <= other
       /\ active' = active \cup {s}
  /\ UNCHANGED <<ap, conn, pool, seekerVars, goals>>

\* (mutant) the seeker stays connected to the removed server
KeepSeekerConnection(s) ==
  /\ goals' = [g \in Goals |-> IF g \in MetricGoals /\ s = GOAL_SERVER
                               THEN "CANCELLED" ELSE goals[g]]
  /\ UNCHANGED seekerVars

\* (mutant) the connection is closed without giving its token back
NoTokenRefund(s) ==
  /\ goals' = [g \in Goals |-> IF g \in MetricGoals /\ s = GOAL_SERVER
                               THEN "CANCELLED" ELSE goals[g]]
  /\ mask' = mask \ {s} /\ UNCHANGED tokens

\* Goals on the removed server are cancelled, completed or not; a seeker
\* connection to it is closed and refunded.
invalidateServerReferences(s) ==
  /\ goals' = [g \in Goals |-> IF g \in MetricGoals /\ s = GOAL_SERVER
                               THEN "CANCELLED" ELSE goals[g]]
  /\ mask' = mask \ {s}
  /\ tokens' = IF s \in mask THEN tokens + 1 ELSE tokens

\* Occupants move to the lowest other active server.
applyRemoveServer(m) ==
  /\ m.kind = "REMOVE_SERVER"
  /\ loa' = [loa EXCEPT ![m.hider] = @ - 1]
  /\ active' = active \ {m.server}
  /\ \/ Occupants(m.server) = {} /\ UNCHANGED conn
     \/ \E s \in active' :
          /\ Occupants(m.server) # {}
          /\ \A other \in active' : s <= other
          /\ conn' = [h \in Hiders |-> IF h \in Occupants(m.server) THEN s ELSE conn[h]]
  /\ invalidateServerReferences(m.server)
  /\ UNCHANGED <<ap, pool>>

\* (mutant) connecting takes nothing from the pool
ConnectForFree(m) ==
  /\ m.kind = "CONNECT"
  /\ conn' = [conn EXCEPT ![m.hider] = m.server]
  /\ UNCHANGED <<ap, loa, active, pool, seekerVars, goals>>

applyConnect(m) ==
  /\ m.kind = "CONNECT"
  /\ pool' = pool - 1
  /\ conn' = [conn EXCEPT ![m.hider] = m.server]
  /\ UNCHANGED <<ap, loa, active, seekerVars, goals>>

applyDisconnect(m) ==
  /\ m.kind = "DISCONNECT"
  /\ pool' = pool + 1
  /\ conn' = [conn EXCEPT ![m.hider] = NO_SERVER_ID]
  /\ UNCHANGED <<ap, loa, active, seekerVars, goals>>

applyTickIntent(m) ==
  \/ applyHiderAction(m)
  \/ applyAddServer(m)
  \/ applyRemoveServer(m)
  \/ applyConnect(m)
  \/ applyDisconnect(m)

-----------------------------------------------------------------------------
(* The entry points.                                                       *)

\* passesHiderChecks: a call finds the match at rest and not completed.  (The
\* service only acts for slots bound to an account, which are active, and no
\* code of the repository ever captures a hider.)
Callable == step = "idle" /\ phase = "ACTIVE"

\* What a call commits; the bound keeps the model finite.
Commit(status) ==
  /\ revision < MaxRevision
  /\ revision' = revision + 1
  /\ result' = Result(status, "NONE")

\* A move as the service builds it: only REMOVE_SERVER and CONNECT name a server.
Submitted(h, kind, s) ==
  [seq |-> nextSeq, hider |-> h, kind |-> kind,
   server |-> IF kind \in {"REMOVE_SERVER", "CONNECT"} THEN s ELSE NO_SERVER_ID]

OutcomeNow(m) == Outcome(m, ap[m.hider])

AtRest == UNCHANGED <<endVars, step, callVars, tickVars, events>>

Reject(reason) ==
  /\ result' = Result("REJECTED", reason)
  /\ UNCHANGED <<revision, ruleVars, ringVars>>
  /\ AtRest

\* applyNow: an affordable move is applied with no tick, by playMove and queueMove alike.
applyNow(m) ==
  /\ Callable
  /\ OutcomeNow(m) = "ACCEPTED"
  /\ applyTickIntent(m)
  /\ Commit("APPLIED")
  /\ UNCHANGED ringVars
  /\ AtRest

\* A move a rule refuses for another reason than its cost is rejected at once.
RejectIllegal(m) ==
  /\ Callable
  /\ OutcomeNow(m) \notin {"ACCEPTED", "INSUFFICIENT_RESOURCE"}
  /\ Reject("RULE_REJECTED")

SaturatingAdd(value, amount, cap) == IF value >= cap THEN value ELSE Lower(value + amount, cap)

\* becomesAffordable: the hider's action points after n more regenerations;
\* nothing else of the state is projected, and nobody else spends them.
RegeneratedBy(h, n) == Lower(ap[h] + n * ApRegen, ApCap)
becomesAffordable(m) ==
  \E n \in 1 .. MaxAdvance : Outcome(m, RegeneratedBy(m.hider, n)) = "ACCEPTED"

StartAdvance(move, budget) ==
  /\ revision < MaxRevision
  /\ step' = "tick" /\ trigger' = move /\ ticksLeft' = budget
  /\ result' = NoResult
  /\ UNCHANGED <<endVars, revision, ruleVars, ringVars, spenders, tickVars, events>>

playMoveLater(m) ==
  /\ Callable
  /\ OutcomeNow(m) = "INSUFFICIENT_RESOURCE"
  /\ \/ becomesAffordable(m) /\ StartAdvance(m, MaxAdvance)
     \/ ~ becomesAffordable(m) /\ Reject("NEVER_AFFORDABLE")

\* (mutant) the limits are off by one
OverLimit(moves, limit) == Cardinality(moves) > limit

AtLimit(moves, limit) == Cardinality(moves) >= limit

PendingOf(h) == {m \in pending : m.hider = h}

queueMoveLater(m) ==
  /\ Callable
  /\ OutcomeNow(m) = "INSUFFICIENT_RESOURCE"
  /\ LET full == AtLimit(pending, RingCap)
         overQuota == AtLimit(PendingOf(m.hider), HiderQuota)
     IN \/ full /\ Reject("QUEUE_FULL")
        \/ ~ full /\ overQuota /\ Reject("HIDER_QUEUE_LIMIT")
        \/ /\ ~ full /\ ~ overQuota
           /\ pending' = pending \cup {m}
           /\ nextSeq' = nextSeq + 1
           /\ Commit("QUEUED")
           /\ UNCHANGED ruleVars
           /\ AtRest

passTicks(ticks) ==
  /\ Callable
  /\ \/ ticks \in 1 .. MaxAdvance /\ StartAdvance(NoMove, ticks)
     \/ ticks \notin 1 .. MaxAdvance /\ Reject("INVALID_TICK_COUNT")

cancelPendingMove(h, seq) ==
  /\ Callable
  /\ LET own == {p \in pending : p.hider = h /\ p.seq = seq}
     IN \/ own = {} /\ Reject("NOT_FOUND")
        \/ /\ own # {}
           /\ pending' = pending \ own
           /\ Commit("CANCELLED")
           /\ UNCHANGED <<ruleVars, nextSeq>>
           /\ AtRest

\* Any call on a completed match.
RejectNotActive ==
  /\ step = "idle" /\ phase = "COMPLETE"
  /\ Reject("MATCH_NOT_ACTIVE")

-----------------------------------------------------------------------------
(* The advance loop, one tick at a time.                                   *)

\* (mutant) the newest pending move is left out
AllButNewest ==
  {m \in pending : \E n \in pending : n.seq > m.seq}
    \cup (IF trigger = NoMove THEN {} ELSE {trigger})

\* The whole ring, then the triggering move as the newest submission.
Candidates == pending \cup (IF trigger = NoMove THEN {} ELSE {trigger})

\* Regenerate action points (LOA never regenerates) and collect the candidates.
BeginTick ==
  /\ step = "tick" /\ ticksLeft > 0
  /\ ap' = [h \in Hiders |-> SaturatingAdd(ap[h], ApRegen, ApCap)]
  /\ ticksLeft' = ticksLeft - 1
  /\ todo' = Candidates
  /\ accepted' = {} /\ refused' = {} /\ cursor' = 0
  /\ step' = "intents"
  /\ UNCHANGED <<endVars, revision, loa, conn, active, pool, seekerVars, goals, ringVars,
                 trigger, spenders, events, result>>

\* An accepted ADD_SERVER or REMOVE_SERVER emits one public event.
Emitted(m) == IF m.kind \in {"ADD_SERVER", "REMOVE_SERVER"} THEN 1 ELSE 0

\* (mutant) an unaffordable candidate is tried again in the same tick
RetryUnaffordable(m) ==
  todo' = IF OutcomeNow(m) = "INSUFFICIENT_RESOURCE" THEN todo ELSE todo \ {m}

Dispatched(m) == todo' = todo \ {m}

\* dispatchIntent: candidates run in receipt order, the trigger last.
Dispatch(m) ==
  /\ step = "intents" /\ m \in todo
  /\ \A other \in todo : m.seq <= other.seq
  /\ Dispatched(m)
  /\ \/ /\ OutcomeNow(m) = "ACCEPTED"
        /\ applyTickIntent(m)
        /\ events' = events + Emitted(m)
        /\ accepted' = accepted \cup {m} /\ UNCHANGED refused
     \/ /\ OutcomeNow(m) = "INSUFFICIENT_RESOURCE"
        /\ UNCHANGED <<ruleVars, events, accepted, refused>>
     \/ /\ OutcomeNow(m) \notin {"ACCEPTED", "INSUFFICIENT_RESOURCE"}
        /\ refused' = refused \cup {m}
        /\ UNCHANGED <<ruleVars, events, accepted>>
  /\ UNCHANGED <<endVars, revision, ringVars, step, callVars, cursor, result>>

BeginSeeker ==
  /\ step = "intents" /\ todo = {}
  /\ step' = "seeker"
  /\ UNCHANGED <<endVars, revision, ruleVars, ringVars, callVars, tickVars, events, result>>

LostTokens(wager, hit) == wager - Cardinality(hit)

\* applyWager on server s: the lowest occupants lose their connection for
\* good, what is left of the wager is lost.
applyWager(s, wager) ==
  LET occupants == Occupants(s)
  IN \E hit \in SUBSET occupants :
       /\ Cardinality(hit) = Lower(wager, Cardinality(occupants))
       /\ \A h \in hit, g \in occupants \ hit : h < g
       /\ conn' = [h \in Hiders |-> IF h \in hit THEN NO_SERVER_ID ELSE conn[h]]
       /\ tokens' = tokens - LostTokens(wager, hit)
       /\ events' = events + 1

\* The wager phase probes connected servers in slot order; a wager is capped
\* by the tokens left, and a capped wager of 0 does nothing.
Probe(s, wager) ==
  /\ step = "seeker" /\ s >= cursor
  /\ s \in mask /\ s \in active
  /\ wager \in 1 .. Lower(MaxWager, tokens)
  /\ applyWager(s, wager)
  /\ cursor' = s + 1
  /\ UNCHANGED <<endVars, revision, ap, loa, active, pool, mask, goals, ringVars, step,
                 callVars, todo, accepted, refused, result>>

\* The close phase returns a token per connection closed; the open phase then
\* opens the best-scored servers, while there are tokens.
MoveConnections(closed, opened) ==
  /\ step = "seeker"
  /\ closed \subseteq mask
  /\ opened \subseteq active \ (mask \ closed)
  /\ Cardinality(opened) <= Lower(OpensPerTick, tokens + Cardinality(closed))
  /\ mask' = (mask \ closed) \cup opened
  /\ tokens' = (tokens + Cardinality(closed)) - Cardinality(opened)
  /\ step' = "end"
  /\ UNCHANGED <<endVars, revision, hiderVars, active, pool, goals, ringVars, callVars,
                 tickVars, events, result>>

HidersLost == pool = 0 /\ Connected = {}
SeekerLost == tokens = 0 /\ mask = {}

\* (mutant) the hiders' loss is looked at before their reward
SeekerFirst ==
  IF HidersLost THEN "SEEKER"
  ELSE IF teamReward >= RewardTarget \/ SeekerLost THEN "HIDERS" ELSE "NONE"

Decision ==
  IF teamReward >= RewardTarget THEN "HIDERS"
  ELSE IF HidersLost THEN "SEEKER"
  ELSE IF SeekerLost THEN "HIDERS" ELSE "NONE"

checkMatchEnd ==
  /\ step = "end"
  /\ winner' = Decision
  /\ phase' = IF Decision = "NONE" THEN phase ELSE "COMPLETE"
  /\ step' = "settle"
  /\ UNCHANGED <<revision, ruleVars, ringVars, callVars, tickVars, events, result>>

-----------------------------------------------------------------------------
(* After a tick: the ring, the trigger, and whether the loop goes on.      *)

\* Applied and refused moves leave the ring; unaffordable ones stay.
compactPending == pending' = pending \ (accepted \cup refused)

Return(status, reason) ==
  /\ result' = Result(status, reason)
  /\ revision' = revision + 1
  /\ step' = "idle" /\ trigger' = NoMove /\ ticksLeft' = 0 /\ spenders' = {}
  /\ todo' = {} /\ accepted' = {} /\ refused' = {} /\ cursor' = 0
  /\ events' = 0

\* (mutant) the loop gives up one tick early
OneTickShort == ticksLeft <= 1

BudgetSpent == ticksLeft = 0

HasTrigger == trigger # NoMove
Waiting == trigger \notin accepted \cup refused

Settle ==
  /\ step = "settle"
  /\ compactPending
  /\ \/ HasTrigger /\ trigger \in accepted /\ Return("APPLIED", "NONE")
     \/ HasTrigger /\ trigger \in refused /\ Return("CANCELLED", "RULE_REJECTED")
     \/ /\ Waiting /\ phase = "COMPLETE"
        /\ Return(IF HasTrigger THEN "CANCELLED" ELSE "APPLIED", "MATCH_NOT_ACTIVE")
     \/ /\ Waiting /\ phase = "ACTIVE" /\ BudgetSpent
        /\ IF HasTrigger THEN Return("CANCELLED", "ADVANCE_LIMIT") ELSE Return("APPLIED", "NONE")
     \/ /\ Waiting /\ phase = "ACTIVE" /\ ~ BudgetSpent
        /\ step' = "tick"
        /\ spenders' = spenders \cup {m.hider : m \in accepted}
        /\ accepted' = {} /\ refused' = {} /\ cursor' = 0
        /\ UNCHANGED <<revision, trigger, ticksLeft, todo, events, result>>
  /\ UNCHANGED <<endVars, ruleVars, nextSeq>>

-----------------------------------------------------------------------------
PlayOrQueue(m) ==
  \/ applyNow(m)
  \/ RejectIllegal(m)
  \/ playMoveLater(m)
  \/ queueMoveLater(m)

Call ==
  \/ \E h \in Hiders, kind \in Kinds, s \in Servers : PlayOrQueue(Submitted(h, kind, s))
  \/ \E ticks \in 0 .. MaxAdvance + 1 : passTicks(ticks)
  \/ \E h \in Hiders, seq \in 0 .. nextSeq : cancelPendingMove(h, seq)
  \/ RejectNotActive

Advance ==
  \/ BeginTick
  \/ \E m \in todo : Dispatch(m)
  \/ BeginSeeker
  \/ \E s \in Servers, wager \in 1 .. MaxWager : Probe(s, wager)
  \/ \E closed \in SUBSET mask, opened \in SUBSET active : MoveConnections(closed, opened)
  \/ checkMatchEnd
  \/ Settle

Next == Call \/ Advance

Spec == Init /\ [][Next]_vars

\* A call that started runs to its end: the engine is straight-line code with
\* bounded loops, called on one thread that nothing preempts for good.
FairSpec == Spec /\ WF_vars(Advance)

-----------------------------------------------------------------------------
(* Properties.                                                             *)

\* Nothing refers to a server that was removed: hiders rest on active servers
\* (REMOVE_SERVER relocates its occupants), the seeker is connected to active
\* servers, and a goal on a removed server is cancelled for good.
NoDanglingServer ==
  /\ \A h \in Connected : conn[h] \in active
  /\ mask \subseteq active
  /\ \A g \in MetricGoals : goals[g] # "CANCELLED" => GOAL_SERVER \in active

\* A queued move never sits in the ring while its hider could pay for it: it is
\* tried on every tick, right after the only step that adds action points.
PendingUnaffordable ==
  step = "idle" => \A m \in pending : Unaffordable(m, ap[m.hider])

\* The ring never outgrows its array nor a hider's share of it, and submit_seq
\* orders the moves in it without ties.
RingBounded ==
  /\ Cardinality(pending) <= RingCap
  /\ \A h \in Hiders : Cardinality(PendingOf(h)) <= HiderQuota
  /\ \A m \in pending : m.seq < nextSeq
  /\ \A m, n \in pending : m.seq = n.seq => m = n

\* "If the move is affordable now, apply it, then resolve goal qualification,
\* rewards, and end conditions" (hider-seeker-complete-design.md:214): a match at
\* rest that is still ACTIVE is undecided.  The code disagrees: a move applied at
\* once resolves its goal and pays its reward, and looks for no end
\* (turn_engine.cpp:109-116).
UndecidedWhileActive ==
  step = "idle" /\ phase = "ACTIVE" =>
    ~ HidersLost /\ ~ SeekerLost /\ teamReward < RewardTarget

\* What the code does keep: a tick does not leave a decided match ACTIVE, and no
\* move applied between ticks can exhaust a side, so that what may wait for the
\* next tick's end is the hiders' victory and nothing else.
OnlyVictoryWaits ==
  phase = "ACTIVE" =>
    /\ step \in {"settle", "idle"} => ~ HidersLost /\ ~ SeekerLost
    /\ step = "settle" => teamReward < RewardTarget

\* The recorded winner is the one the final state of the match names.
WinnerJustified ==
  phase = "COMPLETE" =>
    \/ winner = "SEEKER" /\ HidersLost /\ teamReward < RewardTarget
    \/ winner = "HIDERS" /\ (teamReward >= RewardTarget \/ (SeekerLost /\ ~ HidersLost))

\* TurnResult::publicEvents, sized for one tick, holds the public events of a
\* whole call, up to MAX_ADVANCE_TICKS ticks of them: none is dropped.
NoEventLost == events <= EventCap

\* What is queued and what is told fits the arrays it is kept in, which the code
\* sizes by other limits than those it enforces (turn_engine.cpp:187, 325).
BuffersSuffice == RingBounded /\ NoEventLost

\* A match ends for the side the rules name, at the end of the first tick that finds
\* it decided: the end is only looked for there, in a fixed order
\* (match_end.cpp:13-43).
EndIsJustified == OnlyVictoryWaits /\ WinnerJustified

\* ADVANCE_LIMIT is only reported when an earlier pending move of the same
\* hider spent the points the triggering move was waiting for.
AdvanceLimitOnlyWhenOutspent ==
  [][result'.reason = "ADVANCE_LIMIT" /\ step # "idle" =>
       trigger.hider \in spenders \cup {m.hider : m \in accepted}]_vars

\* The end condition "no token and no open connection" of checkMatchEnd never
\* becomes true: a wager needs an open connection, which outlives the wager
\* phase and gives its token back when it closes, so the last one is never lost.
SeekerNeverExhausted == tokens > 0 \/ mask # {}

\* The connection contest as this match plays it.
Contest == INSTANCE ConnectionContest WITH
  HiderBudget <- PoolPerHider * HiderCount,
  SeekerBudget <- SeekerTokens,
  over <- phase = "COMPLETE",
  victor <- winner,
  hiderBudget <- pool + Cardinality(Connected),
  seekerBudget <- tokens + Cardinality(mask)

\* Every step of the engine is a step of the contest or leaves it alone: only
\* probes destroy connections and tokens, whatever moves are made and however
\* hiders, servers and open connections come and go.
PlaysContest == Contest!ContestSpec

\* An advancing call returns.  A match at rest is not lost while it is active, so
\* a call in which the hiders lose their last connection ends the match.
CallReturns == step # "idle" ~> step = "idle"

=============================================================================
