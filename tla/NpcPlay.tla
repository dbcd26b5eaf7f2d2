------------------------------- MODULE NpcPlay -------------------------------
(***************************************************************************)
(* A hider-seeker match with NPC hiders: the people's calls, the ticks a   *)
(* PASS runs, and after each call the round in which every NPC reads its   *)
(* view and queues at most one move (runNpcRound).  Where TurnEngine leaves *)
(* the server metrics out, this module has them, with the numbers of       *)
(* HiderAction.enum and ServerMetric.enum: what an NPC does depends on them.*)
(*                                                                         *)
(* A match here is served one request at a time; that other requests come  *)
(* between an NPC's reading and its move is MatchService's subject.  The   *)
(* seeker may wager on any server at the end of a tick.  A person's PLAY   *)
(* is a PASS and a move in one call, and is left to TurnEngine.            *)
(***************************************************************************)
EXTENDS Ruleset

CONSTANTS
  Npcs,         \* the slots bound to npc_<k>
  RingCap,      \* MAX_PENDING_MOVES
  HiderQuota,   \* PLACEHOLDER_MAX_PENDING_PER_HIDER
  LongPass,     \* the ticks of a person's longer PASS
  MaxMeddling   \* bound of the model: wagers, longer PASSes and moves queued by people

ASSUME NpcAssumption ==
  /\ Slots \subseteq Nat /\ IsFiniteSet(Slots) /\ Npcs \subseteq Slots /\ DOMAIN Accounts = Slots
  /\ NumServers \in Nat /\ NumServers <= NO_SERVER_ID /\ Cardinality(Slots) <= NumServers
  /\ RingCap \in Nat /\ HiderQuota \in Nat
  /\ LongPass \in 1 .. 16 /\ MaxMeddling \in Nat

VARIABLES
  st,         \* the MatchState
  step,       \* "idle", "tick" in a PASS, "answer" after a call, "round" in an NPC round
  ticksLeft,  \* ticks the PASS in progress may still run
  report,     \* what its TurnResult lists: moves pending before, applied, cancelled
  round,      \* NPC slots still to move in the round
  alone,      \* from here on people pass single ticks and the seeker is idle
  meddled     \* wagers and such calls so far

vars == <<st, step, ticksLeft, report, round, alone, meddled>>

NoReport == [before |-> {}, applied |-> {}, cancelled |-> {}]
Ids(moves) == {m.id : m \in Range(moves)}

\* startMatch.
Init ==
  /\ st = [phase |-> "ACTIVE", winner |-> "NONE",
           ap |-> [h \in Slots |-> 0],
           loa |-> [h \in Slots |-> IF isBound(Accounts, h) THEN StartLoa ELSE 0],
           conn |-> [h \in Slots |-> NO_SERVER_ID],
           active |-> 0 .. Cardinality(Slots) - 1,
           metrics |-> [s \in Servers |-> Zeroed],
           goals |-> [g \in {SeededGoals[i].goal_id : i \in DOMAIN SeededGoals} |-> "OPEN"],
           pool |-> PoolPerHider * Cardinality(Slots), pending |-> <<>>, events |-> <<>>]
  /\ step = "answer"
  /\ ticksLeft = 0 /\ report = NoReport /\ round = {}
  /\ alone = FALSE /\ meddled = 0

-----------------------------------------------------------------------------
(* The ring.                                                               *)

\* A queued move is a copy of what was submitted under a fresh id: one that is
\* not pending, which is all the model compares ids with.
Enqueued(s, m) ==
  [s EXCEPT !.pending = Append(@, [m EXCEPT !.id = Min((1 .. RingCap + 1) \ Ids(s.pending))])]

\* The moves that are left without those of the ids, in their order.
Without(moves, ids) ==
  LET kept == InOrder({i \in DOMAIN moves : moves[i].id \notin ids})
  IN [i \in DOMAIN kept |-> moves[kept[i]]]

HasRoom(s, h) ==
  /\ Len(s.pending) < RingCap
  /\ Cardinality({i \in DOMAIN s.pending : s.pending[i].hider = h}) < HiderQuota

\* queueMove: what it leaves of the state; a move refused leaves it all.
queueMove(s, m) ==
  CASE Outcome(s, m) = "ACCEPTED" -> applyTickIntent(s, m)
    [] Outcome(s, m) = "INSUFFICIENT_RESOURCE" /\ HasRoom(s, m.hider) -> Enqueued(s, m)
    [] OTHER -> s

-----------------------------------------------------------------------------
(* A tick.                                                                 *)

\* done collects the moves that were applied and refused those a rule refused;
\* the others stay.
dispatchIntent(acc, m) ==
  CASE Outcome(acc.s, m) = "ACCEPTED" ->
         [acc EXCEPT !.s = applyTickIntent(acc.s, m), !.done = @ \cup {m.id}]
    [] Outcome(acc.s, m) = "INSUFFICIENT_RESOURCE" -> acc
    [] OTHER -> [acc EXCEPT !.refused = @ \cup {m.id}]

\* Pending moves in submit order.
DispatchUpTo(s) ==
  LET after[n \in 0 .. Len(s.pending)] ==
        IF n = 0 THEN [s |-> s, done |-> {}, refused |-> {}]
        ELSE dispatchIntent(after[n - 1], s.pending[n])
  IN after

DispatchAll(s) == DispatchUpTo(s)[Len(s.pending)]

\* A wager of one token on a server: its lowest occupant loses the connection.
Wagered(s, server) ==
  LET hit == Occupants(s, server)
  IN [s EXCEPT !.conn = [h \in Slots |-> IF hit # {} /\ h = Min(hit) THEN NO_SERVER_ID ELSE @[h]],
               !.events = Append(@, [type |-> "SERVER_PROBED", server_id |-> server,
                                     outcome |-> IF hit = {} THEN "MISS" ELSE "HIT"])]

\* checkMatchEnd; the seeker's own ruin, which TurnEngine shows impossible, is left out.
Ended(s) ==
  IF teamReward(s) >= RewardTarget THEN [s EXCEPT !.phase = "COMPLETE", !.winner = "HIDERS"]
  ELSE IF s.pool = 0 /\ \A h \in Slots : s.conn[h] = NO_SERVER_ID
       THEN [s EXCEPT !.phase = "COMPLETE", !.winner = "SEEKER"]
  ELSE s

compactPending(s, done, refused) == [s EXCEPT !.pending = Without(@, done \cup refused)]

\* (mutant) the list of cancelled moves is cleared every tick
ReportLastTick(done, refused) ==
  [report EXCEPT !.applied = @ \cup done, !.cancelled = refused]

Reported(done, refused) ==
  [report EXCEPT !.applied = @ \cup done, !.cancelled = @ \cup refused]

Tick ==
  /\ step = "tick"
  /\ LET acc == DispatchAll(regenerateForTick(st))
         before == driftMetrics(acc.s)
     IN /\ \E s \in {before} \cup (IF alone \/ meddled = MaxMeddling THEN {}
                                   ELSE {Wagered(before, server) : server \in st.active}) :
             /\ st' = compactPending(Ended(s), acc.done, acc.refused)
             /\ meddled' = IF s = before THEN meddled ELSE meddled + 1
        /\ report' = Reported(acc.done, acc.refused)
  /\ ticksLeft' = IF st'.phase = "COMPLETE" THEN 0 ELSE ticksLeft - 1
  /\ step' = IF ticksLeft' = 0 THEN "answer" ELSE "tick"
  /\ UNCHANGED <<round, alone>>

-----------------------------------------------------------------------------
(* The calls of people and the NPC round.                                  *)

\* A PASS; a longer one than a tick counts as a call of its own.
Pass(ticks) ==
  /\ step = "idle" /\ st.phase = "ACTIVE"
  /\ \/ ticks = 1 /\ UNCHANGED meddled
     \/ ticks # 1 /\ ~ alone /\ meddled < MaxMeddling /\ meddled' = meddled + 1
  /\ step' = "tick" /\ ticksLeft' = ticks
  /\ report' = [NoReport EXCEPT !.before = Ids(st.pending)]
  /\ UNCHANGED <<st, round, alone>>

\* A QUEUE; a move that is refused changes nothing and starts no round.
Queue(m) ==
  /\ step = "idle" /\ st.phase = "ACTIVE" /\ ~ alone /\ meddled < MaxMeddling
  /\ st' = queueMove(st, m) /\ st' # st
  /\ meddled' = meddled + 1 /\ step' = "answer"
  /\ report' = [NoReport EXCEPT !.before = Ids(st.pending)]
  /\ UNCHANGED <<ticksLeft, round, alone>>

cancelPendingMove(m) ==
  /\ step = "idle" /\ st.phase = "ACTIVE" /\ ~ alone
  /\ st' = [st EXCEPT !.pending = Without(@, {m.id})]
  /\ step' = "answer"
  /\ report' = [NoReport EXCEPT !.before = Ids(st.pending), !.cancelled = {m.id}]
  /\ UNCHANGED <<ticksLeft, round, alone, meddled>>

\* The response is built (turnBody) and the round begins.
runNpcRound ==
  /\ step = "answer"
  /\ step' = IF st.phase = "ACTIVE" THEN "round" ELSE "idle"
  /\ round' = IF st.phase = "ACTIVE" THEN Npcs ELSE {}
  /\ report' = NoReport
  /\ UNCHANGED <<st, ticksLeft, alone, meddled>>

Submitted(h, choice) == MoveOf(h, choice.kind, choice.server_id)

\* The next NPC, in slot order, reads its view and queues the move it chooses.
NpcTurn ==
  /\ step = "round" /\ round # {}
  /\ round' = round \ {Min(round)}
  /\ \E view \in {buildHiderView(st, Accounts, Min(round))} :
       \E choice \in {chooseHiderMove(view, NumServers)} :
         \/ ~ choice.has_move /\ UNCHANGED st
         \/ choice.has_move /\ st' = queueMove(st, Submitted(Min(round), choice))
  /\ UNCHANGED <<step, ticksLeft, report, alone, meddled>>

RoundOver ==
  /\ step = "round" /\ round = {}
  /\ step' = "idle"
  /\ UNCHANGED <<st, ticksLeft, report, round, alone, meddled>>

\* From some point on, perhaps, nobody interferes any more.
LeaveAlone ==
  /\ step = "idle" /\ ~ alone /\ alone' = TRUE
  /\ UNCHANGED <<st, step, ticksLeft, report, round, meddled>>

People == {h \in Slots \ Npcs : isBound(Accounts, h)}

Advance == Tick \/ runNpcRound \/ NpcTurn \/ RoundOver \/ Pass(1)

Next ==
  \/ Advance
  \/ Pass(LongPass)
  \/ \E h \in People, kind \in Kinds, server \in Servers :
       /\ kind \in {"CONNECT", "REMOVE_SERVER"} \/ server = 0
       /\ Queue(MoveOf(h, kind, IF kind \in {"CONNECT", "REMOVE_SERVER"} THEN server ELSE NO_SERVER_ID))
  \/ \E m \in {p \in Range(st.pending) : p.hider \in People} : cancelPendingMove(m)
  \/ LeaveAlone

Spec == Init /\ [][Next]_vars

\* A call runs to its end and people go on passing ticks: the code never
\* advances time by itself, so nothing at all happens in a match they leave.
\* (This is WF_vars(Advance): Advance is enabled until the match rests completed.)
Patience == []<>(step = "idle" /\ st.phase # "ACTIVE") \/ []<><<Advance>>_vars
FairSpec == Spec /\ Patience

-----------------------------------------------------------------------------
(* Properties.                                                             *)

\* The rules never refuse what an NPC chooses: chooseHiderMove reads only the
\* view, the rules only the state, and each has its own idea of what a hider on
\* a server may do (hider_policy.cpp:208-252, connection_rules.cpp).
ChoicesAreLegal ==
  \A h \in Npcs :
    LET choice == chooseHiderMove(buildHiderView(st, Accounts, h), NumServers)
    IN choice.has_move =>
         Outcome(st, Submitted(h, choice)) \in {"ACCEPTED", "INSUFFICIENT_RESOURCE"}

\* The policy and the ruleset agree, at every state, on which goals can be paid:
\* requirementMet exists twice, over the view's JSON (hider_policy.cpp:9) and
\* over the state (goal_rules.cpp:7).
PolicyAgreesWithRules ==
  \A h \in Npcs :
    LET view == buildHiderView(st, Accounts, h)
    IN {view.goals[i].goal_id : i \in Payable(view)}
         = {SeededGoals[i].goal_id : i \in Completable(st)}

\* The policy, written against the views, knows the rules, written against the
\* state: neither promises nor demands what the other refuses.
PolicyKnowsTheRules == ChoicesAreLegal /\ PolicyAgreesWithRules

\* What a view does not show does not change it: the public view is blind to the
\* hiders' points, LOA and servers, the pool, the ring and the goals, a hider's
\* view to the points and LOA of the others, and both to traces (PROJ-006).
Private(s, h) ==
  {[s EXCEPT !.ap[o] = (@ + 1) % ApCap] : o \in Slots \ {h}}
    \cup {[s EXCEPT !.loa[o] = @ + 1] : o \in Slots \ {h}}
    \cup {[s EXCEPT !.metrics[server].TRACE = MetricMax - @] : server \in Servers}
    \cup {[s EXCEPT !.metrics[server] = [Zeroed EXCEPT !.CPU = MetricMax]] : server \in Servers \ s.active}
Unseen(s) ==
  {[s EXCEPT !.conn[o] = server] : o \in Slots, server \in s.active}
    \cup {[s EXCEPT !.pool = @ + 1], [s EXCEPT !.pending = <<>>],
          [s EXCEPT !.goals = [g \in DOMAIN @ |-> "COMPLETED"]]}
ViewsAreBlind ==
  step = "idle" =>
    /\ \A h \in Slots : \A other \in Private(st, h) :
         buildHiderView(other, Accounts, h) = buildHiderView(st, Accounts, h)
    /\ \A other \in Private(st, NO_SERVER_ID) \cup Unseen(st) :
         buildPublicView(other, Accounts) = buildPublicView(st, Accounts)

\* Every move that was pending before a call is, after it, applied, cancelled
\* with a reason, or still pending.  turnBody computes the cancelled ones as what
\* is left over, and lists reasons from another array (HiderSeekerService.cpp:267).
pendingCancelled == report.before \ (Ids(st.pending) \cup report.applied)
ReportAddsUp ==
  step = "answer" =>
    /\ pendingCancelled = report.cancelled
    /\ report.applied \cap report.cancelled = {}
    /\ Ids(st.pending) \cap (report.applied \cup report.cancelled) = {}

\* The goals an NPC may set out for: open, and feasible by its own estimate, as
\* long as it can reach a server at all.
Wanted(h) ==
  IF st.phase # "ACTIVE" \/ (st.conn[h] = NO_SERVER_ID /\ st.pool = 0) THEN {}
  ELSE UNION {{g.goal_id : g \in Feasible(view, NumServers)} :
                view \in {buildHiderView(st, Accounts, h)}}

GoalsGetPaid(goals) == \A h \in Npcs : alone ~> Wanted(h) \cap goals = {}

\* A goal on a server's CPU or on the number of servers gets paid, once the NPC
\* is left alone, although the metric drifts back while it saves up for the
\* payment and a payment that comes too late is lost.
CheapGoalsGetPaid == GoalsGetPaid({0, 2, 3})

=============================================================================
