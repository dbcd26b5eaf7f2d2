-------------------------- MODULE TurnEngineProofs --------------------------
(***************************************************************************)
(* Theorems about the turn engine, for every number of hiders, servers,    *)
(* goals and tokens, and every size of the ring.                           *)
(***************************************************************************)
EXTENDS TurnEngine, FiniteSetTheorems, TLAPS

USE SlotAssumption, ModeAssumption, BudgetAssumption, GoalAssumption, RingAssumption

\* TypeOK in two parts: what the rules touch, and the rest.
RulesTyped ==
  /\ ap \in [Hiders -> 0 .. ApCap]
  /\ loa \in [Hiders -> Nat]
  /\ conn \in [Hiders -> Servers \cup {NO_SERVER_ID}]
  /\ active \in SUBSET Servers
  /\ pool \in Nat
  /\ tokens \in Nat
  /\ mask \in SUBSET Servers
  /\ goals \in [Goals -> {"OPEN", "COMPLETED", "CANCELLED"}]

CallTyped ==
  /\ phase \in {"ACTIVE", "COMPLETE"}
  /\ winner \in {"NONE", "HIDERS", "SEEKER"}
  /\ revision \in Nat
  /\ pending \in SUBSET Moves /\ IsFiniteSet(pending)
  /\ nextSeq \in Nat
  /\ step \in {"idle", "tick", "intents", "seeker", "end", "settle"}
  /\ trigger \in Moves \cup {NoMove}
  /\ ticksLeft \in 0 .. MaxAdvance
  /\ todo \in SUBSET Moves
  /\ accepted \in SUBSET Moves
  /\ refused \in SUBSET Moves
  /\ cursor \in 0 .. NumServers
  /\ events \in Nat
  /\ spenders \in SUBSET Hiders
  /\ result \in Results

LEMMA TypeParts ==
  /\ TypeOK <=> RulesTyped /\ CallTyped
  /\ TypeOK' <=> RulesTyped' /\ CallTyped'
BY DEF TypeOK, RulesTyped, CallTyped

-----------------------------------------------------------------------------
(* Finite sets of the model.                                               *)

LEMMA ServersFinite == IsFiniteSet(Servers) /\ NumServers \in Nat /\ HiderCount \in Nat
<1>1. NumServers \in Nat /\ HiderCount \in Nat  OBVIOUS
<1>2. IsFiniteSet(Servers)  BY <1>1, FS_Interval DEF Servers
<1> QED BY <1>1, <1>2

LEMMA HidersFinite == IsFiniteSet(Hiders)
<1>1. IsFiniteSet(0 .. HiderCount - 1)  BY FS_Interval
<1> QED BY <1>1, FS_Subset

\* The cardinality of a set of servers, or of hiders, is a natural number.
LEMMA ServerCount ==
  ASSUME NEW S \in SUBSET Servers
  PROVE  IsFiniteSet(S) /\ Cardinality(S) \in Nat /\ (Cardinality(S) = 0 <=> S = {})
<1>1. IsFiniteSet(S)  BY ServersFinite, FS_Subset
<1> QED BY <1>1, FS_CardinalityType, FS_EmptySet

LEMMA HiderSetCount ==
  ASSUME NEW S \in SUBSET Hiders
  PROVE  IsFiniteSet(S) /\ Cardinality(S) \in Nat /\ (Cardinality(S) = 0 <=> S = {})
<1>1. IsFiniteSet(S)  BY HidersFinite, FS_Subset
<1> QED BY <1>1, FS_CardinalityType, FS_EmptySet

-----------------------------------------------------------------------------
(* Type correctness.                                                       *)

LEMMA SubmittedTyped ==
  ASSUME CallTyped, NEW h \in Hiders, NEW kind \in Kinds, NEW s \in Servers
  PROVE  Submitted(h, kind, s) \in Moves
BY DEF CallTyped, Submitted, Moves

\* An applied move leaves well-typed what the rules touch.
LEMMA ApplyTyped ==
  ASSUME RulesTyped, NEW m \in Moves, OutcomeNow(m) = "ACCEPTED", applyTickIntent(m)
  PROVE  RulesTyped'
<1> USE DEF RulesTyped
<1>0. ~ InvalidTarget(m) /\ ~ Unaffordable(m, ap[m.hider]) /\ ~ NoRoom(m)
  BY DEF OutcomeNow, Outcome
<1>h. m.hider \in Hiders /\ ap[m.hider] \in 0 .. ApCap /\ loa[m.hider] \in Nat
  BY DEF Moves
<1>1. CASE applyHiderAction(m)
  <2>1. ApCost[m.kind] \in Nat /\ ap[m.hider] >= ApCost[m.kind]
    BY <1>0, <1>h, <1>1 DEF applyHiderAction, Unaffordable
  <2>2. ap' \in [Hiders -> 0 .. ApCap]  BY <2>1, <1>h, <1>1 DEF applyHiderAction
  <2>3. goals' \in [Goals -> {"OPEN", "COMPLETED", "CANCELLED"}]
    BY <1>1 DEF applyHiderAction, Completable, Goals
  <2> QED BY <2>2, <2>3, <1>1 DEF applyHiderAction, seekerVars
<1>2. CASE applyAddServer(m)
  <2>1. loa[m.hider] >= 1  BY <1>0, <1>h, <1>2 DEF applyAddServer, Unaffordable
  <2>2. loa' \in [Hiders -> Nat]  BY <2>1, <1>h, <1>2 DEF applyAddServer
  <2> QED BY <2>2, <1>2 DEF applyAddServer, seekerVars
<1>3. CASE applyRemoveServer(m)
  <2>1. loa[m.hider] >= 1  BY <1>0, <1>h, <1>3 DEF applyRemoveServer, Unaffordable
  <2>2. loa' \in [Hiders -> Nat]  BY <2>1, <1>h, <1>3 DEF applyRemoveServer
  <2>3. active' \in SUBSET Servers  BY <1>3 DEF applyRemoveServer
  <2>4. conn' \in [Hiders -> Servers \cup {NO_SERVER_ID}]
    BY <2>3, <1>3 DEF applyRemoveServer, Occupants
  <2>5. /\ tokens' \in Nat
        /\ mask' \in SUBSET Servers
        /\ goals' \in [Goals -> {"OPEN", "COMPLETED", "CANCELLED"}]
    BY <1>3 DEF applyRemoveServer, invalidateServerReferences
  <2> QED BY <2>2, <2>3, <2>4, <2>5, <1>3 DEF applyRemoveServer
<1>4. CASE applyConnect(m)
  <2>1. pool # 0 /\ m.server \in active  BY <1>0, <1>4 DEF applyConnect, NoRoom, InvalidTarget
  <2>2. pool' \in Nat  BY <2>1, <1>4 DEF applyConnect
  <2>3. conn' \in [Hiders -> Servers \cup {NO_SERVER_ID}]  BY <2>1, <1>4 DEF applyConnect
  <2> QED BY <2>2, <2>3, <1>4 DEF applyConnect, seekerVars
<1>5. CASE applyDisconnect(m)
  <2>1. pool' \in Nat  BY <1>5 DEF applyDisconnect
  <2>2. conn' \in [Hiders -> Servers \cup {NO_SERVER_ID}]  BY <1>5 DEF applyDisconnect
  <2> QED BY <2>1, <2>2, <1>5 DEF applyDisconnect, seekerVars
<1> QED BY <1>1, <1>2, <1>3, <1>4, <1>5 DEF applyTickIntent

\* What a probe does to the seeker's tokens: it costs at most the wager.
LEMMA WagerBound ==
  ASSUME RulesTyped, NEW s \in Servers, NEW wager \in 1 .. Lower(MaxWager, tokens),
         applyWager(s, wager)
  PROVE  /\ tokens' \in Nat /\ tokens - tokens' \in 0 .. wager
         /\ conn' \in [Hiders -> Servers \cup {NO_SERVER_ID}]
         /\ events' = events + 1
<1>1. PICK hit \in SUBSET Occupants(s) :
        /\ Cardinality(hit) = Lower(wager, Cardinality(Occupants(s)))
        /\ conn' = [h \in Hiders |-> IF h \in hit THEN NO_SERVER_ID ELSE conn[h]]
        /\ tokens' = tokens - LostTokens(wager, hit)
        /\ events' = events + 1
  BY DEF applyWager
<1>2. Cardinality(Occupants(s)) \in Nat  BY HiderSetCount DEF Occupants
<1>3. Cardinality(hit) \in 0 .. wager  BY <1>1, <1>2 DEF Lower, RulesTyped
<1>4. tokens \in Nat /\ wager \in Nat /\ wager <= tokens  BY DEF Lower, RulesTyped
<1>5. LostTokens(wager, hit) \in 0 .. wager  BY <1>3, <1>4 DEF LostTokens
<1>6. tokens' = tokens - LostTokens(wager, hit)  BY <1>1
<1>7. tokens' \in Nat /\ tokens - tokens' \in 0 .. wager  BY <1>4, <1>5, <1>6
<1>8. conn' \in [Hiders -> Servers \cup {NO_SERVER_ID}]  BY <1>1 DEF RulesTyped
<1> QED BY <1>1, <1>7, <1>8

\* What the close and open phases do to the seeker's tokens.
LEMMA ConnectionsBound ==
  ASSUME RulesTyped, NEW closed \in SUBSET mask, NEW opened \in SUBSET active,
         MoveConnections(closed, opened)
  PROVE  /\ tokens' \in Nat /\ mask' \in SUBSET Servers
         /\ opened = {} => tokens' = tokens + Cardinality(closed)
<1>1. closed \in SUBSET Servers /\ opened \in SUBSET Servers  BY DEF RulesTyped
<1>2. Cardinality(closed) \in Nat /\ Cardinality(opened) \in Nat  BY <1>1, ServerCount
<1>3. Cardinality(opened) <= tokens + Cardinality(closed)
  BY <1>2 DEF MoveConnections, Lower, RulesTyped
<1>4. tokens' = (tokens + Cardinality(closed)) - Cardinality(opened)  BY DEF MoveConnections
<1>5. tokens' \in Nat  BY <1>2, <1>3, <1>4 DEF RulesTyped
<1>6. mask' \in SUBSET Servers  BY <1>1 DEF MoveConnections, RulesTyped
<1>7. ASSUME opened = {} PROVE tokens' = tokens + Cardinality(closed)
  BY <1>2, <1>4, <1>7, FS_EmptySet DEF RulesTyped
<1> QED BY <1>5, <1>6, <1>7

LEMMA ResultTyped ==
  /\ NoResult \in Results
  /\ \A status \in Statuses, reason \in Reasons : Result(status, reason) \in Results
BY DEF NoResult, Result, Results, Statuses, Reasons

LEMMA RulesUnchanged == RulesTyped /\ UNCHANGED ruleVars => RulesTyped'
BY DEF RulesTyped, ruleVars, seekerVars

\* A call that advances no tick only moves the revision, the ring and the result.
LEMMA AtRestTyped ==
  ASSUME CallTyped, AtRest, revision' \in Nat, nextSeq' \in Nat, result' \in Results,
         pending' \in SUBSET Moves, IsFiniteSet(pending')
  PROVE  CallTyped'
BY DEF CallTyped, AtRest, endVars, callVars, tickVars

LEMMA RejectTyped ==
  ASSUME TypeOK, NEW reason \in Reasons, Reject(reason)
  PROVE  TypeOK'
<1>1. result' \in Results  BY ResultTyped DEF Reject, Statuses
<1>2. RulesTyped'  BY RulesUnchanged, TypeParts DEF Reject
<1>3. pending' = pending /\ nextSeq' = nextSeq /\ revision' = revision  BY DEF Reject, ringVars
<1>4. CallTyped'  BY <1>1, <1>3, AtRestTyped, TypeParts DEF Reject, CallTyped
<1> QED BY <1>2, <1>4, TypeParts

LEMMA CommitTyped ==
  ASSUME CallTyped, NEW status \in Statuses, Commit(status)
  PROVE  revision' \in Nat /\ result' \in Results
BY ResultTyped DEF Commit, CallTyped, Reasons

LEMMA StartAdvanceTyped ==
  ASSUME TypeOK, NEW move \in Moves \cup {NoMove}, NEW budget \in 0 .. MaxAdvance,
         StartAdvance(move, budget)
  PROVE  TypeOK'
<1>1. RulesTyped'  BY RulesUnchanged, TypeParts DEF StartAdvance
<1>2. CallTyped'
  BY ResultTyped, TypeParts DEF StartAdvance, CallTyped, endVars, ringVars, tickVars
<1> QED BY <1>1, <1>2, TypeParts

LEMMA TypeInit == Init => TypeOK
<1> SUFFICES ASSUME Init PROVE TypeOK  OBVIOUS
<1>1. active \in SUBSET Servers  BY ServersFinite DEF Init, Servers
<1>2. pool \in Nat  BY DEF Init
<1>3. RulesTyped  BY <1>1, <1>2, ServersFinite DEF Init, RulesTyped
<1>4. CallTyped  BY ServersFinite, FS_EmptySet, ResultTyped DEF Init, CallTyped
<1> QED BY <1>3, <1>4, TypeParts

\* The calls, one by one.  m is a move as a client submits it.
LEMMA TypeOfMoveCall ==
  ASSUME TypeOK, NEW m \in Moves, PlayOrQueue(m)
  PROVE  TypeOK'
<1> USE TypeParts
<1>1. CASE applyNow(m)
  <2>1. RulesTyped'  BY <1>1, ApplyTyped DEF applyNow
  <2>2. pending' = pending /\ nextSeq' = nextSeq  BY <1>1 DEF applyNow, ringVars
  <2>3. revision' \in Nat /\ result' \in Results  BY <1>1, CommitTyped DEF applyNow, Statuses
  <2>4. CallTyped'  BY <1>1, <2>2, <2>3, AtRestTyped DEF applyNow, CallTyped
  <2> QED BY <2>1, <2>4
<1>2. CASE RejectIllegal(m)
  BY <1>2, RejectTyped DEF RejectIllegal, Reasons
<1>3. CASE playMoveLater(m)
  <2>1. MaxAdvance \in 0 .. MaxAdvance  OBVIOUS
  <2> QED BY <1>3, <2>1, RejectTyped, StartAdvanceTyped DEF playMoveLater, Reasons
<1>4. CASE queueMoveLater(m)
  <2>1. CASE Reject("QUEUE_FULL") \/ Reject("HIDER_QUEUE_LIMIT")
    BY <2>1, RejectTyped DEF Reasons
  <2>2. CASE /\ pending' = pending \cup {m}
             /\ nextSeq' = nextSeq + 1
             /\ Commit("QUEUED")
             /\ UNCHANGED ruleVars
             /\ AtRest
    <3>1. RulesTyped'  BY <2>2, RulesUnchanged
    <3>2. pending' \in SUBSET Moves /\ IsFiniteSet(pending')  BY <2>2, FS_AddElement DEF CallTyped
    <3>3. nextSeq' \in Nat  BY <2>2 DEF CallTyped
    <3>4. revision' \in Nat /\ result' \in Results  BY <2>2, CommitTyped DEF Statuses
    <3>5. CallTyped'  BY <2>2, <3>2, <3>3, <3>4, AtRestTyped
    <3> QED BY <3>1, <3>5
  <2> QED BY <1>4, <2>1, <2>2 DEF queueMoveLater
<1> QED BY <1>1, <1>2, <1>3, <1>4 DEF PlayOrQueue

LEMMA TypeOfCall == TypeOK /\ Call => TypeOK'
<1> SUFFICES ASSUME TypeOK, Call PROVE TypeOK'  OBVIOUS
<1> USE TypeParts
<1>1. ASSUME NEW h \in Hiders, NEW kind \in Kinds, NEW s \in Servers,
             PlayOrQueue(Submitted(h, kind, s))
      PROVE  TypeOK'
  BY <1>1, SubmittedTyped, TypeOfMoveCall
<1>2. ASSUME NEW ticks \in 0 .. MaxAdvance + 1, passTicks(ticks) PROVE TypeOK'
  BY <1>2, RejectTyped, StartAdvanceTyped DEF passTicks, Reasons
<1>3. ASSUME NEW h \in Hiders, NEW seq \in 0 .. nextSeq, cancelPendingMove(h, seq) PROVE TypeOK'
  <2> DEFINE own == {p \in pending : p.hider = h /\ p.seq = seq}
  <2>1. CASE Reject("NOT_FOUND")  BY <2>1, RejectTyped DEF Reasons
  <2>2. CASE /\ pending' = pending \ own
             /\ Commit("CANCELLED")
             /\ UNCHANGED <<ruleVars, nextSeq>>
             /\ AtRest
    <3>1. RulesTyped'  BY <2>2, RulesUnchanged
    <3>2. pending' \in SUBSET pending  BY <2>2
    <3>3. pending' \in SUBSET Moves /\ IsFiniteSet(pending')  BY <3>2, FS_Subset DEF CallTyped
    <3>4. revision' \in Nat /\ result' \in Results  BY <2>2, CommitTyped DEF Statuses
    <3>5. CallTyped'  BY <2>2, <3>3, <3>4, AtRestTyped DEF CallTyped
    <3> QED BY <3>1, <3>5
  <2> QED BY <1>3, <2>1, <2>2 DEF cancelPendingMove
<1>4. ASSUME RejectNotActive PROVE TypeOK'
  BY <1>4, RejectTyped DEF RejectNotActive, Reasons
<1> QED BY <1>1, <1>2, <1>3, <1>4 DEF Call

-----------------------------------------------------------------------------
(* The steps of the advance loop.                                          *)

LEMMA CandidatesTyped == CallTyped => Candidates \in SUBSET Moves
BY DEF CallTyped, Candidates

LEMMA ReturnTyped ==
  ASSUME TypeOK, NEW status \in Statuses, NEW reason \in Reasons,
         Settle, Return(status, reason)
  PROVE  TypeOK'
<1> USE TypeParts
<1>1. RulesTyped'  BY RulesUnchanged DEF Settle
<1>2. pending' \in SUBSET pending  BY DEF Settle, compactPending
<1>3. pending' \in SUBSET Moves /\ IsFiniteSet(pending')  BY <1>2, FS_Subset DEF CallTyped
<1>4. result' \in Results  BY ResultTyped DEF Return
<1>5. CallTyped'  BY <1>3, <1>4, ServersFinite DEF Settle, Return, endVars, CallTyped
<1> QED BY <1>1, <1>5

LEMMA TypeOfAdvance == TypeOK /\ Advance => TypeOK'
<1> SUFFICES ASSUME TypeOK, Advance PROVE TypeOK'  OBVIOUS
<1> USE TypeParts
<1>1. CASE BeginTick
  <2>1. ap' \in [Hiders -> 0 .. ApCap]
    <3>1. \A n \in 0 .. ApCap : SaturatingAdd(n, ApRegen, ApCap) \in 0 .. ApCap
      BY DEF SaturatingAdd, Lower
    <3> QED BY <1>1, <3>1 DEF BeginTick, RulesTyped
  <2>2. RulesTyped'  BY <1>1, <2>1 DEF BeginTick, RulesTyped, seekerVars
  <2>3. ticksLeft' \in 0 .. MaxAdvance  BY <1>1 DEF BeginTick, CallTyped
  <2>4. todo' \in SUBSET Moves  BY <1>1, CandidatesTyped DEF BeginTick
  <2>5. 0 \in 0 .. NumServers  BY ServersFinite
  <2>6. CallTyped'
    BY <1>1, <2>3, <2>4, <2>5 DEF BeginTick, CallTyped, endVars, ringVars
  <2> QED BY <2>2, <2>6
<1>2. ASSUME NEW m \in todo, Dispatch(m) PROVE TypeOK'
  <2>1. m \in Moves  BY DEF CallTyped
  <2>2. RulesTyped'
    BY <1>2, <2>1, ApplyTyped, RulesUnchanged DEF Dispatch
  <2>3. /\ todo' \in SUBSET Moves /\ accepted' \in SUBSET Moves /\ refused' \in SUBSET Moves
        /\ events' \in Nat
    BY <1>2, <2>1 DEF Dispatch, Dispatched, Emitted, CallTyped
  <2>4. CallTyped'
    BY <1>2, <2>3 DEF Dispatch, CallTyped, endVars, ringVars, callVars
  <2> QED BY <2>2, <2>4
<1>3. CASE BeginSeeker
  <2>1. RulesTyped'  BY <1>3, RulesUnchanged DEF BeginSeeker
  <2>2. CallTyped'
    BY <1>3 DEF BeginSeeker, CallTyped, endVars, ringVars, callVars, tickVars
  <2> QED BY <2>1, <2>2
<1>4. ASSUME NEW s \in Servers, NEW wager \in 1 .. MaxWager, Probe(s, wager) PROVE TypeOK'
  <2>1. tokens' \in Nat /\ conn' \in [Hiders -> Servers \cup {NO_SERVER_ID}] /\ events' = events + 1
    BY <1>4, WagerBound DEF Probe
  <2>2. RulesTyped'  BY <1>4, <2>1 DEF Probe, RulesTyped
  <2>3. cursor' \in 0 .. NumServers  BY <1>4, ServersFinite DEF Probe, Servers
  <2>4. CallTyped'
    BY <1>4, <2>1, <2>3 DEF Probe, CallTyped, endVars, ringVars, callVars
  <2> QED BY <2>2, <2>4
<1>5. ASSUME NEW closed \in SUBSET mask, NEW opened \in SUBSET active,
             MoveConnections(closed, opened)
      PROVE  TypeOK'
  <2>1. tokens' \in Nat /\ mask' \in SUBSET Servers  BY <1>5, ConnectionsBound
  <2>2. RulesTyped'  BY <1>5, <2>1 DEF MoveConnections, RulesTyped, hiderVars
  <2>3. CallTyped'
    BY <1>5 DEF MoveConnections, CallTyped, endVars, ringVars, callVars, tickVars
  <2> QED BY <2>2, <2>3
<1>6. CASE checkMatchEnd
  <2>1. RulesTyped'  BY <1>6, RulesUnchanged DEF checkMatchEnd
  <2>2. CallTyped'
    BY <1>6 DEF checkMatchEnd, Decision, CallTyped, ringVars, callVars, tickVars
  <2> QED BY <2>1, <2>2
<1>7. CASE Settle
  <2>1. ASSUME NEW status \in Statuses, NEW reason \in Reasons, Return(status, reason)
        PROVE  TypeOK'
    BY <1>7, <2>1, ReturnTyped
  <2>2. CASE step' = "tick"
    <3>1. RulesTyped'  BY <1>7, RulesUnchanged DEF Settle
    <3>2. pending' \in SUBSET pending  BY <1>7 DEF Settle, compactPending
    <3>3. pending' \in SUBSET Moves /\ IsFiniteSet(pending')  BY <3>2, FS_Subset DEF CallTyped
    <3>4. spenders' \in SUBSET Hiders
      <4>1. {m.hider : m \in accepted} \in SUBSET Hiders  BY DEF CallTyped, Moves
      <4> QED BY <1>7, <2>2, <4>1 DEF Settle, Return, CallTyped
    <3>5. CallTyped'
      BY <1>7, <2>2, <3>3, <3>4, ServersFinite DEF Settle, Return, CallTyped, endVars
    <3> QED BY <3>1, <3>5
  <2> QED BY <1>7, <2>1, <2>2 DEF Settle, Statuses, Reasons
<1> QED BY <1>1, <1>2, <1>3, <1>4, <1>5, <1>6, <1>7 DEF Advance

LEMMA TypeStep == TypeOK /\ [Next]_vars => TypeOK'
<1>1. TypeOK /\ UNCHANGED vars => TypeOK'
  BY DEF TypeOK, vars, endVars, ruleVars, seekerVars, ringVars, callVars, tickVars
<1> QED BY <1>1, TypeOfCall, TypeOfAdvance DEF Next

\* In every reachable state of a match, with any number of hiders, servers and
\* goals, the variables have their types: no budget of hiderState, seekerState
\* or the shared pool, all unsigned in the code, is ever driven below zero.
THEOREM TypeCorrect == Spec => []TypeOK
BY TypeInit, TypeStep, PTL DEF Spec

-----------------------------------------------------------------------------
(* The board: servers, hiders' connections, the seeker's connections and   *)
(* tokens, and goals.                                                      *)

Applies(m) == OutcomeNow(m) = "ACCEPTED" /\ applyTickIntent(m)
Probes == \E s \in Servers, wager \in 1 .. MaxWager : Probe(s, wager)
Reconnects == \E closed \in SUBSET mask, opened \in SUBSET active : MoveConnections(closed, opened)

\* Only four kinds of step change the board or the budgets.
LEMMA BoardSteps ==
  ASSUME TypeOK, [Next]_vars
  PROVE  \/ UNCHANGED <<loa, conn, active, pool, tokens, mask, goals>>
         \/ \E m \in Moves : Applies(m)
         \/ Probes
         \/ Reconnects
<1> DEFINE Goal == \/ UNCHANGED <<loa, conn, active, pool, tokens, mask, goals>>
                   \/ \E m \in Moves : Applies(m)
                   \/ Probes
                   \/ Reconnects
<1>u. UNCHANGED ruleVars => Goal  BY DEF ruleVars, seekerVars
<1>r. ASSUME NEW reason, Reject(reason) PROVE Goal  BY <1>r, <1>u DEF Reject
<1>1. CASE UNCHANGED vars  BY <1>1, <1>u DEF vars
<1>2. ASSUME NEW h \in Hiders, NEW kind \in Kinds, NEW s \in Servers,
             PlayOrQueue(Submitted(h, kind, s))
      PROVE  Goal
  <2>1. Submitted(h, kind, s) \in Moves  BY SubmittedTyped, TypeParts
  <2>2. CASE applyNow(Submitted(h, kind, s))  BY <2>1, <2>2 DEF applyNow, Applies
  <2>3. CASE RejectIllegal(Submitted(h, kind, s))  BY <2>3, <1>r DEF RejectIllegal
  <2>4. CASE playMoveLater(Submitted(h, kind, s))
    BY <2>4, <1>r, <1>u DEF playMoveLater, StartAdvance
  <2>5. CASE queueMoveLater(Submitted(h, kind, s))  BY <2>5, <1>r, <1>u DEF queueMoveLater
  <2> QED BY <1>2, <2>2, <2>3, <2>4, <2>5 DEF PlayOrQueue
<1>3. ASSUME NEW ticks, passTicks(ticks) PROVE Goal
  BY <1>3, <1>r, <1>u DEF passTicks, StartAdvance
<1>4. ASSUME NEW h, NEW seq, cancelPendingMove(h, seq) PROVE Goal
  BY <1>4, <1>r, <1>u DEF cancelPendingMove
<1>5. CASE RejectNotActive  BY <1>5, <1>r DEF RejectNotActive
<1>6. CASE BeginTick  BY <1>6 DEF BeginTick, seekerVars
<1>7. ASSUME NEW m \in todo, Dispatch(m) PROVE Goal
  BY <1>7, <1>u DEF Dispatch, Applies, TypeOK
<1>8. CASE BeginSeeker \/ checkMatchEnd \/ Settle
  BY <1>8, <1>u DEF BeginSeeker, checkMatchEnd, Settle
<1>9. CASE Probes \/ Reconnects  BY <1>9
<1> QED BY <1>1, <1>2, <1>3, <1>4, <1>5, <1>6, <1>7, <1>8, <1>9
        DEF Next, Call, Advance, Probes, Reconnects

LEMMA DanglingStep == TypeOK /\ NoDanglingServer /\ [Next]_vars => NoDanglingServer'
<1> SUFFICES ASSUME TypeOK, NoDanglingServer, [Next]_vars PROVE NoDanglingServer'  OBVIOUS
<1> USE DEF NoDanglingServer, Connected
<1>0. /\ conn \in [Hiders -> Servers \cup {NO_SERVER_ID}]
      /\ goals \in [Goals -> {"OPEN", "COMPLETED", "CANCELLED"}]
      /\ MetricGoals \subseteq Goals
  BY DEF TypeOK, Goals
<1>1. CASE UNCHANGED <<loa, conn, active, pool, tokens, mask, goals>>  BY <1>1
<1>2. ASSUME NEW m \in Moves, Applies(m) PROVE NoDanglingServer'
  <2>0. ~ InvalidTarget(m) /\ m.hider \in Hiders
    BY <1>2 DEF Applies, OutcomeNow, Outcome, Moves
  <2>1. CASE applyHiderAction(m)
    <3>1. \A g \in MetricGoals : goals'[g] # "CANCELLED" => goals[g] # "CANCELLED"
      BY <2>1, <1>0 DEF applyHiderAction, Completable
    <3> QED BY <2>1, <3>1 DEF applyHiderAction, seekerVars
  <2>2. CASE applyAddServer(m)  BY <2>2 DEF applyAddServer, seekerVars
  <2>3. CASE applyRemoveServer(m)
    <3>1. \A h \in Hiders : conn'[h] # NO_SERVER_ID => conn'[h] \in active'
      BY <2>3, <1>0 DEF applyRemoveServer, Occupants
    <3>2. mask' \subseteq active'
      BY <2>3 DEF applyRemoveServer, invalidateServerReferences
    <3>3. \A g \in MetricGoals : goals'[g] # "CANCELLED" => GOAL_SERVER \in active'
      BY <2>3, <1>0 DEF applyRemoveServer, invalidateServerReferences
    <3> QED BY <3>1, <3>2, <3>3
  <2>4. CASE applyConnect(m)
    <3>1. m.server \in active  BY <2>0, <2>4 DEF applyConnect, InvalidTarget
    <3> QED BY <2>4, <2>0, <3>1, <1>0 DEF applyConnect, seekerVars
  <2>5. CASE applyDisconnect(m)  BY <2>5, <2>0, <1>0 DEF applyDisconnect, seekerVars
  <2> QED BY <1>2, <2>1, <2>2, <2>3, <2>4, <2>5 DEF Applies, applyTickIntent
<1>3. CASE Probes
  <2>1. UNCHANGED <<active, mask, goals>>  BY <1>3 DEF Probes, Probe
  <2>2. \A h \in Hiders : conn'[h] # NO_SERVER_ID => conn'[h] = conn[h]
    BY <1>3, <1>0 DEF Probes, Probe, applyWager
  <2> QED BY <2>1, <2>2
<1>4. CASE Reconnects
  BY <1>4 DEF Reconnects, MoveConnections, hiderVars
<1> QED BY <1>1, <1>2, <1>3, <1>4, BoardSteps

\* Whatever servers come and go, no hider, no seeker connection and no open goal
\* refers to a server that is not there (loa_rules.cpp, invalidateServerReferences).
THEOREM NothingDangles == Spec => []NoDanglingServer
<1>1. Init => NoDanglingServer
  <2>1. HiderCount \in Nat \ {0}  OBVIOUS
  <2>2. 0 \in 0 .. HiderCount - 1  BY <2>1
  <2> QED BY <2>2 DEF Init, NoDanglingServer, Connected, GOAL_SERVER
<1> QED BY <1>1, DanglingStep, TypeCorrect, PTL DEF Spec

LEMMA ExhaustedStep == TypeOK /\ SeekerNeverExhausted /\ [Next]_vars => SeekerNeverExhausted'
<1> SUFFICES ASSUME TypeOK, SeekerNeverExhausted, [Next]_vars PROVE SeekerNeverExhausted'  OBVIOUS
<1> USE DEF SeekerNeverExhausted
<1>0. tokens \in Nat /\ mask \in SUBSET Servers  BY DEF TypeOK
<1>1. CASE UNCHANGED <<loa, conn, active, pool, tokens, mask, goals>>  BY <1>1
<1>2. ASSUME NEW m \in Moves, Applies(m) PROVE SeekerNeverExhausted'
  <2>1. CASE applyRemoveServer(m)
    BY <2>1, <1>0 DEF applyRemoveServer, invalidateServerReferences
  <2>2. CASE UNCHANGED <<tokens, mask>>  BY <2>2
  <2> QED BY <1>2, <2>1, <2>2 DEF Applies, applyTickIntent, applyHiderAction, applyAddServer,
                                  applyConnect, applyDisconnect, seekerVars
<1>3. CASE Probes  BY <1>3 DEF Probes, Probe
<1>4. CASE Reconnects
  <2>1. PICK closed \in SUBSET mask, opened \in SUBSET active : MoveConnections(closed, opened)
    BY <1>4 DEF Reconnects
  <2>2. CASE opened # {} \/ closed # mask  BY <2>1, <2>2 DEF MoveConnections
  <2>3. CASE opened = {} /\ closed = mask
    <3>1. tokens' = tokens + Cardinality(mask)  BY <2>1, <2>3, ConnectionsBound, TypeParts
    <3>2. Cardinality(mask) \in Nat /\ (Cardinality(mask) = 0 <=> mask = {})
      BY <1>0, ServerCount
    <3> QED BY <1>0, <3>1, <3>2
  <2> QED BY <2>2, <2>3
<1> QED BY <1>1, <1>2, <1>3, <1>4, BoardSteps

\* The seeker of a match can never run out of connections: the third end
\* condition of checkMatchEnd (match_end.cpp) is dead in every match played
\* through the engine, for any number of tokens, hiders and servers.
THEOREM SeekerKeepsAConnection == Spec => []SeekerNeverExhausted
<1>1. Init => SeekerNeverExhausted  BY DEF Init, SeekerNeverExhausted
<1> QED BY <1>1, ExhaustedStep, TypeCorrect, PTL DEF Spec

-----------------------------------------------------------------------------
(* The pending ring.                                                       *)

CanPay(m) == ~ Unaffordable(m, ap[m.hider])

\* What is known of the pending moves at each step of a call: during a tick a
\* move is still to be tried, or leaves the ring, or its hider cannot pay.
PendingInv ==
  /\ PendingUnaffordable
  /\ step = "intents" => \A m \in pending : m \in todo \cup accepted \cup refused \/ ~ CanPay(m)
  /\ step \in {"seeker", "end", "settle"} =>
       \A m \in pending : m \in accepted \cup refused \/ ~ CanPay(m)

LEMMA BudgetsTyped ==
  ASSUME TypeOK, NEW h \in Hiders
  PROVE  ap[h] \in Nat /\ loa[h] \in Nat
<1>1. ap[h] \in 0 .. ApCap /\ loa[h] \in Nat  BY DEF TypeOK
<1> QED BY <1>1

\* Applying a move never makes another one affordable: rules only take action
\* points and LOAs.
LEMMA NobodyGainsPoints ==
  ASSUME TypeOK, NEW m \in Moves, Applies(m), NEW n \in Moves, ~ CanPay(n)
  PROVE  ~ CanPay(n)'
<1>1. m.hider \in Hiders /\ n.hider \in Hiders  BY DEF Moves
<1>t. ap \in [Hiders -> 0 .. ApCap] /\ loa \in [Hiders -> Nat]
  BY DEF TypeOK
<1>2. /\ ap[m.hider] \in Nat /\ ap[n.hider] \in Nat
      /\ loa[m.hider] \in Nat /\ loa[n.hider] \in Nat
  BY <1>1, BudgetsTyped
<1>3. ap'[n.hider] \in Int /\ ap'[n.hider] <= ap[n.hider]
  <2>1. CASE applyHiderAction(m)
    <3>1. ApCost[m.kind] \in Nat  BY <2>1 DEF applyHiderAction
    <3> QED BY <2>1, <3>1, <1>1, <1>2, <1>t DEF applyHiderAction
  <2>2. CASE UNCHANGED ap  BY <2>2, <1>1, <1>2
  <2> QED BY <2>1, <2>2 DEF Applies, applyTickIntent, applyAddServer, applyRemoveServer,
                            applyConnect, applyDisconnect
<1>4. loa'[n.hider] \in Int /\ loa'[n.hider] <= loa[n.hider]
  <2>1. CASE loa' = [loa EXCEPT ![m.hider] = @ - 1]  BY <2>1, <1>1, <1>2, <1>t
  <2>2. CASE UNCHANGED loa  BY <2>2, <1>1, <1>2
  <2> QED BY <2>1, <2>2 DEF Applies, applyTickIntent, applyHiderAction, applyAddServer,
                            applyRemoveServer, applyConnect, applyDisconnect
<1>5. CASE n.kind \in Modes /\ ap[n.hider] < ApCost[n.kind]
  <2>1. ApCost[n.kind] \in Nat  BY <1>5
  <2>2. ap'[n.hider] < ApCost[n.kind]  BY <1>1, <1>2, <1>3, <1>5, <2>1
  <2> QED BY <1>5, <2>2 DEF CanPay, Unaffordable
<1>6. CASE n.kind \in {"ADD_SERVER", "REMOVE_SERVER"} /\ loa[n.hider] < 1
  <2>1. loa'[n.hider] < 1  BY <1>1, <1>2, <1>4, <1>6
  <2> QED BY <1>6, <2>1 DEF CanPay, Unaffordable
<1> QED BY <1>5, <1>6 DEF CanPay, Unaffordable

LEMMA StillUnpaid == ASSUME NEW n, UNCHANGED <<ap, loa>> PROVE CanPay(n)' = CanPay(n)
BY DEF CanPay, Unaffordable

LEMMA PendingOfCall ==
  ASSUME TypeOK, PendingInv, Call
  PROVE  PendingInv'
<1> USE DEF PendingInv, PendingUnaffordable
<1>t. pending \in SUBSET Moves  BY DEF TypeOK
<1>c. \A m : Unaffordable(m, ap[m.hider]) <=> ~ CanPay(m)  BY DEF CanPay
<1>p. \A m : Unaffordable(m, ap[m.hider])' <=> ~ CanPay(m)'  BY DEF CanPay
<1>i. step = "idle"
  BY DEF Call, PlayOrQueue, applyNow, RejectIllegal, playMoveLater, queueMoveLater, passTicks,
         cancelPendingMove, RejectNotActive, Callable
<1>r. ASSUME NEW reason, Reject(reason) PROVE PendingInv'
  <2>1. UNCHANGED <<ap, loa, pending, step>>
    BY <1>r DEF Reject, AtRest, ruleVars, ringVars
  <2> QED BY <2>1, <1>i, <1>c, <1>p, StillUnpaid
<1>a. ASSUME NEW m, NEW budget, StartAdvance(m, budget) PROVE PendingInv'
  BY <1>a DEF StartAdvance
<1>1. ASSUME NEW m \in Moves, applyNow(m) PROVE PendingInv'
  <2>1. UNCHANGED <<pending, step>> /\ Applies(m)
    BY <1>1 DEF applyNow, Applies, AtRest, ringVars
  <2>2. \A n \in pending : ~ CanPay(n)'  BY <2>1, <1>1, <1>t, <1>i, <1>c, NobodyGainsPoints
  <2> QED BY <2>1, <2>2, <1>i, <1>p
<1>2. ASSUME NEW m \in Moves, queueMoveLater(m) PROVE PendingInv'
  <2>1. CASE /\ pending' = pending \cup {m}
             /\ UNCHANGED ruleVars
             /\ AtRest
    <3>1. ~ CanPay(m)  BY <1>2 DEF queueMoveLater, OutcomeNow, Outcome, CanPay
    <3>2. UNCHANGED <<ap, loa, step>>  BY <2>1 DEF ruleVars, AtRest
    <3> QED BY <2>1, <3>1, <3>2, <1>i, <1>c, <1>p, StillUnpaid
  <2> QED BY <1>2, <2>1, <1>r DEF queueMoveLater
<1>3. ASSUME NEW h, NEW seq, cancelPendingMove(h, seq) PROVE PendingInv'
  <2>1. CASE /\ pending' \in SUBSET pending
             /\ UNCHANGED ruleVars
             /\ AtRest
    <3>1. UNCHANGED <<ap, loa, step>>  BY <2>1 DEF ruleVars, AtRest
    <3> QED BY <2>1, <3>1, <1>i, <1>c, <1>p, StillUnpaid
  <2> QED BY <1>3, <2>1, <1>r DEF cancelPendingMove
<1>4. ASSUME NEW h \in Hiders, NEW kind \in Kinds, NEW s \in Servers,
             PlayOrQueue(Submitted(h, kind, s))
      PROVE  PendingInv'
  <2>1. Submitted(h, kind, s) \in Moves  BY SubmittedTyped, TypeParts
  <2> QED BY <1>4, <2>1, <1>1, <1>2, <1>r, <1>a DEF PlayOrQueue, RejectIllegal, playMoveLater
<1> QED BY <1>3, <1>4, <1>r, <1>a DEF Call, passTicks, RejectNotActive

LEMMA PendingOfAdvance ==
  ASSUME TypeOK, PendingInv, Advance
  PROVE  PendingInv'
<1> USE DEF PendingInv, PendingUnaffordable
<1>t. pending \in SUBSET Moves /\ todo \in SUBSET Moves  BY DEF TypeOK
<1>p. \A m : Unaffordable(m, ap[m.hider])' <=> ~ CanPay(m)'  BY DEF CanPay
<1>1. CASE BeginTick
  <2>1. pending' \subseteq todo'  BY <1>1 DEF BeginTick, Candidates, ringVars
  <2> QED BY <1>1, <2>1 DEF BeginTick
<1>2. ASSUME NEW m \in todo, Dispatch(m) PROVE PendingInv'
  <2>0. /\ step = "intents" /\ UNCHANGED <<pending, step>>
        /\ todo' = todo \ {m}
    BY <1>2 DEF Dispatch, Dispatched, ringVars
  <2>1. CASE Applies(m) /\ accepted' = accepted \cup {m} /\ UNCHANGED refused
    <3>1. \A n \in pending : ~ CanPay(n) => ~ CanPay(n)'  BY <2>1, <1>t, NobodyGainsPoints
    <3> QED BY <2>0, <2>1, <3>1
  <2>2. CASE OutcomeNow(m) = "INSUFFICIENT_RESOURCE" /\ UNCHANGED <<ruleVars, accepted, refused>>
    <3>1. ~ CanPay(m)  BY <2>2 DEF OutcomeNow, Outcome, CanPay
    <3>2. UNCHANGED <<ap, loa>>  BY <2>2 DEF ruleVars
    <3> QED BY <2>0, <2>2, <3>1, <3>2, StillUnpaid
  <2>3. CASE refused' = refused \cup {m} /\ UNCHANGED <<ruleVars, accepted>>
    <3>2. UNCHANGED <<ap, loa>>  BY <2>3 DEF ruleVars
    <3> QED BY <2>0, <2>3, <3>2, StillUnpaid
  <2> QED BY <1>2, <2>1, <2>2, <2>3 DEF Dispatch, Applies
<1>3. CASE BeginSeeker
  <2>1. UNCHANGED <<ap, loa, pending, accepted, refused>> /\ todo = {} /\ step = "intents"
        /\ step' = "seeker"
    BY <1>3 DEF BeginSeeker, ruleVars, ringVars, tickVars
  <2> QED BY <2>1, StillUnpaid
<1>4. CASE Probes \/ Reconnects \/ checkMatchEnd
  <2>1. UNCHANGED <<ap, loa, pending, accepted, refused>> /\ step \in {"seeker", "end"}
        /\ step' \in {"seeker", "end", "settle"}
    BY <1>4 DEF Probes, Probe, Reconnects, MoveConnections, checkMatchEnd, ruleVars, ringVars,
                tickVars, hiderVars
  <2> QED BY <2>1, StillUnpaid
<1>5. CASE Settle
  <2>1. step = "settle" /\ UNCHANGED <<ap, loa>> /\ pending' = pending \ (accepted \cup refused)
    BY <1>5 DEF Settle, compactPending, ruleVars
  <2>2. step' \in {"idle", "tick"}  BY <1>5 DEF Settle, Return
  <2> QED BY <2>1, <2>2, <1>p, StillUnpaid
<1> QED BY <1>1, <1>2, <1>3, <1>4, <1>5 DEF Advance, Probes, Reconnects

\* A move waits in the ring only while its hider cannot pay for it, whatever
\* the other hiders and the seeker do meanwhile (TURN-006, runAdvanceLoop).
THEOREM QueuedMovesAreUnaffordable == Spec => []PendingUnaffordable
<1>1. Init => PendingInv  BY DEF Init, PendingInv, PendingUnaffordable
<1>2. TypeOK /\ PendingInv /\ [Next]_vars => PendingInv'
  <2>1. PendingInv /\ UNCHANGED vars => PendingInv'
    BY DEF PendingInv, PendingUnaffordable, CanPay, Unaffordable, vars, ruleVars, ringVars, tickVars
  <2> QED BY <2>1, PendingOfCall, PendingOfAdvance DEF Next
<1>3. PendingInv => PendingUnaffordable  BY DEF PendingInv
<1> QED BY <1>1, <1>2, <1>3, TypeCorrect, PTL DEF Spec

\* The ring only changes by an append at nextSeq, within the limits, or by
\* losing moves.
Appends(m) ==
  /\ ~ AtLimit(pending, RingCap) /\ ~ AtLimit(PendingOf(m.hider), HiderQuota)
  /\ m.seq = nextSeq
  /\ pending' = pending \cup {m} /\ nextSeq' = nextSeq + 1

LEMMA RingSteps ==
  ASSUME TypeOK, [Next]_vars
  PROVE  (pending' \subseteq pending /\ nextSeq' = nextSeq) \/ \E m \in Moves : Appends(m)
<1> DEFINE Goal == (pending' \subseteq pending /\ nextSeq' = nextSeq) \/ \E m \in Moves : Appends(m)
<1>u. UNCHANGED ringVars => Goal  BY DEF ringVars
<1>r. ASSUME NEW reason, Reject(reason) PROVE Goal  BY <1>r, <1>u DEF Reject
<1>a. ASSUME NEW m, NEW budget, StartAdvance(m, budget) PROVE Goal  BY <1>a, <1>u DEF StartAdvance
<1>1. CASE UNCHANGED vars  BY <1>1, <1>u DEF vars
<1>2. ASSUME NEW h \in Hiders, NEW kind \in Kinds, NEW s \in Servers,
             PlayOrQueue(Submitted(h, kind, s))
      PROVE  Goal
  <2> DEFINE m == Submitted(h, kind, s)
  <2>1. m \in Moves /\ m.seq = nextSeq  BY SubmittedTyped, TypeParts DEF Submitted
  <2>2. CASE applyNow(m)  BY <2>2, <1>u DEF applyNow
  <2>3. CASE RejectIllegal(m)  BY <2>3, <1>r DEF RejectIllegal
  <2>4. CASE playMoveLater(m)  BY <2>4, <1>r, <1>a DEF playMoveLater
  <2>5. CASE queueMoveLater(m)
    <3> HIDE DEF m
    <3> QED BY <2>1, <2>5, <1>r DEF queueMoveLater, Appends
  <2> HIDE DEF m
  <2>6. PlayOrQueue(m)  BY <1>2 DEF m
  <2> QED BY <2>2, <2>3, <2>4, <2>5, <2>6 DEF PlayOrQueue
<1>3. ASSUME NEW ticks, passTicks(ticks) PROVE Goal  BY <1>3, <1>r, <1>a DEF passTicks
<1>4. ASSUME NEW h, NEW seq, cancelPendingMove(h, seq) PROVE Goal
  BY <1>4, <1>r DEF cancelPendingMove
<1>5. CASE RejectNotActive  BY <1>5, <1>r DEF RejectNotActive
<1>6. CASE Settle  BY <1>6 DEF Settle, compactPending
<1>7. CASE Advance /\ ~ Settle
  BY <1>7, <1>u DEF Advance, BeginTick, Dispatch, BeginSeeker, Probe, MoveConnections, checkMatchEnd
<1> QED BY <1>1, <1>2, <1>3, <1>4, <1>5, <1>6, <1>7 DEF Next, Call

LEMMA OneMore ==
  ASSUME NEW S, IsFiniteSet(S), NEW x
  PROVE  Cardinality(S \cup {x}) \in Nat /\ Cardinality(S \cup {x}) <= Cardinality(S) + 1
<1>1. Cardinality(S) \in Nat  BY FS_CardinalityType
<1>2. Cardinality(S \cup {x}) = Cardinality(S) \/ Cardinality(S \cup {x}) = Cardinality(S) + 1
  BY FS_AddElement
<1> QED BY <1>1, <1>2

LEMMA RingStep == TypeOK /\ RingBounded /\ [Next]_vars => RingBounded'
<1> SUFFICES ASSUME TypeOK, RingBounded, [Next]_vars PROVE RingBounded'  OBVIOUS
<1>0. IsFiniteSet(pending) /\ pending \in SUBSET Moves /\ nextSeq \in Nat  BY DEF TypeOK
<1>1. Cardinality(pending) \in Nat  BY <1>0, FS_CardinalityType
<1>f. \A h \in Hiders : IsFiniteSet(PendingOf(h)) /\ Cardinality(PendingOf(h)) \in Nat
  <2> TAKE h \in Hiders
  <2>1. PendingOf(h) \in SUBSET pending  BY DEF PendingOf
  <2>2. IsFiniteSet(PendingOf(h))  BY <1>0, <2>1, FS_Subset
  <2> QED BY <2>2, FS_CardinalityType
<1>2. CASE pending' \subseteq pending /\ nextSeq' = nextSeq
  <2>1. IsFiniteSet(pending') /\ Cardinality(pending') <= Cardinality(pending)
    BY <1>0, <1>2, FS_Subset
  <2>2. Cardinality(pending') \in Nat  BY <2>1, FS_CardinalityType
  <2>3. Cardinality(pending') <= RingCap  BY <1>1, <2>1, <2>2 DEF RingBounded
  <2>4. ASSUME NEW h \in Hiders PROVE Cardinality(PendingOf(h)') <= HiderQuota
    <3>1. PendingOf(h)' \in SUBSET PendingOf(h)  BY <1>2 DEF PendingOf
    <3>2. IsFiniteSet(PendingOf(h)') /\ Cardinality(PendingOf(h)') <= Cardinality(PendingOf(h))
      BY <1>f, <3>1, FS_Subset
    <3>3. Cardinality(PendingOf(h)') \in Nat  BY <3>2, FS_CardinalityType
    <3> QED BY <1>f, <3>2, <3>3 DEF RingBounded
  <2>5. /\ \A m \in pending' : m.seq < nextSeq'
        /\ \A m, n \in pending' : m.seq = n.seq => m = n
    BY <1>2 DEF RingBounded
  <2> QED BY <2>3, <2>4, <2>5 DEF RingBounded
<1>3. ASSUME NEW m \in Moves, Appends(m) PROVE RingBounded'
  <2>1. Cardinality(pending') <= Cardinality(pending) + 1 /\ Cardinality(pending') \in Nat
    BY <1>0, <1>3, OneMore DEF Appends
  <2>2. Cardinality(pending') <= RingCap  BY <1>1, <1>3, <2>1 DEF Appends, AtLimit
  <2>3. ASSUME NEW h \in Hiders PROVE Cardinality(PendingOf(h)') <= HiderQuota
    <3>1. CASE h = m.hider
      <4>1. PendingOf(h)' = PendingOf(h) \cup {m}  BY <1>3, <3>1 DEF Appends, PendingOf
      <4>2. /\ Cardinality(PendingOf(h)') <= Cardinality(PendingOf(h)) + 1
            /\ Cardinality(PendingOf(h)') \in Nat
        BY <1>f, <4>1, OneMore
      <4> QED BY <1>f, <1>3, <3>1, <4>2 DEF Appends, AtLimit
    <3>2. CASE h # m.hider
      <4>1. PendingOf(h)' = PendingOf(h)  BY <1>3, <3>2 DEF Appends, PendingOf
      <4> QED BY <4>1 DEF RingBounded
    <3> QED BY <3>1, <3>2
  <2>4. \A n \in pending : n.seq \in Nat /\ n.seq < nextSeq  BY <1>0 DEF RingBounded, Moves
  <2>5. m.seq = nextSeq /\ nextSeq' = nextSeq + 1 /\ pending' = pending \cup {m}
    BY <1>3 DEF Appends
  <2>6. \A n \in pending' : n.seq < nextSeq'  BY <1>0, <2>4, <2>5
  <2>7. \A n, o \in pending' : n.seq = o.seq => n = o  BY <1>0, <2>4, <2>5 DEF RingBounded
  <2> QED BY <2>2, <2>3, <2>6, <2>7 DEF RingBounded
<1> QED BY <1>2, <1>3, RingSteps

\* The ring stays within its array and a hider within its share of it, and the
\* order in which moves are tried is total, for any capacity and any quota.
THEOREM RingStaysBounded == Spec => []RingBounded
<1>1. Init => RingBounded
  <2> SUFFICES ASSUME Init PROVE RingBounded  OBVIOUS
  <2>1. pending = {} /\ \A h \in Hiders : PendingOf(h) = {}  BY DEF Init, PendingOf
  <2> QED BY <2>1, FS_EmptySet DEF RingBounded
<1> QED BY <1>1, RingStep, TypeCorrect, PTL DEF Spec

-----------------------------------------------------------------------------
(* The end of the match.                                                   *)

\* The end is recorded in the settling step of a call and never undone.  A match
\* that goes on at that point has not met its target, and there or at rest has a
\* hider or a connection left.
EndInv ==
  /\ WinnerJustified
  /\ phase = "COMPLETE" => step \in {"settle", "idle"}
  /\ phase = "ACTIVE" /\ step \in {"idle", "settle"} => ~ HidersLost
  /\ phase = "ACTIVE" /\ step = "settle" => teamReward < RewardTarget

LEMMA BalanceUnchanged ==
  ASSUME UNCHANGED ruleVars
  PROVE  HidersLost' = HidersLost /\ SeekerLost' = SeekerLost /\ teamReward' = teamReward
BY DEF ruleVars, HidersLost, SeekerLost, Connected, teamReward

\* No move a hider makes takes the last connection: a removed server passes its
\* occupants on, and a disconnection pays the pool back.
LEMMA MovesKeepHiders ==
  ASSUME TypeOK, NEW m \in Moves, Applies(m), ~ HidersLost
  PROVE  ~ HidersLost'
<1> USE DEF HidersLost, Connected
<1>0. pool \in Nat /\ conn \in [Hiders -> Servers \cup {NO_SERVER_ID}] /\ m.hider \in Hiders
  BY DEF TypeOK, Moves
<1>s. active \subseteq Servers /\ NO_SERVER_ID \notin Servers
  BY DEF TypeOK, Servers, NO_SERVER_ID
<1>1. CASE applyHiderAction(m) \/ applyAddServer(m)
  BY <1>1 DEF applyHiderAction, applyAddServer
<1>2. CASE applyRemoveServer(m)
  <2>1. pool' = pool  BY <1>2 DEF applyRemoveServer
  <2>2. ASSUME NEW h \in Hiders, conn[h] # NO_SERVER_ID PROVE conn'[h] # NO_SERVER_ID
    <3>1. CASE UNCHANGED conn  BY <3>1, <2>2
    <3>2. CASE \E s \in active' :
                 conn' = [g \in Hiders |-> IF g \in Occupants(m.server) THEN s ELSE conn[g]]
      <4>1. active' \subseteq Servers  BY <1>2, <1>s DEF applyRemoveServer
      <4> QED BY <3>2, <4>1, <2>2, <1>s
    <3> QED BY <1>2, <3>1, <3>2 DEF applyRemoveServer
  <2> QED BY <2>1, <2>2
<1>3. CASE applyConnect(m)
  <2>1. m.server \in active
    BY <1>3 DEF applyConnect, Applies, OutcomeNow, Outcome, InvalidTarget
  <2>2. conn'[m.hider] = m.server  BY <1>3, <1>0 DEF applyConnect
  <2>3. conn'[m.hider] # NO_SERVER_ID  BY <2>1, <2>2, <1>s
  <2> QED BY <2>3, <1>0
<1>4. CASE applyDisconnect(m)
  <2>1. pool' = pool + 1  BY <1>4 DEF applyDisconnect
  <2> QED BY <2>1, <1>0
<1> QED BY <1>1, <1>2, <1>3, <1>4 DEF Applies, applyTickIntent

LEMMA EndOfCall ==
  ASSUME TypeOK, EndInv, Call
  PROVE  EndInv'
<1> USE DEF EndInv, WinnerJustified
<1>i. step = "idle"
  BY DEF Call, PlayOrQueue, applyNow, RejectIllegal, playMoveLater, queueMoveLater, passTicks,
         cancelPendingMove, RejectNotActive, Callable
<1>u. ASSUME UNCHANGED <<endVars, ruleVars, step>> PROVE EndInv'
  BY <1>u, BalanceUnchanged DEF endVars
<1>r. ASSUME NEW reason, Reject(reason) PROVE EndInv'  BY <1>r, <1>u DEF Reject, AtRest
<1>a. ASSUME NEW m, NEW budget, StartAdvance(m, budget), Callable PROVE EndInv'
  BY <1>a DEF StartAdvance, Callable, endVars
<1>1. ASSUME NEW m \in Moves, applyNow(m) PROVE EndInv'
  <2>1. phase' = "ACTIVE" /\ step' = "idle" /\ Applies(m) /\ ~ HidersLost
    BY <1>1, <1>i DEF applyNow, Applies, Callable, AtRest, endVars
  <2>2. ~ HidersLost'  BY <2>1, MovesKeepHiders
  <2> QED BY <2>1, <2>2
<1>2. ASSUME NEW m \in Moves, queueMoveLater(m) PROVE EndInv'
  BY <1>2, <1>r, <1>u DEF queueMoveLater, AtRest
<1>3. ASSUME NEW h, NEW seq, cancelPendingMove(h, seq) PROVE EndInv'
  BY <1>3, <1>r, <1>u DEF cancelPendingMove, AtRest
<1>4. ASSUME NEW h \in Hiders, NEW kind \in Kinds, NEW s \in Servers,
             PlayOrQueue(Submitted(h, kind, s))
      PROVE  EndInv'
  <2>1. Submitted(h, kind, s) \in Moves  BY SubmittedTyped, TypeParts
  <2> QED BY <1>4, <2>1, <1>1, <1>2, <1>r, <1>a DEF PlayOrQueue, RejectIllegal, playMoveLater
<1> QED BY <1>3, <1>4, <1>r, <1>a DEF Call, passTicks, RejectNotActive

LEMMA EndOfAdvance ==
  ASSUME TypeOK, SeekerNeverExhausted, EndInv, Advance
  PROVE  EndInv'
<1> USE DEF EndInv, WinnerJustified
<1>p. phase \in {"ACTIVE", "COMPLETE"}  BY DEF TypeOK
<1>1. CASE BeginTick \/ BeginSeeker \/ Probes \/ Reconnects \/ \E m \in todo : Dispatch(m)
  <2>1. /\ step \in {"tick", "intents", "seeker"} /\ UNCHANGED endVars
        /\ step' \in {"intents", "seeker", "end"}
    BY <1>1 DEF BeginTick, BeginSeeker, Probes, Probe, Reconnects, MoveConnections, Dispatch
  <2>2. phase' = "ACTIVE"  BY <2>1, <1>p DEF endVars
  <2> QED BY <2>1, <2>2
<1>2. CASE checkMatchEnd
  <2>1. UNCHANGED ruleVars /\ step' = "settle" /\ step = "end"  BY <1>2 DEF checkMatchEnd
  <2>2. phase = "ACTIVE"  BY <2>1, <1>p
  <2>3. ~ SeekerLost
    <3>1. tokens \in Nat  BY DEF TypeOK
    <3> QED BY <3>1 DEF SeekerNeverExhausted, SeekerLost
  <2>4. HidersLost' = HidersLost /\ SeekerLost' = SeekerLost /\ teamReward' = teamReward
    BY <2>1, BalanceUnchanged
  <2>r. teamReward \in Nat
    <3>1. IsFiniteSet(Goals)  BY FS_Union DEF Goals
    <3>2. IsFiniteSet({g \in Goals : goals[g] = "COMPLETED"})  BY <3>1, FS_Subset
    <3> QED BY <3>2, FS_CardinalityType DEF teamReward
  <2>5. CASE teamReward >= RewardTarget
    <3>1. phase' = "COMPLETE" /\ winner' = "HIDERS"  BY <1>2, <2>5 DEF checkMatchEnd, Decision
    <3> QED BY <3>1, <2>1, <2>4, <2>5
  <2>6. CASE ~ (teamReward >= RewardTarget) /\ HidersLost
    <3>1. phase' = "COMPLETE" /\ winner' = "SEEKER"  BY <1>2, <2>6 DEF checkMatchEnd, Decision
    <3>2. teamReward < RewardTarget  BY <2>6, <2>r
    <3> QED BY <3>1, <3>2, <2>1, <2>4, <2>6
  <2>7. CASE ~ (teamReward >= RewardTarget) /\ ~ HidersLost
    <3>1. phase' = "ACTIVE"  BY <1>2, <2>2, <2>3, <2>7 DEF checkMatchEnd, Decision
    <3>2. teamReward < RewardTarget  BY <2>7, <2>r
    <3> QED BY <3>1, <3>2, <2>1, <2>4, <2>7
  <2> QED BY <2>5, <2>6, <2>7
<1>3. CASE Settle
  <2>1. UNCHANGED <<endVars, ruleVars>> /\ step = "settle"  BY <1>3 DEF Settle
  <2>2. step' = "idle" \/ (step' = "tick" /\ phase = "ACTIVE")  BY <1>3 DEF Settle, Return
  <2> QED BY <2>1, <2>2, BalanceUnchanged DEF endVars
<1> QED BY <1>1, <1>2, <1>3 DEF Advance, Probes, Reconnects

LEMMA EndInvariant == Spec => []EndInv
<1>1. Init => EndInv
  <2> SUFFICES ASSUME Init PROVE EndInv  OBVIOUS
  <2>1. PoolPerHider * HiderCount > 0
    <3>1. PoolPerHider \in Nat /\ PoolPerHider > 0 /\ HiderCount \in Nat /\ HiderCount > 0  OBVIOUS
    <3> QED BY <3>1
  <2> QED BY <2>1 DEF Init, EndInv, WinnerJustified, HidersLost
<1>2. TypeOK /\ SeekerNeverExhausted /\ EndInv /\ [Next]_vars => EndInv'
  <2>1. EndInv /\ UNCHANGED vars => EndInv'
    BY BalanceUnchanged DEF EndInv, WinnerJustified, vars, endVars
  <2> QED BY <2>1, EndOfCall, EndOfAdvance DEF Next
<1> QED BY <1>1, <1>2, TypeCorrect, SeekerKeepsAConnection, PTL DEF Spec

\* A match ends for the side its state names at the end of the first tick that finds
\* it decided (match_end.cpp), for any numbers of hiders, servers and tokens: moves
\* applied between ticks exhaust no side, and if they meet the hiders' target, no
\* tick that follows leaves the match going on.
THEOREM EndStaysJustified == Spec => []EndIsJustified
<1>1. TypeOK /\ SeekerNeverExhausted /\ EndInv => EndIsJustified
  <2> SUFFICES ASSUME TypeOK, SeekerNeverExhausted, EndInv PROVE EndIsJustified  OBVIOUS
  <2>1. tokens \in Nat  BY DEF TypeOK
  <2>2. ~ SeekerLost  BY <2>1 DEF SeekerNeverExhausted, SeekerLost
  <2> QED BY <2>2 DEF EndInv, EndIsJustified, OnlyVictoryWaits
<1> QED BY <1>1, TypeCorrect, SeekerKeepsAConnection, EndInvariant, PTL

-----------------------------------------------------------------------------
(* The connection contest.                                                 *)

\* What each side has left, in the pool or in use.
HidersLeft == pool + Cardinality(Connected)
SeekerLeft == tokens + Cardinality(mask)

ContestInv ==
  /\ HidersLeft <= PoolPerHider * HiderCount
  /\ SeekerLeft <= SeekerTokens
  /\ phase = "ACTIVE" => winner = "NONE"

LEMMA LeftTyped ==
  ASSUME TypeOK
  PROVE  /\ IsFiniteSet(Connected) /\ IsFiniteSet(mask)
         /\ Cardinality(Connected) \in Nat /\ Cardinality(mask) \in Nat
         /\ pool \in Nat /\ tokens \in Nat
         /\ HidersLeft \in Nat /\ SeekerLeft \in Nat
<1>1. Connected \in SUBSET Hiders /\ mask \in SUBSET Servers  BY DEF Connected, TypeOK
<1>2. pool \in Nat /\ tokens \in Nat  BY DEF TypeOK
<1>3. /\ IsFiniteSet(Connected) /\ Cardinality(Connected) \in Nat
      /\ IsFiniteSet(mask) /\ Cardinality(mask) \in Nat
  BY <1>1, HiderSetCount, ServerCount
<1> QED BY <1>2, <1>3 DEF HidersLeft, SeekerLeft

LEMMA ActiveIsNoServer == TypeOK => active \subseteq Servers /\ NO_SERVER_ID \notin Servers
BY DEF TypeOK, Servers, NO_SERVER_ID

\* A move only shifts connections between the pool and the servers, and tokens
\* between the seeker and its open connections.
LEMMA MovesKeepBudgets ==
  ASSUME TypeOK, NEW m \in Moves, Applies(m)
  PROVE  HidersLeft' = HidersLeft /\ SeekerLeft' = SeekerLeft
<1>0. pool \in Nat /\ conn \in [Hiders -> Servers \cup {NO_SERVER_ID}] /\ m.hider \in Hiders
  BY DEF TypeOK, Moves
<1>1. CASE applyHiderAction(m) \/ applyAddServer(m)
  BY <1>1 DEF applyHiderAction, applyAddServer, HidersLeft, SeekerLeft, Connected, seekerVars
<1>2. CASE applyRemoveServer(m)
  <2>1. ASSUME NEW h \in Hiders PROVE conn'[h] # NO_SERVER_ID <=> conn[h] # NO_SERVER_ID
    <3>1. CASE UNCHANGED conn  BY <3>1
    <3>2. CASE \E s \in active' :
                 conn' = [g \in Hiders |-> IF g \in Occupants(m.server) THEN s ELSE conn[g]]
      <4>1. PICK s \in active' :
              conn' = [g \in Hiders |-> IF g \in Occupants(m.server) THEN s ELSE conn[g]]
        BY <3>2
      <4>2. active' \subseteq active  BY <1>2 DEF applyRemoveServer
      <4>3. s # NO_SERVER_ID  BY <4>2, ActiveIsNoServer
      <4>4. m.server # NO_SERVER_ID
        <5>1. m.server \in active
          BY <1>2 DEF applyRemoveServer, Applies, OutcomeNow, Outcome, InvalidTarget
        <5> QED BY <5>1, ActiveIsNoServer
      <4> QED BY <4>1, <4>3, <4>4 DEF Occupants
    <3> QED BY <1>2, <3>1, <3>2 DEF applyRemoveServer
  <2>2. Connected' = Connected  BY <2>1 DEF Connected
  <2>3. HidersLeft' = HidersLeft  BY <1>2, <2>2 DEF applyRemoveServer, HidersLeft
  <2>4. /\ mask' = mask \ {m.server}
        /\ tokens' = IF m.server \in mask THEN tokens + 1 ELSE tokens
    BY <1>2 DEF applyRemoveServer, invalidateServerReferences
  <2>5. Cardinality(mask \ {m.server})
          = IF m.server \in mask THEN Cardinality(mask) - 1 ELSE Cardinality(mask)
    BY LeftTyped, FS_RemoveElement
  <2>6. SeekerLeft' = SeekerLeft  BY <2>4, <2>5, LeftTyped DEF SeekerLeft
  <2> QED BY <2>3, <2>6
<1>3. CASE applyConnect(m)
  <2>1. m.server \in active /\ conn[m.hider] = NO_SERVER_ID /\ pool' = pool - 1
    BY <1>3 DEF applyConnect, Applies, OutcomeNow, Outcome, InvalidTarget
  <2>2. Connected' = Connected \cup {m.hider} /\ m.hider \notin Connected
    <3>1. m.server # NO_SERVER_ID  BY <2>1, ActiveIsNoServer
    <3> QED BY <1>0, <1>3, <2>1, <3>1 DEF applyConnect, Connected
  <2>3. Cardinality(Connected') = Cardinality(Connected) + 1  BY <2>2, LeftTyped, FS_AddElement
  <2>4. HidersLeft' = HidersLeft  BY <2>1, <2>3, LeftTyped DEF HidersLeft
  <2> QED BY <1>3, <2>4 DEF applyConnect, SeekerLeft, seekerVars
<1>4. CASE applyDisconnect(m)
  <2>1. conn[m.hider] # NO_SERVER_ID /\ pool' = pool + 1
    BY <1>4 DEF applyDisconnect, Applies, OutcomeNow, Outcome, InvalidTarget
  <2>2. Connected' = Connected \ {m.hider} /\ m.hider \in Connected
    BY <1>0, <1>4, <2>1 DEF applyDisconnect, Connected
  <2>3. Cardinality(Connected') = Cardinality(Connected) - 1  BY <2>2, LeftTyped, FS_RemoveElement
  <2>4. HidersLeft' = HidersLeft  BY <2>1, <2>3, LeftTyped DEF HidersLeft
  <2> QED BY <1>4, <2>4 DEF applyDisconnect, SeekerLeft, seekerVars
<1> QED BY <1>1, <1>2, <1>3, <1>4 DEF Applies, applyTickIntent

\* Closing and opening connections moves tokens, and loses none.
LEMMA ReconnectsKeepBudgets ==
  ASSUME TypeOK, Reconnects
  PROVE  HidersLeft' = HidersLeft /\ SeekerLeft' = SeekerLeft
<1>1. PICK closed \in SUBSET mask, opened \in SUBSET active : MoveConnections(closed, opened)
  BY DEF Reconnects
<1>2. HidersLeft' = HidersLeft  BY <1>1 DEF MoveConnections, HidersLeft, Connected, hiderVars
<1>3. /\ opened \cap (mask \ closed) = {}
      /\ mask' = (mask \ closed) \cup opened
      /\ tokens' = (tokens + Cardinality(closed)) - Cardinality(opened)
  BY <1>1 DEF MoveConnections
<1>4. /\ IsFiniteSet(opened) /\ Cardinality(opened) \in Nat
      /\ IsFiniteSet(closed) /\ Cardinality(closed) \in Nat
  <2>1. closed \in SUBSET Servers /\ opened \in SUBSET Servers  BY DEF TypeOK
  <2> QED BY <2>1, ServerCount
<1>5. IsFiniteSet(mask \ closed)
      /\ Cardinality(mask \ closed) = Cardinality(mask) - Cardinality(closed)
  <2>1. mask \cap closed = closed  OBVIOUS
  <2> QED BY <2>1, LeftTyped, FS_Difference
<1>6. Cardinality(mask') = Cardinality(mask \ closed) + Cardinality(opened)
  <2>1. (mask \ closed) \cap opened = {}  BY <1>3
  <2>2. Cardinality((mask \ closed) \cup opened)
          = Cardinality(mask \ closed) + Cardinality(opened) - Cardinality({})
    BY <1>4, <1>5, <2>1, FS_Union
  <2>3. Cardinality(mask \ closed) \in Nat  BY <1>5, FS_CardinalityType
  <2> QED BY <1>3, <1>4, <2>2, <2>3, FS_EmptySet
<1>7. SeekerLeft' = SeekerLeft  BY <1>3, <1>4, <1>5, <1>6, LeftTyped DEF SeekerLeft
<1> QED BY <1>2, <1>7

\* What a probe takes: connections that were hit, tokens that were not needed.
Taken(hit, lost) ==
  /\ hit + lost > 0 /\ hit <= HidersLeft /\ lost < SeekerLeft
  /\ HidersLeft' = HidersLeft - hit /\ SeekerLeft' = SeekerLeft - lost

LEMMA ProbesTake ==
  ASSUME TypeOK, Probes
  PROVE  \E hit, lost \in Nat : Taken(hit, lost)
<1>1. PICK s \in Servers, wager \in 1 .. MaxWager : Probe(s, wager)  BY DEF Probes, Probe
<1>2. PICK hit \in SUBSET Occupants(s) :
        /\ Cardinality(hit) = Lower(wager, Cardinality(Occupants(s)))
        /\ conn' = [h \in Hiders |-> IF h \in hit THEN NO_SERVER_ID ELSE conn[h]]
        /\ tokens' = tokens - LostTokens(wager, hit)
  BY <1>1 DEF Probe, applyWager
<1>3. s \in mask /\ wager \in Nat /\ wager >= 1 /\ wager <= tokens /\ UNCHANGED <<pool, mask>>
  BY <1>1, LeftTyped DEF Probe, Lower
<1>4. Occupants(s) \subseteq Connected
  <2>1. s # NO_SERVER_ID  BY ActiveIsNoServer
  <2> QED BY <2>1 DEF Occupants, Connected
<1>5. Cardinality(hit) \in Nat /\ Cardinality(hit) <= wager
  <2>1. hit \in SUBSET Hiders /\ Occupants(s) \in SUBSET Hiders  BY DEF Occupants
  <2>2. Cardinality(hit) \in Nat /\ Cardinality(Occupants(s)) \in Nat  BY <2>1, HiderSetCount
  <2> QED BY <1>2, <1>3, <2>2 DEF Lower
<1>6. Cardinality(Connected') = Cardinality(Connected) - Cardinality(hit)
      /\ Cardinality(hit) <= Cardinality(Connected)
  <2>1. hit \in SUBSET Connected  BY <1>4
  <2>2. Connected' = Connected \ hit  BY <1>2, <2>1 DEF Connected
  <2>3. Connected \cap hit = hit  BY <2>1
  <2> QED BY <2>1, <2>2, <2>3, LeftTyped, FS_Difference, FS_Subset
<1>7. Cardinality(mask) >= 1
  <2>1. Cardinality(mask) # 0  BY <1>3, LeftTyped, FS_EmptySet
  <2> QED BY <2>1, LeftTyped
<1> DEFINE lost == wager - Cardinality(hit)
<1>8. lost \in Nat /\ lost <= tokens /\ tokens' = tokens - lost
  BY <1>2, <1>3, <1>5, LeftTyped DEF LostTokens
<1>9. Taken(Cardinality(hit), lost)
  <2>1. Cardinality(hit) + lost > 0  BY <1>3, <1>5
  <2>2. Cardinality(hit) <= HidersLeft /\ HidersLeft' = HidersLeft - Cardinality(hit)
    BY <1>3, <1>5, <1>6, LeftTyped DEF HidersLeft
  <2> HIDE DEF lost
  <2>3. lost < SeekerLeft /\ SeekerLeft' = SeekerLeft - lost
    BY <1>3, <1>7, <1>8, LeftTyped DEF SeekerLeft
  <2> QED BY <2>1, <2>2, <2>3 DEF Taken
<1> QED BY <1>5, <1>8, <1>9

\* Only a probe spends budgets, and only during the seeker's part of a tick.
LEMMA BudgetSteps ==
  ASSUME TypeOK, [Next]_vars
  PROVE  \/ HidersLeft' = HidersLeft /\ SeekerLeft' = SeekerLeft
         \/ step = "seeker" /\ \E hit, lost \in Nat : Taken(hit, lost)
<1>1. CASE UNCHANGED <<loa, conn, active, pool, tokens, mask, goals>>
  BY <1>1 DEF HidersLeft, SeekerLeft, Connected
<1>2. CASE Probes
  <2>1. step = "seeker"  BY <1>2 DEF Probes, Probe
  <2> QED BY <1>2, <2>1, ProbesTake
<1> QED BY <1>1, <1>2, BoardSteps, MovesKeepBudgets, ReconnectsKeepBudgets

\* Only checkMatchEnd ends the match, and it spends nothing.
LEMMA EndSteps ==
  ASSUME TypeOK, [Next]_vars
  PROVE  UNCHANGED endVars \/ (checkMatchEnd /\ HidersLeft' = HidersLeft /\ SeekerLeft' = SeekerLeft)
<1> DEFINE Kept == UNCHANGED endVars
<1>r. ASSUME NEW reason, Reject(reason) PROVE Kept  BY <1>r DEF Reject, AtRest
<1>a. ASSUME NEW m, NEW budget, StartAdvance(m, budget) PROVE Kept  BY <1>a DEF StartAdvance
<1>1. CASE UNCHANGED vars  BY <1>1 DEF vars
<1>2. ASSUME NEW m, PlayOrQueue(m) PROVE Kept
  BY <1>2, <1>r, <1>a DEF PlayOrQueue, applyNow, RejectIllegal, playMoveLater, queueMoveLater, AtRest
<1>3. CASE Call  BY <1>3, <1>2, <1>r, <1>a DEF Call, passTicks, cancelPendingMove, RejectNotActive, AtRest
<1>4. CASE checkMatchEnd
  BY <1>4 DEF checkMatchEnd, ruleVars, HidersLeft, SeekerLeft, Connected
<1>5. CASE Advance /\ ~ checkMatchEnd
  BY <1>5 DEF Advance, BeginTick, Dispatch, BeginSeeker, Probe, MoveConnections, Settle
<1> QED BY <1>1, <1>3, <1>4, <1>5 DEF Next

LEMMA ContestInit == Init => ContestInv /\ Contest!ContestInit
<1> SUFFICES ASSUME Init PROVE ContestInv /\ Contest!ContestInit  OBVIOUS
<1>1. Connected = {} /\ mask = {} /\ tokens = SeekerTokens /\ pool = PoolPerHider * HiderCount
  BY DEF Init, Connected
<1>2. HidersLeft = PoolPerHider * HiderCount /\ SeekerLeft = SeekerTokens
  <2>1. PoolPerHider * HiderCount \in Nat  BY <1>1, TypeInit DEF TypeOK
  <2> QED BY <1>1, <2>1, FS_EmptySet DEF HidersLeft, SeekerLeft
<1> QED BY <1>2, LeftTyped, TypeInit DEF Init, ContestInv, Contest!ContestInit, HidersLeft, SeekerLeft

LEMMA ContestInvStep ==
  ASSUME TypeOK, EndInv, ContestInv, [Next]_vars
  PROVE  ContestInv'
<1>b. PoolPerHider * HiderCount \in Nat
  <2>1. PoolPerHider \in Nat /\ HiderCount \in Nat  OBVIOUS
  <2> QED BY <2>1
<1>1. HidersLeft' <= PoolPerHider * HiderCount /\ SeekerLeft' <= SeekerTokens
  <2> DEFINE budget == PoolPerHider * HiderCount
  <2>1. HidersLeft <= budget /\ SeekerLeft <= SeekerTokens  BY DEF ContestInv
  <2>2. budget \in Nat  BY <1>b
  <2> HIDE DEF budget
  <2>3. HidersLeft' <= budget /\ SeekerLeft' <= SeekerTokens
    BY <2>1, <2>2, BudgetSteps, LeftTyped DEF Taken
  <2> QED BY <2>3 DEF budget
<1>2. phase' = "ACTIVE" => winner' = "NONE"
  <2>1. CASE UNCHANGED endVars  BY <2>1 DEF endVars, ContestInv
  <2>2. CASE checkMatchEnd
    <3>1. phase = "ACTIVE"  BY <2>2 DEF EndInv, checkMatchEnd, TypeOK
    <3> QED BY <2>2, <3>1 DEF checkMatchEnd
  <2> QED BY <2>1, <2>2, EndSteps
<1> QED BY <1>1, <1>2 DEF ContestInv

\* Each step of the engine is a step of the contest or leaves it alone.
LEMMA ContestStep ==
  ASSUME TypeOK, EndInv, ContestInv, [Next]_vars
  PROVE  [Contest!ContestNext]_(Contest!contestVars)
<1> USE DEF HidersLeft, SeekerLeft
<1>p. phase \in {"ACTIVE", "COMPLETE"}  BY DEF TypeOK
<1>1. CASE UNCHANGED endVars /\ HidersLeft' = HidersLeft /\ SeekerLeft' = SeekerLeft
  BY <1>1 DEF Contest!contestVars, endVars
<1>2. CASE UNCHANGED endVars /\ step = "seeker" /\ \E hit, lost \in Nat : Taken(hit, lost)
  <2>1. PICK hit \in Nat, lost \in Nat : Taken(hit, lost)  BY <1>2
  <2>2. phase = "ACTIVE"  BY <1>2, <1>p DEF EndInv
  <2>3. Contest!Strike(hit, lost)
    BY <1>2, <2>1, <2>2 DEF Contest!Strike, Taken, endVars
  <2>4. hit \in 0 .. PoolPerHider * HiderCount /\ lost \in 0 .. SeekerTokens
    <3> HIDE DEF HidersLeft, SeekerLeft
    <3> DEFINE budget == PoolPerHider * HiderCount
    <3>1. budget \in Nat
      <4>1. PoolPerHider \in Nat /\ HiderCount \in Nat  OBVIOUS
      <4> QED BY <4>1
    <3>2. HidersLeft <= budget /\ SeekerLeft <= SeekerTokens  BY DEF ContestInv
    <3> HIDE DEF budget
    <3>3. hit \in 0 .. budget /\ lost \in 0 .. SeekerTokens
      BY <2>1, <3>1, <3>2, LeftTyped DEF Taken
    <3> QED BY <3>3 DEF budget
  <2> QED BY <2>3, <2>4 DEF Contest!ContestNext
<1>3. CASE checkMatchEnd /\ HidersLeft' = HidersLeft /\ SeekerLeft' = SeekerLeft
  <2>1. phase = "ACTIVE" /\ winner = "NONE"
    BY <1>3, <1>p DEF EndInv, ContestInv, checkMatchEnd
  <2>2. CASE Decision = "NONE"
    BY <1>3, <2>1, <2>2 DEF checkMatchEnd, Contest!contestVars
  <2>3. CASE Decision = "HIDERS"
    BY <1>3, <2>1, <2>3 DEF checkMatchEnd, Contest!HidersWin, Contest!ContestNext
  <2>4. CASE Decision = "SEEKER"
    <3>1. HidersLost  BY <2>4 DEF Decision
    <3>2. HidersLeft = 0  BY <3>1, FS_EmptySet DEF HidersLost
    <3> QED BY <1>3, <2>1, <2>4, <3>2 DEF checkMatchEnd, Contest!SeekerWins, Contest!ContestNext
  <2> QED BY <2>2, <2>3, <2>4 DEF Decision
<1> QED BY <1>1, <1>2, <1>3, BudgetSteps, EndSteps

\* What the budgets have left never exceeds what they started with.
LEMMA ContestInvariant == Spec => []ContestInv
<1>1. TypeOK /\ EndInv /\ ContestInv /\ [Next]_vars => ContestInv'  BY ContestInvStep
<1> QED BY <1>1, ContestInit, TypeCorrect, EndInvariant, PTL DEF Spec

\* The engine plays the connection contest, whatever moves are made and however
\* hiders, servers and connections come and go: only probes destroy connections
\* and tokens, never the seeker's last, and the seeker wins only over hiders that
\* have nothing left.
THEOREM EnginePlaysContest == Spec => PlaysContest
<1>1. TypeOK /\ EndInv /\ ContestInv /\ [Next]_vars => [Contest!ContestNext]_(Contest!contestVars)
  BY ContestStep
<1> QED BY <1>1, ContestInit, TypeCorrect, EndInvariant, ContestInvariant, PTL
        DEF Spec, PlaysContest, Contest!ContestSpec

-----------------------------------------------------------------------------
(* The advance limit.                                                      *)

\* What the triggering move costs, and whether its hider paid for another one
\* since the call began.
Fee == ApCost[trigger.kind]
Outspent == trigger.hider \in spenders \cup {m.hider : m \in accepted}

\* While nobody else spends its hider's points, the ticks left bring enough of
\* them for the trigger, and a tick that went by without it found them short.
TriggerInv ==
  /\ step # "idle" => result = NoResult
  /\ step \in {"idle", "tick"} => accepted = {}
  /\ step \in {"seeker", "end", "settle"} => todo = {}
  /\ step # "idle" /\ HasTrigger =>
       /\ trigger.kind \in Modes
       /\ Outspent \/ (Fee <= ApCap /\ Fee <= ap[trigger.hider] + ticksLeft * ApRegen)
       /\ step # "tick" => trigger \in todo \cup accepted \cup refused \/ ap[trigger.hider] < Fee

\* The trigger is a move.
LEMMA TriggerIsMove ==
  ASSUME TypeOK, HasTrigger
  PROVE  trigger \in Moves /\ trigger.hider \in Hiders
         /\ ap[trigger.hider] \in 0 .. ApCap
BY DEF TypeOK, HasTrigger, Moves

\* An advancing playMove waits for a mode that regeneration will pay for.
LEMMA TriggerAffordable ==
  ASSUME TypeOK, NEW m \in Moves, OutcomeNow(m) = "INSUFFICIENT_RESOURCE", becomesAffordable(m)
  PROVE  /\ m.kind \in Modes
         /\ ApCost[m.kind] <= ApCap
         /\ ApCost[m.kind] <= ap[m.hider] + MaxAdvance * ApRegen
<1>1. PICK n \in 1 .. MaxAdvance : Outcome(m, RegeneratedBy(m.hider, n)) = "ACCEPTED"
  BY DEF becomesAffordable
<1>2. Unaffordable(m, ap[m.hider]) /\ ~ Unaffordable(m, RegeneratedBy(m.hider, n))
  BY <1>1 DEF OutcomeNow, Outcome
<1>3. m.kind \in Modes /\ ~ (RegeneratedBy(m.hider, n) < ApCost[m.kind])
  BY <1>2 DEF Unaffordable
<1>4. ap[m.hider] \in Nat /\ ApCost[m.kind] \in Nat
  <2>1. m.hider \in Hiders  BY DEF Moves
  <2> QED BY <1>3, <2>1, BudgetsTyped
<1>5. n * ApRegen \in Nat /\ MaxAdvance * ApRegen \in Nat /\ n * ApRegen <= MaxAdvance * ApRegen
  <2>1. \A k, l, a \in Nat : k <= l => k * a \in Nat /\ l * a \in Nat /\ k * a <= l * a
    OBVIOUS
  <2>2. n \in Nat /\ MaxAdvance \in Nat /\ n <= MaxAdvance /\ ApRegen \in Nat  OBVIOUS
  <2> QED BY ONLY <2>1, <2>2
<1>6. ApCost[m.kind] <= RegeneratedBy(m.hider, n)
  <2>1. RegeneratedBy(m.hider, n) \in Nat  BY <1>4, <1>5 DEF RegeneratedBy, Lower
  <2> QED BY <1>3, <1>4, <2>1
<1> DEFINE some == n * ApRegen
           all == MaxAdvance * ApRegen
<1>7. some \in Nat /\ all \in Nat /\ some <= all  BY <1>5
<1>8. ApCost[m.kind] <= Lower(ap[m.hider] + some, ApCap)  BY <1>6 DEF RegeneratedBy
<1> HIDE DEF some, all
<1>9. ApCost[m.kind] <= ApCap /\ ApCost[m.kind] <= ap[m.hider] + all
  BY <1>4, <1>7, <1>8 DEF Lower
<1> QED BY <1>3, <1>9 DEF all

\* Calls keep the invariant: one that starts to advance establishes it.
LEMMA TriggerOfCall ==
  ASSUME TypeOK, TriggerInv, Call
  PROVE  TriggerInv'
<1> USE DEF TriggerInv
<1>i. step = "idle"
  BY DEF Call, PlayOrQueue, applyNow, RejectIllegal, playMoveLater, queueMoveLater, passTicks,
         cancelPendingMove, RejectNotActive, Callable
<1>u. ASSUME AtRest PROVE TriggerInv'  BY <1>u, <1>i DEF AtRest, tickVars
<1>r. ASSUME NEW reason, Reject(reason) PROVE TriggerInv'  BY <1>r, <1>u DEF Reject
<1>1. ASSUME NEW m \in Moves, playMoveLater(m) PROVE TriggerInv'
  <2>1. CASE becomesAffordable(m) /\ StartAdvance(m, MaxAdvance)
    <3>1. /\ step' = "tick" /\ result' = NoResult /\ accepted' = {}
          /\ trigger' = m /\ ticksLeft' = MaxAdvance /\ UNCHANGED ap
      BY <2>1, <1>i DEF StartAdvance, tickVars, ruleVars
    <3>2. /\ m.kind \in Modes /\ ApCost[m.kind] <= ApCap
          /\ ApCost[m.kind] <= ap[m.hider] + MaxAdvance * ApRegen
      BY <1>1, <2>1, TriggerAffordable DEF playMoveLater
    <3> QED BY <3>1, <3>2 DEF Fee
  <2> QED BY <1>1, <2>1, <1>r DEF playMoveLater
<1>2. ASSUME NEW ticks, passTicks(ticks) PROVE TriggerInv'
  <2>1. CASE StartAdvance(NoMove, ticks)
    BY <2>1, <1>i DEF StartAdvance, tickVars, HasTrigger
  <2> QED BY <1>2, <2>1, <1>r DEF passTicks
<1>3. ASSUME NEW h \in Hiders, NEW kind \in Kinds, NEW s \in Servers,
             PlayOrQueue(Submitted(h, kind, s))
      PROVE  TriggerInv'
  <2>1. Submitted(h, kind, s) \in Moves  BY SubmittedTyped, TypeParts
  <2> QED BY <1>3, <2>1, <1>1, <1>r, <1>u DEF PlayOrQueue, applyNow, RejectIllegal, queueMoveLater
<1> QED BY <1>2, <1>3, <1>r, <1>u DEF Call, cancelPendingMove, RejectNotActive

\* A tick brings the points it was counted on for.
LEMMA TickRegenerates ==
  ASSUME NEW fee \in Nat, NEW points \in 0 .. ApCap, NEW left \in Nat, left > 0,
         fee <= ApCap, fee <= points + left * ApRegen
  PROVE  fee <= SaturatingAdd(points, ApRegen, ApCap) + (left - 1) * ApRegen
<1>1. left * ApRegen = (left - 1) * ApRegen + ApRegen
  <2>1. \A k, a \in Nat : (k + 1) * a = k * a + a  OBVIOUS
  <2>2. left - 1 \in Nat /\ left = (left - 1) + 1 /\ ApRegen \in Nat  OBVIOUS
  <2> QED BY ONLY <2>1, <2>2
<1>2. (left - 1) * ApRegen \in Nat
  <2>1. \A k, a \in Nat : k * a \in Nat  OBVIOUS
  <2>2. left - 1 \in Nat /\ ApRegen \in Nat  OBVIOUS
  <2> QED BY ONLY <2>1, <2>2
<1> DEFINE rest == (left - 1) * ApRegen
<1>3. rest \in Nat /\ fee <= points + (rest + ApRegen)  BY <1>1, <1>2
<1> HIDE DEF rest
<1>4. fee <= SaturatingAdd(points, ApRegen, ApCap) + rest
  BY <1>3 DEF SaturatingAdd, Lower
<1> QED BY <1>4 DEF rest

\* A dispatched move leaves other hiders' points alone.
LEMMA PaysItsOwn ==
  ASSUME TypeOK, NEW m \in Moves, Applies(m), NEW h \in Hiders
  PROVE  ap'[h] <= ap[h] /\ ap'[h] \in Int /\ (h # m.hider => ap'[h] = ap[h])
<1>1. m.hider \in Hiders /\ ap \in [Hiders -> 0 .. ApCap]  BY DEF Moves, TypeOK
<1>2. ap[h] \in Nat  BY BudgetsTyped
<1>3. CASE applyHiderAction(m)
  <2>1. ApCost[m.kind] \in Nat /\ ap' = [ap EXCEPT ![m.hider] = @ - ApCost[m.kind]]
    BY <1>3 DEF applyHiderAction
  <2> QED BY <1>1, <1>2, <2>1
<1>4. CASE UNCHANGED ap  BY <1>2, <1>4
<1> QED BY <1>3, <1>4 DEF Applies, applyTickIntent, applyAddServer, applyRemoveServer,
                          applyConnect, applyDisconnect

\* A candidate that is tried pays or finds its points short, the trigger too.
LEMMA TriggerOfDispatch ==
  ASSUME TypeOK, TriggerInv, NEW m \in todo, Dispatch(m)
  PROVE  TriggerInv'
<1>0. /\ step = "intents" /\ step' = "intents" /\ todo' = todo \ {m} /\ m \in Moves
      /\ UNCHANGED <<trigger, ticksLeft, spenders, result>>
  BY DEF Dispatch, Dispatched, callVars, TypeOK
<1>1. SUFFICES ASSUME HasTrigger
      PROVE  /\ Outspent' \/ (Fee <= ApCap /\ Fee <= ap'[trigger.hider] + ticksLeft * ApRegen)
             /\ trigger \in todo' \cup accepted' \cup refused' \/ ap'[trigger.hider] < Fee
  BY <1>0 DEF TriggerInv, HasTrigger, Fee
<1> DEFINE h == trigger.hider
           more == ticksLeft * ApRegen
<1>2. /\ trigger.kind \in Modes
      /\ Outspent \/ (Fee <= ApCap /\ Fee <= ap[h] + more)
      /\ trigger \in todo \cup accepted \cup refused \/ ap[h] < Fee
  BY <1>0, <1>1 DEF TriggerInv
<1>3. h \in Hiders /\ ap[h] \in Nat /\ Fee \in Nat
  BY <1>1, <1>2, TriggerIsMove, BudgetsTyped DEF Fee
<1>s. accepted \subseteq accepted' => (Outspent => Outspent')  BY <1>0 DEF Outspent
<1> HIDE DEF h, more
<1>4. CASE Applies(m) /\ accepted' = accepted \cup {m} /\ UNCHANGED refused
  <2>1. ap'[h] \in Int /\ ap'[h] <= ap[h] /\ (h # m.hider => ap'[h] = ap[h])
    BY <1>0, <1>3, <1>4, PaysItsOwn
  <2>2. h = m.hider => Outspent'  BY <1>0, <1>4 DEF Outspent, h
  <2>3. Outspent' \/ (Fee <= ApCap /\ Fee <= ap'[h] + more)
    BY <1>2, <1>4, <1>s, <2>1, <2>2
  <2>4. trigger \in todo' \cup accepted' \cup refused' \/ ap'[h] < Fee
    <3>1. CASE trigger \in todo \cup accepted \cup refused  BY <1>0, <1>4, <3>1
    <3>2. CASE ap[h] < Fee  BY <1>3, <2>1, <3>2
    <3> QED BY <1>2, <3>1, <3>2
  <2> QED BY <2>3, <2>4 DEF h, more
<1>5. CASE OutcomeNow(m) = "INSUFFICIENT_RESOURCE" /\ UNCHANGED <<ruleVars, accepted, refused>>
  <2>1. UNCHANGED ap  BY <1>5 DEF ruleVars
  <2>2. m = trigger => ap[h] < Fee
    <3>1. Unaffordable(m, ap[m.hider])  BY <1>5 DEF OutcomeNow, Outcome
    <3>2. Modes \cap {"ADD_SERVER", "REMOVE_SERVER"} = {}  OBVIOUS
    <3> QED BY <1>2, <3>1, <3>2 DEF Unaffordable, Fee, h
  <2>3. Outspent' \/ (Fee <= ApCap /\ Fee <= ap'[h] + more)  BY <1>2, <1>5, <1>s, <2>1
  <2>4. trigger \in todo' \cup accepted' \cup refused' \/ ap'[h] < Fee
    BY <1>0, <1>2, <1>5, <2>1, <2>2
  <2> QED BY <2>3, <2>4 DEF h, more
<1>6. CASE refused' = refused \cup {m} /\ UNCHANGED <<ruleVars, accepted>>
  <2>1. UNCHANGED ap  BY <1>6 DEF ruleVars
  <2>2. Outspent' \/ (Fee <= ApCap /\ Fee <= ap'[h] + more)  BY <1>2, <1>6, <1>s, <2>1
  <2>3. trigger \in todo' \cup accepted' \cup refused' \/ ap'[h] < Fee
    BY <1>0, <1>2, <1>6, <2>1
  <2> QED BY <2>2, <2>3 DEF h, more
<1> QED BY <1>4, <1>5, <1>6 DEF Dispatch, Applies

\* Every step of an advancing call keeps the invariant.
LEMMA TriggerOfAdvance ==
  ASSUME TypeOK, TriggerInv, Advance
  PROVE  TriggerInv'
<1>1. CASE BeginTick
  <2>1. /\ step = "tick" /\ step' = "intents" /\ accepted = {} /\ ticksLeft > 0
        /\ ticksLeft' = ticksLeft - 1 /\ accepted' = {} /\ todo' = Candidates
        /\ ap' = [g \in Hiders |-> SaturatingAdd(ap[g], ApRegen, ApCap)]
        /\ UNCHANGED <<trigger, spenders, result>>
    BY <1>1 DEF BeginTick, TriggerInv
  <2>2. ASSUME HasTrigger
        PROVE  /\ Outspent' \/ (Fee <= ApCap /\ Fee <= ap'[trigger.hider] + ticksLeft' * ApRegen)
               /\ trigger \in todo'
    <3>1. trigger \in todo'  BY <2>1, <2>2 DEF Candidates, HasTrigger
    <3>2. CASE Outspent
      <4>1. Outspent'  BY <2>1, <3>2 DEF Outspent
      <4> QED BY <3>1, <4>1
    <3>3. CASE Fee <= ApCap /\ Fee <= ap[trigger.hider] + ticksLeft * ApRegen
      <4>1. Fee \in Nat  BY <2>1, <2>2 DEF Fee, TriggerInv
      <4>2. ap[trigger.hider] \in 0 .. ApCap /\ trigger.hider \in Hiders  BY <2>2, TriggerIsMove
      <4>3. ticksLeft \in Nat  BY DEF TypeOK
      <4>4. Fee <= SaturatingAdd(ap[trigger.hider], ApRegen, ApCap) + (ticksLeft - 1) * ApRegen
        BY <2>1, <3>3, <4>1, <4>2, <4>3, TickRegenerates
      <4>5. ap'[trigger.hider] = SaturatingAdd(ap[trigger.hider], ApRegen, ApCap)
        BY <2>1, <4>2
      <4>6. Fee <= ap'[trigger.hider] + ticksLeft' * ApRegen  BY <2>1, <4>4, <4>5
      <4> QED BY <3>1, <3>3, <4>6
    <3> QED BY <2>1, <2>2, <3>2, <3>3 DEF TriggerInv
  <2> QED BY <2>1, <2>2 DEF TriggerInv, HasTrigger, Fee
<1>2. ASSUME NEW m \in todo, Dispatch(m) PROVE TriggerInv'  BY <1>2, TriggerOfDispatch
<1>3. CASE BeginSeeker \/ Probes \/ Reconnects \/ checkMatchEnd
  <2>1. /\ step \notin {"idle", "tick"} /\ step' \in {"seeker", "end", "settle"}
        /\ step = "intents" => todo = {}
        /\ step \in {"intents", "seeker", "end"}
        /\ UNCHANGED <<ap, trigger, ticksLeft, spenders, todo, accepted, refused, result>>
    BY <1>3 DEF BeginSeeker, Probes, Probe, Reconnects, MoveConnections, checkMatchEnd, ruleVars,
                hiderVars, callVars, tickVars
  <2> QED BY <2>1 DEF TriggerInv, HasTrigger, Outspent, Fee
<1>4. CASE Settle
  <2>1. CASE /\ step' = "tick" /\ spenders' = spenders \cup {m.hider : m \in accepted}
             /\ accepted' = {} /\ UNCHANGED <<trigger, ticksLeft, result>>
    <3>1. step = "settle" /\ UNCHANGED ap  BY <1>4 DEF Settle, ruleVars
    <3>2. Outspent' <=> Outspent  BY <2>1 DEF Outspent
    <3> QED BY <2>1, <3>1, <3>2 DEF TriggerInv, HasTrigger, Fee
  <2>2. CASE step' = "idle" /\ accepted' = {}  BY <2>2 DEF TriggerInv
  <2> QED BY <1>4, <2>1, <2>2 DEF Settle, Return
<1> QED BY <1>1, <1>2, <1>3, <1>4 DEF Advance, Probes, Reconnects

\* So the invariant holds throughout.
LEMMA TriggerInvariant == Spec => []TriggerInv
<1>1. Init => TriggerInv  BY DEF Init, TriggerInv
<1>2. TypeOK /\ TriggerInv /\ [Next]_vars => TriggerInv'
  <2>1. TriggerInv /\ UNCHANGED vars => TriggerInv'
    BY DEF TriggerInv, HasTrigger, Outspent, Fee, vars, ruleVars, callVars, tickVars
  <2> QED BY <2>1, TriggerOfCall, TriggerOfAdvance DEF Next
<1> QED BY <1>1, <1>2, TypeCorrect, PTL DEF Spec

\* The step that reports the limit finds the points spent.
LEMMA LimitStep ==
  ASSUME TypeOK, TriggerInv, [Next]_vars, result'.reason = "ADVANCE_LIMIT", step # "idle"
  PROVE  trigger.hider \in spenders \cup {m.hider : m \in accepted}
<1>0. result.reason = "NONE"  BY DEF TriggerInv, NoResult
<1>1. UNCHANGED result => FALSE  BY <1>0
<1>2. ~ Call
  BY DEF Call, PlayOrQueue, applyNow, RejectIllegal, playMoveLater, queueMoveLater, passTicks,
         cancelPendingMove, RejectNotActive, Callable
<1>3. Settle
  BY <1>1, <1>2 DEF Next, vars, Advance, BeginTick, Dispatch, BeginSeeker, Probe,
                    MoveConnections, checkMatchEnd
<1>4. HasTrigger /\ Waiting /\ BudgetSpent
  BY <1>1, <1>3 DEF Settle, Return, Result
<1>5. step = "settle" /\ ticksLeft = 0 /\ trigger \notin accepted \cup refused
  BY <1>3, <1>4 DEF Settle, Waiting, BudgetSpent
<1>6. Outspent \/ (Fee <= ap[trigger.hider] + ticksLeft * ApRegen /\ ap[trigger.hider] < Fee)
  BY <1>4, <1>5 DEF TriggerInv
<1>7. ticksLeft * ApRegen = 0  BY <1>5
<1>8. ap[trigger.hider] \in Nat /\ Fee \in Nat
  <2>1. trigger.kind \in Modes  BY <1>4, <1>5 DEF TriggerInv
  <2> QED BY <1>4, <2>1, TriggerIsMove, BudgetsTyped DEF Fee
<1>9. Outspent  BY <1>6, <1>7, <1>8
<1> QED BY <1>9 DEF Outspent

\* The advance limit is only reported to a hider whose points an earlier move of
\* its own took, for any costs, caps and numbers of ticks: regeneration alone
\* brings what becomesAffordable promised (turn_engine.cpp, playMove).
THEOREM LimitMeansOutspent == Spec => AdvanceLimitOnlyWhenOutspent
<1>1. TypeOK /\ TriggerInv /\ [Next]_vars =>
        [result'.reason = "ADVANCE_LIMIT" /\ step # "idle" =>
           trigger.hider \in spenders \cup {m.hider : m \in accepted}]_vars
  BY LimitStep
<1> QED BY <1>1, TypeCorrect, TriggerInvariant, PTL DEF Spec, AdvanceLimitOnlyWhenOutspent

-----------------------------------------------------------------------------
(* The room for public events.                                             *)

LoaKinds == {"ADD_SERVER", "REMOVE_SERVER"}

\* No candidate of a tick can pay a LOA: a move only waits because its hider
\* could not pay for it, and LOA is never given back.
CandidatesInv == \A m \in Candidates \cup todo : m.kind \in LoaKinds => loa[m.hider] < 1

\* At rest no event is told; in a call each took something from a budget.
EventsInv ==
  /\ step = "idle" => events = 0
  /\ events + HidersLeft + SeekerLeft <= PoolPerHider * HiderCount + SeekerTokens

\* LOA is spent by moves and never regained.
LEMMA LoaOnlyFalls ==
  ASSUME TypeOK, [Next]_vars, NEW h \in Hiders
  PROVE  loa[h] < 1 => loa'[h] < 1
<1>0. loa \in [Hiders -> Nat]  BY DEF TypeOK
<1>1. CASE UNCHANGED loa  BY <1>1
<1>2. ASSUME NEW m \in Moves, Applies(m) PROVE loa[h] < 1 => loa'[h] < 1
  <2>1. m.hider \in Hiders  BY DEF Moves
  <2>2. CASE loa' = [loa EXCEPT ![m.hider] = @ - 1]  BY <2>1, <2>2, <1>0
  <2>3. CASE UNCHANGED loa  BY <2>3
  <2> QED BY <1>2, <2>2, <2>3 DEF Applies, applyTickIntent, applyHiderAction, applyAddServer,
                                  applyRemoveServer, applyConnect, applyDisconnect
<1>3. CASE Probes  BY <1>3, <1>1 DEF Probes, Probe
<1>4. CASE Reconnects  BY <1>4, <1>1 DEF Reconnects, MoveConnections, hiderVars
<1> QED BY <1>1, <1>2, <1>3, <1>4, BoardSteps

\* What waits after a step waited before it, or could not pay when it was made.
LEMMA NewCandidates ==
  ASSUME TypeOK, [Next]_vars, NEW m \in Candidates' \cup todo'
  PROVE  m \in Candidates \cup todo \/ (m \in Moves /\ Unaffordable(m, ap[m.hider]))
<1> DEFINE Goal(n) == n \in Candidates \cup todo \/ (n \in Moves /\ Unaffordable(n, ap[n.hider]))
           Kept == \A n \in Candidates' \cup todo' : Goal(n)
<1>u. UNCHANGED <<pending, trigger, todo>> => Kept  BY DEF Candidates
<1>r. ASSUME NEW reason, Reject(reason) PROVE Kept
  BY <1>r, <1>u DEF Reject, AtRest, ringVars, callVars, tickVars
<1>1. CASE UNCHANGED vars  BY <1>1, <1>u DEF vars, ringVars, callVars, tickVars
<1>2. ASSUME NEW h \in Hiders, NEW kind \in Kinds, NEW s \in Servers,
             PlayOrQueue(Submitted(h, kind, s))
      PROVE  Kept
  <2> DEFINE o == Submitted(h, kind, s)
  <2>1. o \in Moves  BY SubmittedTyped, TypeParts
  <2> HIDE DEF o
  <2>2. OutcomeNow(o) = "INSUFFICIENT_RESOURCE" => Unaffordable(o, ap[o.hider])
    BY DEF OutcomeNow, Outcome
  <2>3. CASE applyNow(o)  BY <2>3, <1>u DEF applyNow, AtRest, ringVars, callVars, tickVars
  <2>4. CASE RejectIllegal(o)  BY <2>4, <1>r DEF RejectIllegal
  <2>5. CASE playMoveLater(o)
    <3>1. CASE StartAdvance(o, MaxAdvance)
      <4>1. trigger' = o /\ UNCHANGED <<pending, todo>>
        BY <3>1 DEF StartAdvance, ringVars, tickVars
      <4> QED BY <4>1, <2>1, <2>2, <2>5 DEF Candidates, playMoveLater
    <3> QED BY <3>1, <2>5, <1>r DEF playMoveLater
  <2>6. CASE queueMoveLater(o)
    <3>1. CASE pending' = pending \cup {o} /\ AtRest
      BY <3>1, <2>1, <2>2, <2>6 DEF queueMoveLater, AtRest, callVars, tickVars, Candidates
    <3> QED BY <3>1, <2>6, <1>r DEF queueMoveLater
  <2>7. PlayOrQueue(o)  BY <1>2 DEF o
  <2> QED BY <2>3, <2>4, <2>5, <2>6, <2>7 DEF PlayOrQueue
<1>3. ASSUME NEW ticks, passTicks(ticks) PROVE Kept
  <2>1. CASE StartAdvance(NoMove, ticks)
    BY <2>1 DEF StartAdvance, ringVars, tickVars, Candidates
  <2> QED BY <2>1, <1>3, <1>r DEF passTicks
<1>4. ASSUME NEW h, NEW seq, cancelPendingMove(h, seq) PROVE Kept
  <2>1. CASE pending' \subseteq pending /\ AtRest
    BY <2>1 DEF AtRest, callVars, tickVars, Candidates
  <2> QED BY <2>1, <1>4, <1>r DEF cancelPendingMove
<1>5. CASE RejectNotActive  BY <1>5, <1>r DEF RejectNotActive
<1>6. CASE BeginTick  BY <1>6 DEF BeginTick, ringVars, Candidates
<1>7. ASSUME NEW o \in todo, Dispatch(o) PROVE Kept
  BY <1>7 DEF Dispatch, Dispatched, ringVars, callVars, Candidates
<1>8. CASE BeginSeeker \/ Probes \/ Reconnects \/ checkMatchEnd
  BY <1>8, <1>u DEF BeginSeeker, Probes, Probe, Reconnects, MoveConnections, checkMatchEnd,
                    ringVars, callVars, tickVars
<1>9. CASE Settle
  <2>1. pending' \subseteq pending /\ todo' \subseteq todo /\ trigger' \in {trigger, NoMove}
    BY <1>9 DEF Settle, compactPending, Return
  <2> QED BY <2>1 DEF Candidates
<1> QED BY <1>1, <1>2, <1>3, <1>4, <1>5, <1>6, <1>7, <1>8, <1>9
        DEF Next, Call, Advance, Probes, Reconnects

\* So no candidate emits a lifecycle event.
LEMMA CandidatesInvariant == Spec => []CandidatesInv
<1>1. Init => CandidatesInv  BY DEF Init, CandidatesInv, Candidates
<1>2. TypeOK /\ CandidatesInv /\ [Next]_vars => CandidatesInv'
  <2> SUFFICES ASSUME TypeOK, CandidatesInv, [Next]_vars,
                      NEW m \in Candidates' \cup todo', m.kind \in LoaKinds
               PROVE  loa'[m.hider] < 1
    BY DEF CandidatesInv
  <2>1. m \in Moves /\ loa[m.hider] < 1
    <3>1. CASE m \in Candidates \cup todo
      <4>1. m \in Moves  BY <3>1, CandidatesTyped, TypeParts DEF TypeOK
      <4> QED BY <3>1, <4>1 DEF CandidatesInv
    <3>2. CASE m \in Moves /\ Unaffordable(m, ap[m.hider])
      BY <3>2 DEF Unaffordable, LoaKinds
    <3> QED BY <3>1, <3>2, NewCandidates
  <2>2. m.hider \in Hiders  BY <2>1 DEF Moves
  <2> QED BY <2>1, <2>2, LoaOnlyFalls
<1> QED BY <1>1, <1>2, TypeCorrect, PTL DEF Spec

\* During a call only a probe adds an event, and it takes from a budget.
LEMMA EventSteps ==
  ASSUME TypeOK, CandidatesInv, EventsInv, [Next]_vars
  PROVE  \/ events' = 0
         \/ events' = events
         \/ events' = events + 1 /\ Probes
<1> DEFINE Goal == events' = 0 \/ events' = events \/ (events' = events + 1 /\ Probes)
<1>r. ASSUME NEW reason, Reject(reason) PROVE Goal  BY <1>r DEF Reject, AtRest
<1>a. ASSUME NEW m, NEW budget, StartAdvance(m, budget) PROVE Goal  BY <1>a DEF StartAdvance
<1>1. CASE UNCHANGED vars  BY <1>1 DEF vars
<1>2. ASSUME NEW m, PlayOrQueue(m) PROVE Goal
  BY <1>2, <1>r, <1>a DEF PlayOrQueue, applyNow, RejectIllegal, playMoveLater, queueMoveLater, AtRest
<1>3. CASE Call  BY <1>3, <1>2, <1>r, <1>a DEF Call, passTicks, cancelPendingMove, RejectNotActive, AtRest
<1>4. ASSUME NEW m \in todo, Dispatch(m) PROVE Goal
  <2>1. CASE OutcomeNow(m) = "ACCEPTED" /\ events' = events + Emitted(m)
    <3>1. m \in Moves  BY DEF TypeOK
    <3>2. ~ Unaffordable(m, ap[m.hider])  BY <2>1 DEF OutcomeNow, Outcome
    <3>3. m.kind \notin LoaKinds
      BY <3>2 DEF CandidatesInv, Unaffordable, LoaKinds
    <3>4. Emitted(m) = 0  BY <3>3 DEF Emitted, LoaKinds
    <3>5. events \in Nat  BY DEF TypeOK
    <3> QED BY <2>1, <3>4, <3>5
  <2> QED BY <1>4, <2>1 DEF Dispatch
<1>5. ASSUME NEW s \in Servers, NEW wager \in 1 .. MaxWager, Probe(s, wager) PROVE Goal
  BY <1>5 DEF Probe, applyWager, Probes
<1>6. CASE BeginTick \/ BeginSeeker \/ Reconnects \/ checkMatchEnd \/ Settle
  BY <1>6 DEF BeginTick, BeginSeeker, Reconnects, MoveConnections, checkMatchEnd, Settle, Return
<1> QED BY <1>1, <1>3, <1>4, <1>5, <1>6 DEF Next, Advance, Reconnects

\* A call that returns has told its events, and other calls tell none.
LEMMA IdleIsQuiet ==
  ASSUME TypeOK, EventsInv, [Next]_vars, step' = "idle"
  PROVE  events' = 0
<1>r. ASSUME NEW reason, Reject(reason), step = "idle" PROVE events' = 0
  BY <1>r DEF Reject, AtRest, EventsInv
<1>1. CASE UNCHANGED vars  BY <1>1 DEF vars, EventsInv
<1>2. ASSUME NEW m, PlayOrQueue(m) PROVE events' = 0
  BY <1>2, <1>r DEF PlayOrQueue, applyNow, RejectIllegal, playMoveLater, queueMoveLater, AtRest,
                    StartAdvance, Callable, EventsInv
<1>3. CASE Call
  BY <1>3, <1>2, <1>r DEF Call, passTicks, cancelPendingMove, RejectNotActive, AtRest, StartAdvance,
                          Callable, EventsInv
<1>4. CASE Settle  BY <1>4 DEF Settle, Return
<1>5. CASE Advance /\ ~ Settle
  BY <1>5 DEF Advance, BeginTick, Dispatch, BeginSeeker, Probe, MoveConnections, checkMatchEnd
<1> QED BY <1>1, <1>3, <1>4, <1>5 DEF Next

\* Neither budget grows.
LEMMA BudgetsOnlyFall ==
  ASSUME TypeOK, [Next]_vars
  PROVE  /\ HidersLeft' \in Nat /\ SeekerLeft' \in Nat
         /\ HidersLeft' + SeekerLeft' <= HidersLeft + SeekerLeft
         /\ Probes => HidersLeft' + SeekerLeft' < HidersLeft + SeekerLeft
<1>1. ASSUME NEW hit \in Nat, NEW lost \in Nat, Taken(hit, lost)
      PROVE  /\ HidersLeft' \in Nat /\ SeekerLeft' \in Nat
             /\ HidersLeft' + SeekerLeft' < HidersLeft + SeekerLeft
  BY <1>1, LeftTyped DEF Taken
<1>2. CASE Probes  BY <1>1, <1>2, ProbesTake, LeftTyped
<1> QED BY <1>1, <1>2, BudgetSteps, LeftTyped

\* Every event told in a call has taken a connection or a token.
LEMMA EventsStep ==
  ASSUME TypeOK, TypeOK', CandidatesInv, EventsInv, ContestInv', [Next]_vars
  PROVE  EventsInv'
<1> DEFINE budget == PoolPerHider * HiderCount + SeekerTokens
<1>b. PoolPerHider * HiderCount \in Nat /\ SeekerTokens \in Nat
  <2>1. PoolPerHider \in Nat /\ HiderCount \in Nat /\ SeekerTokens \in Nat  OBVIOUS
  <2> QED BY <2>1
<1>1. events + HidersLeft + SeekerLeft <= budget  BY DEF EventsInv
<1>2. HidersLeft' + SeekerLeft' <= budget
  <2>1. HidersLeft' <= PoolPerHider * HiderCount /\ SeekerLeft' <= SeekerTokens
    BY DEF ContestInv
  <2> DEFINE pool0 == PoolPerHider * HiderCount
  <2>2. pool0 \in Nat /\ HidersLeft' <= pool0 /\ budget = pool0 + SeekerTokens  BY <1>b, <2>1
  <2> HIDE DEF pool0, budget
  <2> QED BY <1>b, <2>1, <2>2, BudgetsOnlyFall
<1>3. budget \in Nat  BY <1>b
<1>4. events \in Nat  BY DEF TypeOK
<1> HIDE DEF budget
<1>5. events' + HidersLeft' + SeekerLeft' <= budget
  <2>1. CASE events' = 0  BY <1>2, <1>3, <2>1, BudgetsOnlyFall
  <2>2. CASE events' = events  BY <1>1, <1>3, <1>4, <2>2, BudgetsOnlyFall, LeftTyped
  <2>3. CASE events' = events + 1 /\ Probes
    BY <1>1, <1>3, <1>4, <2>3, BudgetsOnlyFall, LeftTyped
  <2> QED BY <2>1, <2>2, <2>3, EventSteps
<1> QED BY <1>5, IdleIsQuiet DEF EventsInv, budget

\* A call tells fewer events than there are connections and tokens.
LEMMA EventsInvariant == Spec => []EventsInv
<1>1. Init => EventsInv
  <2> SUFFICES ASSUME Init PROVE EventsInv  OBVIOUS
  <2>1. HidersLeft <= PoolPerHider * HiderCount /\ SeekerLeft <= SeekerTokens
    BY ContestInit DEF ContestInv
  <2>2. events = 0 /\ step = "idle" /\ HidersLeft \in Nat /\ SeekerLeft \in Nat
    BY TypeInit, LeftTyped DEF Init
  <2> DEFINE pool0 == PoolPerHider * HiderCount
  <2>3. pool0 \in Nat
    <3>1. PoolPerHider \in Nat /\ HiderCount \in Nat  OBVIOUS
    <3> QED BY <3>1
  <2>4. HidersLeft <= pool0  BY <2>1
  <2> HIDE DEF pool0
  <2>5. events + HidersLeft + SeekerLeft <= pool0 + SeekerTokens  BY <2>1, <2>2, <2>3, <2>4
  <2> QED BY <2>2, <2>5 DEF EventsInv, pool0
<1>2. TypeOK /\ TypeOK' /\ CandidatesInv /\ EventsInv /\ ContestInv' /\ [Next]_vars => EventsInv'
  BY EventsStep
<1> QED BY <1>1, <1>2, TypeCorrect, CandidatesInvariant, ContestInvariant, PTL DEF Spec

\* The ring and the events of a whole call fit the arrays they are kept in: the
\* array of events is sized for the intents and probes of one tick, yet a call of
\* many ticks cannot fill it, as each of its events destroys a connection of the
\* hiders or a token and the seeker's last one is never lost.  In the code
\* the connections and tokens are 3 * 8 + 12, and the events that fit are 80.
THEOREM BuffersAlwaysSuffice ==
  ASSUME PoolPerHider * HiderCount + SeekerTokens <= EventCap + 1
  PROVE  Spec => []BuffersSuffice
<1>1. TypeOK /\ SeekerNeverExhausted /\ EventsInv => NoEventLost
  <2> SUFFICES ASSUME TypeOK, SeekerNeverExhausted, EventsInv PROVE NoEventLost  OBVIOUS
  <2> DEFINE budget == PoolPerHider * HiderCount + SeekerTokens
  <2>1. budget \in Nat
    <3>1. PoolPerHider \in Nat /\ HiderCount \in Nat /\ SeekerTokens \in Nat  OBVIOUS
    <3>2. PoolPerHider * HiderCount \in Nat  BY <3>1
    <3> QED BY <3>1, <3>2
  <2>2. events + HidersLeft + SeekerLeft <= budget /\ budget <= EventCap + 1  BY DEF EventsInv
  <2>3. SeekerLeft >= 1
    BY LeftTyped, FS_EmptySet DEF SeekerLeft, SeekerNeverExhausted
  <2>4. events \in Nat  BY DEF TypeOK
  <2> HIDE DEF budget
  <2> QED BY <2>1, <2>2, <2>3, <2>4, LeftTyped DEF NoEventLost
<1>2. RingBounded /\ NoEventLost => BuffersSuffice  BY DEF BuffersSuffice
<1> QED BY <1>1, <1>2, TypeCorrect, SeekerKeepsAConnection, EventsInvariant, RingStaysBounded, PTL
=============================================================================
