---------------------------- MODULE MatchService ----------------------------
(***************************************************************************)
(* HiderSeekerService: the requests of one hider-seeker match, handled by  *)
(* several server threads.                                                 *)
(*                                                                         *)
(* A request that touches the match holds the match's mutex while it       *)
(* loads, checks, changes, saves and publishes (runGuarded).  A successful *)
(* start, move or cancel is followed, without the mutex, by a round in     *)
(* which every NPC hider reads its own view and may submit one move; each  *)
(* of these reads and moves takes the mutex again, so client requests slip *)
(* in between.  The process may crash between any two steps: the stored    *)
(* record and snapshots survive, threads and answers do not.               *)
(*                                                                         *)
(* The turn engine is used through its contract (turn_engine.hpp): what it *)
(* rejects changes nothing, anything else is one revision.  Request bodies *)
(* are reduced to what the checks tell apart, and a save either happens or *)
(* not (FileStore models when that is so).                                 *)
(***************************************************************************)
EXTENDS Integers, Sequences, FiniteSets

CONSTANTS
  Workers,      \* server threads
  Clients,      \* accounts of people
  Host,         \* the client that created the match
  HiderCount,   \* hider_count of the match
  NpcSlots,     \* the slots createMatch binds to NPC accounts
  NpcAccount,   \* the account "npc_<slot>" of each of them
  Keys,         \* idempotency keys a client may use
  PendingCap,   \* MAX_PENDING_MOVES
  MaxRequests,  \* bound of the model: client requests received
  MaxFaults     \* bound of the model: crashes, failed saves, failed snapshot writes

Slots == 0 .. HiderCount - 1
NpcAccounts == {NpcAccount[s] : s \in NpcSlots}
Nobody == "nobody"
NoWorker == "none"
PUBLIC == -1
Audiences == Slots \cup {PUBLIC}
PlayModes == {"PLAY", "QUEUE", "PASS"}

ASSUME ServiceAssumption ==
  /\ HiderCount \in Nat \ {0} /\ NpcSlots \subseteq Slots /\ NpcSlots # Slots
  /\ Host \in Clients /\ Clients \cap NpcAccounts = {}
  /\ Nobody \notin Clients \cup NpcAccounts
  /\ \A s, t \in NpcSlots : NpcAccount[s] = NpcAccount[t] => s = t
  /\ Keys \subseteq Nat /\ PendingCap \in Nat /\ MaxRequests \in Nat /\ MaxFaults \in Nat
  /\ NoWorker \notin Workers

VARIABLES
  disk,       \* the stored MatchRecord
  snaps,      \* the stored view snapshots
  lock,       \* the thread that holds the match's mutex, or NoWorker
  pc,         \* where each thread is
  req,        \* the client request a thread serves
  current,    \* the request it has in runGuarded: req, or an NPC's move
  answer,     \* the response it will send to the client
  audiences,  \* audiences it still has to publish
  npcs,       \* NPC slots still to move in its round
  received,   \* client requests so far
  faults      \* crashes and failed writes so far

threadVars == <<pc, req, current, answer, audiences, npcs>>
vars == <<disk, snaps, lock, threadVars, received, faults>>

NoRequest == [kind |-> "none"]
Codes == {"none", "ok", "rejected", "key_reused", "stale", "refused", "store_error"}
Response(code, revision) == [code |-> code, revision |-> revision]
NoResponse == Response("none", 0)

Request(kind, account, key, expected, mode, target) ==
  [kind |-> kind, account |-> account, key |-> key, expected |-> expected,
   mode |-> mode, target |-> target]

\* What a view shows of the record, the same for each audience of the model.
View(record) ==
  [phase |-> record.phase, accounts |-> record.accounts, pending |-> record.pending]
Snapshot(record, audience) ==
  [audience |-> audience, revision |-> record.revision, view |-> View(record)]

\* The slots whose view is published: those bound to an account.
Bound(record) == {s \in Slots : record.accounts[s] # Nobody}
SeatsOf(record, account) == {s \in Slots : record.accounts[s] = account}

\* createMatch: NPC slots bound, revision 0, one log entry.
CreatedRecord ==
  [phase |-> "LOBBY", revision |-> 0,
   accounts |-> [s \in Slots |-> IF s \in NpcSlots THEN NpcAccount[s] ELSE Nobody],
   pending |-> {}, moves |-> {}, nextMoveId |-> 1, idempotency |-> {},
   log |-> <<[revision |-> 0, account |-> Host, key |-> 0]>>]

Init ==
  /\ disk = CreatedRecord
  /\ snaps = {Snapshot(CreatedRecord, a) : a \in NpcSlots \cup {PUBLIC}}
  /\ lock = NoWorker
  /\ pc = [w \in Workers |-> "idle"]
  /\ req = [w \in Workers |-> NoRequest]
  /\ current = [w \in Workers |-> NoRequest]
  /\ answer = [w \in Workers |-> NoResponse]
  /\ audiences = [w \in Workers |-> {}]
  /\ npcs = [w \in Workers |-> {}]
  /\ received = 0 /\ faults = 0

-----------------------------------------------------------------------------
(* What a request does to the record.                                      *)

\* The checks of the handlers whose failures leave the record as it is and are
\* not recorded under the idempotency key.
JoinRefused(r) ==
  disk.phase # "LOBBY" \/ SeatsOf(disk, r.account) # {} \/ SeatsOf(disk, Nobody) = {}
StartRefused(r) ==
  r.account # Host \/ disk.phase # "LOBBY" \/ \A s \in Bound(disk) : s \in NpcSlots
MoveRefused(r) == SeatsOf(disk, r.account) = {}
CancelRefused(r) ==
  \/ disk.phase # "ACTIVE" \/ r.target \notin disk.pending
  \/ [id |-> r.target, account |-> r.account] \notin disk.moves

Refused(r) ==
  \/ r.kind = "join" /\ JoinRefused(r)
  \/ r.kind = "start" /\ StartRefused(r)
  \/ r.kind = "move" /\ MoveRefused(r)
  \/ r.kind = "cancel" /\ CancelRefused(r)

\* The record after the engine accepted a call: a new revision, ring and phase.
Turned(record, phase, pending) ==
  [record EXCEPT !.phase = phase, !.pending = pending, !.revision = @ + 1,
                 !.moves = {o \in @ : o.id \in pending}]

Numbered(record) == [record EXCEPT !.nextMoveId = @ + 1]

\* playMove and passTicks may advance ticks, in which pending moves are applied
\* or cancelled and the match may end; queueMove may append its move.
Advanced ==
  {Turned(disk, phase, kept) : phase \in {"ACTIVE", "COMPLETE"}, kept \in SUBSET disk.pending}
QueuedMove(account) ==
  Numbered([Turned(disk, disk.phase, disk.pending \cup {disk.nextMoveId})
            EXCEPT !.moves = @ \cup {[id |-> disk.nextMoveId, account |-> account]}])

\* The records a move may lead to; the unchanged one is the engine's REJECTED.
MoveResults(r) ==
  IF disk.phase # "ACTIVE" THEN {disk}
  ELSE CASE r.mode = "PASS" -> Advanced
         [] r.mode = "PLAY" -> {disk} \cup {Numbered(record) : record \in Advanced}
         [] r.mode = "QUEUE" ->
              {disk, Numbered(Turned(disk, disk.phase, disk.pending))}
                \cup (IF Cardinality(disk.pending) < PendingCap
                      THEN {QueuedMove(r.account)} ELSE {})

Lowest(slots) == CHOOSE s \in slots : \A t \in slots : s <= t

\* The records request r may lead to, when nothing refuses it.
Results(r) ==
  CASE r.kind = "join" ->
         {[disk EXCEPT !.accounts[Lowest(SeatsOf(disk, Nobody))] = r.account, !.revision = @ + 1]}
    [] r.kind = "start" -> {[disk EXCEPT !.phase = "ACTIVE", !.revision = @ + 1]}
    [] r.kind = "move" -> MoveResults(r)
    [] r.kind = "cancel" -> {Turned(disk, disk.phase, disk.pending \ {r.target})}

\* What the record stores of the request: its response, and a log entry when it
\* changed the match.
ResponseOf(record) == Response(IF record.revision = disk.revision THEN "rejected" ELSE "ok", record.revision)

\* (mutant) the response is not stored under the idempotency key
LoggedOnly(record, r) ==
  [record EXCEPT !.log =
     IF record.revision = disk.revision THEN @
     ELSE Append(@, [revision |-> disk.revision, account |-> r.account, key |-> r.key])]

Recorded(record, r) ==
  [record EXCEPT
     !.idempotency = @ \cup {[account |-> r.account, key |-> r.key, request |-> r,
                              response |-> ResponseOf(record)]},
     !.log = IF record.revision = disk.revision THEN @
             ELSE Append(@, [revision |-> disk.revision, account |-> r.account, key |-> r.key])]

-----------------------------------------------------------------------------
(* One thread.                                                             *)

Goto(w, label) == pc' = [pc EXCEPT ![w] = label]

\* A client's request: one it sent before, recorded or not, or another, made when
\* the match had its present revision (it may be stale when the mutex is taken).
\* Keys are alike, so a client takes them in order; a known one may be reused.
Sent == {e.request : e \in disk.idempotency} \cup {req[w] : w \in Workers}
KnownKeys(account) == {r.key : r \in {q \in Sent : q.kind # "none" /\ q.account = account}}
Repeated == {r \in Sent : r.kind # "none" /\ r.account \in Clients}
NewRequests ==
  {Request(kind, account, key, disk.revision, mode, target) :
     kind \in {"join", "start", "move", "cancel"}, account \in Clients,
     key \in Keys, mode \in PlayModes, target \in 1 .. disk.nextMoveId}
WellFormed(r) ==
  /\ r.kind # "move" => r.mode = "PASS"
  /\ r.kind # "cancel" => r.target = 1
  /\ r.key - 1 \in {0} \cup KnownKeys(r.account)

Receive(w) ==
  /\ pc[w] = "idle" /\ received < MaxRequests
  /\ \E r \in Repeated \cup {q \in NewRequests : WellFormed(q)} :
       req' = [req EXCEPT ![w] = r] /\ current' = [current EXCEPT ![w] = r]
  /\ Goto(w, "guard") /\ received' = received + 1
  /\ UNCHANGED <<disk, snaps, lock, answer, audiences, npcs, faults>>

\* (mutant) the mutex is still held when the round starts
KeepLock == UNCHANGED lock

Unlock == lock' = NoWorker

\* The request in runGuarded got its response: an NPC's move goes on with the
\* round, a successful client request but a join starts one.
Finish(w, response) ==
  /\ Unlock
  /\ \/ /\ current[w].account \in NpcAccounts
        /\ Goto(w, "round") /\ UNCHANGED answer
     \/ /\ current[w].account \in Clients
        /\ Goto(w, IF response.code = "ok" /\ current[w].kind # "join" THEN "npcs" ELSE "reply")
        /\ answer' = [answer EXCEPT ![w] = response]
  /\ current' = [current EXCEPT ![w] = req[w]]
  /\ audiences' = [audiences EXCEPT ![w] = {}]

Entries(r) == {e \in disk.idempotency : e.account = r.account /\ e.key = r.key}

Guarded(w) == pc[w] = "guard" /\ lock = NoWorker

\* MOVE-006: a known key replays its response, or is refused for another request.
Replay(w) ==
  /\ Guarded(w)
  /\ \E e \in Entries(current[w]) :
       Finish(w, IF e.request = current[w] THEN e.response ELSE Response("key_reused", 0))
  /\ UNCHANGED <<disk, snaps, req, npcs, received, faults>>

\* (mutant) the revision is not compared
NeverStale(r) == FALSE

\* MOVE-005.
IsStale(r) == r.expected # disk.revision

Stale(w) ==
  /\ Guarded(w) /\ Entries(current[w]) = {} /\ IsStale(current[w])
  /\ Finish(w, Response("stale", disk.revision))
  /\ UNCHANGED <<disk, snaps, req, npcs, received, faults>>

Accepted(w) == Guarded(w) /\ Entries(current[w]) = {} /\ ~ IsStale(current[w])

Refuse(w) ==
  /\ Accepted(w) /\ Refused(current[w])
  /\ Finish(w, Response("refused", 0))
  /\ UNCHANGED <<disk, snaps, req, npcs, received, faults>>

\* The change is saved; when it is a new revision its views are published next,
\* with the mutex still held.
Commit(w) ==
  /\ Accepted(w) /\ ~ Refused(current[w])
  /\ \E record \in Results(current[w]) :
       /\ disk' = Recorded(record, current[w])
       /\ \/ /\ record.revision = disk.revision
             /\ Finish(w, ResponseOf(record))
          \/ /\ record.revision # disk.revision
             /\ lock' = w /\ Goto(w, "publish")
             /\ audiences' = [audiences EXCEPT ![w] = Bound(record) \cup {PUBLIC}]
             /\ UNCHANGED <<current, answer>>
  /\ UNCHANGED <<snaps, req, npcs, received, faults>>

\* (mutant) views are published even if the save failed
PublishAnyway(w) ==
  \E record \in Results(current[w]) :
    /\ snaps' = snaps \cup {Snapshot(record, PUBLIC)}
    /\ Finish(w, Response("store_error", 0))

\* (mutant) the failed save is not noticed
IgnoreFailure(w) ==
  \E record \in Results(current[w]) : UNCHANGED snaps /\ Finish(w, ResponseOf(record))

GiveUp(w) == UNCHANGED snaps /\ Finish(w, Response("store_error", 0))

SaveFails(w) ==
  /\ Accepted(w) /\ ~ Refused(current[w])
  /\ faults < MaxFaults /\ faults' = faults + 1
  /\ GiveUp(w)
  /\ UNCHANGED <<disk, req, npcs, received>>

\* writeSnapshotIfAbsent for one audience, public first: a stored snapshot is
\* never touched, and a failed write is ignored.
Written(audience) ==
  {p \in snaps : p.audience = audience /\ p.revision = disk.revision} # {}

WriteIfAbsent(audience) ==
  snaps' = IF Written(audience) THEN snaps ELSE snaps \cup {Snapshot(disk, audience)}

Publish(w) ==
  /\ pc[w] = "publish" /\ audiences[w] # {}
  /\ \/ WriteIfAbsent(Lowest(audiences[w])) /\ UNCHANGED faults
     \/ faults < MaxFaults /\ faults' = faults + 1 /\ UNCHANGED snaps
  /\ audiences' = [audiences EXCEPT ![w] = @ \ {Lowest(@)}]
  /\ UNCHANGED <<disk, lock, pc, req, current, answer, npcs, received>>

Published(w) ==
  /\ pc[w] = "publish" /\ audiences[w] = {}
  /\ Finish(w, Response("ok", disk.revision))
  /\ UNCHANGED <<disk, snaps, req, npcs, received, faults>>

\* runNpcRound reads the match once.
StartRound(w) ==
  /\ pc[w] = "npcs" /\ lock = NoWorker
  /\ npcs' = [npcs EXCEPT ![w] = IF disk.phase = "ACTIVE" THEN NpcSlots ELSE {}]
  /\ Goto(w, "round")
  /\ UNCHANGED <<disk, snaps, lock, req, current, answer, audiences, received, faults>>

\* The next NPC reads its latest view, stored on the way if it is missing, and
\* chooses to wait or to submit one move against the revision it saw.
NpcReads(w) ==
  /\ pc[w] = "round" /\ npcs[w] # {} /\ lock = NoWorker
  /\ LET slot == Lowest(npcs[w])
     IN /\ WriteIfAbsent(slot)
        /\ npcs' = [npcs EXCEPT ![w] = @ \ {slot}]
        /\ \/ UNCHANGED <<pc, current>>
           \/ /\ Goto(w, "guard")
              /\ current' = [current EXCEPT ![w] =
                   Request("move", NpcAccount[slot], disk.revision, disk.revision, "QUEUE", 1)]
  /\ UNCHANGED <<disk, lock, req, answer, audiences, received, faults>>

EndRound(w) ==
  /\ pc[w] = "round" /\ npcs[w] = {}
  /\ Goto(w, "reply")
  /\ UNCHANGED <<disk, snaps, lock, req, current, answer, audiences, npcs, received, faults>>

\* getLatestView for a client: the snapshot it serves is stored if it is missing.
ReadView ==
  /\ lock = NoWorker
  /\ \E a \in Bound(disk) \cup {PUBLIC} : ~ Written(a) /\ WriteIfAbsent(a)
  /\ UNCHANGED <<disk, lock, threadVars, received, faults>>

\* The response leaves for the client, which may never get it.
Reply(w) ==
  /\ pc[w] = "reply" /\ Goto(w, "idle")
  /\ req' = [req EXCEPT ![w] = NoRequest] /\ current' = [current EXCEPT ![w] = NoRequest]
  /\ answer' = [answer EXCEPT ![w] = NoResponse]
  /\ UNCHANGED <<disk, snaps, lock, audiences, npcs, received, faults>>

\* The process dies and is started again.
Crash ==
  /\ faults < MaxFaults /\ faults' = faults + 1
  /\ \E w \in Workers : pc[w] # "idle"
  /\ pc' = [w \in Workers |-> "idle"] /\ lock' = NoWorker
  /\ req' = [w \in Workers |-> NoRequest] /\ current' = [w \in Workers |-> NoRequest]
  /\ answer' = [w \in Workers |-> NoResponse]
  /\ audiences' = [w \in Workers |-> {}] /\ npcs' = [w \in Workers |-> {}]
  /\ UNCHANGED <<disk, snaps, received>>

Serve(w) ==
  \/ Replay(w) \/ Stale(w) \/ Refuse(w) \/ Commit(w) \/ SaveFails(w)
  \/ Publish(w) \/ Published(w)
  \/ StartRound(w) \/ NpcReads(w) \/ EndRound(w) \/ Reply(w)

Next == Crash \/ ReadView \/ \E w \in Workers : Receive(w) \/ Serve(w)

Spec == Init /\ [][Next]_vars

\* A thread that can go on does: requests end, so each gets the mutex in turn.
FairSpec == Spec /\ \A w \in Workers : WF_vars(Serve(w))

-----------------------------------------------------------------------------
(* Properties.                                                             *)

RequestsOf(accounts, keys) ==
  [kind : {"join", "start", "move", "cancel"}, account : accounts, key : keys,
   expected : Nat, mode : PlayModes, target : Nat]
Responses == [code : Codes, revision : Nat]

\* Every variable has the type the code gives it; only an account of the match
\* or one of its NPCs acts (HiderSeekerService.cpp:379-441).
TypeOK ==
  /\ disk.phase \in {"LOBBY", "ACTIVE", "COMPLETE"} /\ disk.revision \in Nat
  /\ disk.accounts \in [Slots -> Clients \cup NpcAccounts \cup {Nobody}]
  /\ disk.nextMoveId \in Nat \ {0} /\ disk.pending \subseteq 1 .. disk.nextMoveId
  /\ disk.moves \subseteq [id : Nat, account : Clients \cup NpcAccounts]
  /\ \A e \in disk.idempotency :
       e.request \in RequestsOf(Clients, Keys) \cup RequestsOf(NpcAccounts, Nat)
       /\ e.response \in Responses
  /\ lock \in Workers \cup {NoWorker}
  /\ pc \in [Workers -> {"idle", "guard", "publish", "npcs", "round", "reply"}]
  /\ answer \in [Workers -> Responses]
  /\ audiences \in [Workers -> SUBSET Audiences] /\ npcs \in [Workers -> SUBSET NpcSlots]

\* Replaying the request log rebuilds the match (MatchRecord::request_log, "in
\* the order it was applied"): after the creation it holds exactly one entry per
\* revision, in order, and the entry of revision r was sent by an account that
\* had seen revision r and was told that it made r + 1.  An NPC decides from a
\* view it read before it took the mutex again, so this also says that no NPC
\* decision is applied to a match that has moved on.
LogReplayable ==
  /\ Len(disk.log) = disk.revision + 1
  /\ \A r \in 0 .. disk.revision - 1 :
       /\ disk.log[r + 2].revision = r
       /\ \E e \in disk.idempotency :
            /\ e.account = disk.log[r + 2].account /\ e.key = disk.log[r + 2].key
            /\ e.request.expected = r /\ e.response = Response("ok", r + 1)

\* The ring of pending moves in the state and the ownership list kept beside it
\* name the same moves, each owned once by a seated account, and never an id a
\* later move will get (pruneMoves, HiderSeekerService.cpp:241-250).
PendingOwned ==
  /\ {o.id : o \in disk.moves} = disk.pending
  /\ \A o \in disk.moves : o.id < disk.nextMoveId /\ SeatsOf(disk, o.account) # {}
  /\ \A o, p \in disk.moves : o.id = p.id => o = p

\* The parts of a record tell one story: the log, the revision and the stored
\* answers, the ring and its owners, whoever wrote last
\* (HiderSeekerService.cpp:241-250, 398-441).
RecordAgrees == TypeOK /\ LogReplayable /\ PendingOwned

\* A snapshot is never rewritten, so it must be right when it is written: none
\* is stored of a revision that was not committed, and those of the latest
\* revision show the stored match (writeSnapshotIfAbsent, view_snapshots.cpp:23).
SnapshotsCommitted ==
  \A p \in snaps :
    /\ p.revision <= disk.revision
    /\ p.revision = disk.revision => p = Snapshot(disk, p.audience)

\* What the match promises the clients: each accepted request changes it once,
\* whatever is retried, lost, interleaved or crashed, and an answer given once is
\* the answer for ever (MOVE-006, HiderSeekerService.cpp:395-408).
Ledger == INSTANCE RequestLedger WITH
  done <- {[account |-> e.account, key |-> e.key, request |-> e.request,
            response |-> e.response] : e \in disk.idempotency},
  answers <- {[request |-> req[w], response |-> answer[w]] :
                w \in {v \in Workers : pc[v] = "reply" /\ answer[v].code \in {"ok", "rejected"}}},
  changes <- disk.revision
KeepsLedger == Ledger!Spec

\* A thread that received a request is free again some day, though its NPC round
\* takes the non-recursive mutex again and other requests, failed writes and
\* crashes come between (HiderSeekerService.cpp:932-971).
RequestAnswered == \A w \in Workers : pc[w] # "idle" ~> pc[w] = "idle"
=============================================================================
