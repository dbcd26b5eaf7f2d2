------------------------- MODULE MatchServiceProofs -------------------------
(***************************************************************************)
(* Theorems about MatchService, for any number of threads, clients, NPCs,  *)
(* keys and moves, with crashes and failed writes at any point.            *)
(*                                                                         *)
(* The argument: a request that nothing refuses makes of a consistent      *)
(* record the same record or the next revision (ResultIsNext); only the    *)
(* thread that has the mutex writes it, after it found the request fresh   *)
(* and made for the present revision (CommitConsistent); and what a thread *)
(* will answer is stored before it leaves runGuarded (FinishKeeps), so     *)
(* that a crash, which keeps the record only, loses no promise.            *)
(***************************************************************************)
EXTENDS MatchService, FiniteSetTheorems, TLAPS

-----------------------------------------------------------------------------
(* Types.                                                                  *)

Accounts == Clients \cup NpcAccounts
AnyRequest == RequestsOf(Clients, Keys) \cup RequestsOf(NpcAccounts, Nat)

Phases == {"LOBBY", "ACTIVE", "COMPLETE"}
Bindings == [Slots -> Accounts \cup {Nobody}]
Owners == SUBSET [id : Nat, account : Accounts]
StoredAnswers ==
  SUBSET [account : Accounts, key : Nat, request : AnyRequest, response : Responses]
LogEntry == [revision : Nat, account : Accounts, key : Nat]

RecordType ==
  [phase : Phases, revision : Nat, accounts : Bindings, pending : SUBSET Nat,
   moves : Owners, nextMoveId : Nat \ {0}, idempotency : StoredAnswers, log : Seq(LogEntry)]

\* PendingOwned, of any record.
RingOwned(record) ==
  /\ {o.id : o \in record.moves} = record.pending
  /\ record.pending \subseteq 1 .. record.nextMoveId
  /\ \A o \in record.moves :
       o.id < record.nextMoveId /\ SeatsOf(record, o.account) # {}
  /\ \A o, p \in record.moves : o.id = p.id => o = p

-----------------------------------------------------------------------------
(* What requests make of the record.                                       *)

\* The lowest slot of a set of slots is one of them: the intervals up to its
\* members are finite sets, so one of them has none of the others inside it.
LEMMA LowestIsMember ==
  ASSUME NEW S \in SUBSET Nat, S # {}
  PROVE  Lowest(S) \in S
<1> DEFINE Upto == {0 .. s : s \in S}
<1>1. Upto \subseteq FiniteSubsetsOf(Nat) /\ Upto # {}
  <2>1. \A s \in S : IsFiniteSet(0 .. s) /\ 0 .. s \in SUBSET Nat
    BY FS_Interval
  <2>2. QED
    BY <2>1 DEF FiniteSubsetsOf
<1>2. PICK u \in Upto : \A v \in Upto : ~ (<<v, u>> \in StrictSubsetOrdering(Nat))
  <2> HIDE DEF Upto
  <2>1. QED
    BY ONLY <1>1, FS_StrictSubsetOrderingWellFounded, WFMin
<1>3. PICK x \in S : u = 0 .. x
  OBVIOUS
<1>4. ASSUME NEW y \in S
      PROVE  x <= y
  <2>1. ~ (<<0 .. y, 0 .. x>> \in StrictSubsetOrdering(Nat))
    BY <1>2, <1>3
  <2>2. CASE y < x
    <3>1. 0 .. y \subseteq 0 .. x /\ x \in 0 .. x /\ x \notin 0 .. y
      BY <2>2
    <3>2. 0 .. y \in SUBSET Nat /\ 0 .. x \in SUBSET Nat
      OBVIOUS
    <3>3. QED
      BY <2>1, <3>1, <3>2 DEF StrictSubsetOrdering
  <2>3. QED
    BY <2>2
<1>5. QED
  BY <1>4 DEF Lowest

\* The record after an accepted call of the engine, field by field.
LEMMA TurnedRecord ==
  ASSUME disk \in RecordType, NEW phase \in Phases, NEW kept \in SUBSET Nat
  PROVE  LET t == Turned(disk, phase, kept)
         IN  /\ t \in RecordType /\ t.phase = phase /\ t.revision = disk.revision + 1
             /\ t.accounts = disk.accounts /\ t.nextMoveId = disk.nextMoveId
             /\ t.pending = kept /\ t.moves = {o \in disk.moves : o.id \in kept}
             /\ t.idempotency = disk.idempotency /\ t.log = disk.log
<1> DEFINE owned == {o \in disk.moves : o.id \in kept}
           t1 == [disk EXCEPT !.phase = phase]
           t2 == [t1 EXCEPT !.pending = kept]
           t3 == [t2 EXCEPT !.revision = disk.revision + 1]
           t4 == [t3 EXCEPT !.moves = owned]
<1>1. owned \in Owners /\ disk.revision + 1 \in Nat
  BY DEF RecordType, Owners
<1>2. Turned(disk, phase, kept) = t4
  BY DEF Turned
<1> HIDE DEF owned
<1>3. t1 \in RecordType
  BY DEF RecordType
<1> HIDE DEF t1
<1>4. t2 \in RecordType
  BY <1>3 DEF RecordType
<1> HIDE DEF t2
<1>5. t3 \in RecordType
  BY <1>1, <1>4 DEF RecordType
<1> HIDE DEF t3
<1>6. t4 \in RecordType
  BY <1>1, <1>5 DEF RecordType
<1> HIDE DEF t4
<1>7. /\ t4.phase = phase /\ t4.revision = disk.revision + 1
      /\ t4.accounts = disk.accounts /\ t4.nextMoveId = disk.nextMoveId
      /\ t4.pending = kept /\ t4.moves = owned
      /\ t4.idempotency = disk.idempotency /\ t4.log = disk.log
  BY <1>3, <1>4, <1>5, <1>6 DEF t1, t2, t3, t4, RecordType
<1>8. QED
  BY <1>2, <1>6, <1>7 DEF owned

\* Moves that leave the ring leave the ownership list (pruneMoves).
LEMMA TurnedIsOwned ==
  ASSUME disk \in RecordType, RingOwned(disk),
         NEW phase \in Phases, NEW kept \in SUBSET disk.pending
  PROVE  RingOwned(Turned(disk, phase, kept))
<1>1. kept \in SUBSET Nat
  BY DEF RecordType
<1> DEFINE t == Turned(disk, phase, kept)
<1>2. /\ t.accounts = disk.accounts /\ t.nextMoveId = disk.nextMoveId
      /\ t.pending = kept /\ t.moves = {o \in disk.moves : o.id \in kept}
  BY <1>1, TurnedRecord
<1> HIDE DEF t
<1>3. {o.id : o \in t.moves} = t.pending
  BY <1>2 DEF RingOwned
<1>4. t.pending \subseteq 1 .. t.nextMoveId
  BY <1>2 DEF RingOwned
<1>5. \A o \in t.moves : o.id < t.nextMoveId /\ SeatsOf(t, o.account) # {}
  BY <1>2 DEF RingOwned, SeatsOf
<1>6. \A o, p \in t.moves : o.id = p.id => o = p
  BY <1>2 DEF RingOwned
<1>7. RingOwned(t)
  BY <1>3, <1>4, <1>5, <1>6 DEF RingOwned
<1>8. QED
  BY <1>7 DEF t

\* Taking a move id keeps the ring below the next id.
LEMMA NumberedRecord ==
  ASSUME NEW record \in RecordType
  PROVE  LET t == Numbered(record)
         IN  /\ t \in RecordType /\ t.phase = record.phase /\ t.revision = record.revision
             /\ t.accounts = record.accounts /\ t.nextMoveId = record.nextMoveId + 1
             /\ t.pending = record.pending /\ t.moves = record.moves
             /\ t.idempotency = record.idempotency /\ t.log = record.log
             /\ RingOwned(record) => RingOwned(t)
<1> DEFINE t == Numbered(record)
<1>1. record.nextMoveId + 1 \in Nat \ {0}
  BY DEF RecordType
<1>2. t \in RecordType
  BY <1>1 DEF RecordType, Numbered
<1>3. /\ t.phase = record.phase /\ t.revision = record.revision
      /\ t.accounts = record.accounts /\ t.nextMoveId = record.nextMoveId + 1
      /\ t.pending = record.pending /\ t.moves = record.moves
      /\ t.idempotency = record.idempotency /\ t.log = record.log
  BY DEF RecordType, Numbered
<1>4. ASSUME RingOwned(record)
      PROVE  RingOwned(t)
  <2> HIDE DEF t
  <2>1. record.nextMoveId \in Nat /\ record.pending \subseteq 1 .. record.nextMoveId + 1
    BY <1>4 DEF RecordType, RingOwned
  <2>2. \A o \in record.moves : o.id \in Nat /\ o.id < record.nextMoveId + 1
    BY <1>4, <2>1 DEF RecordType, Owners, RingOwned
  <2>3. QED
    BY <1>3, <1>4, <2>1, <2>2 DEF RingOwned, SeatsOf
<1>5. QED
  BY <1>2, <1>3, <1>4

\* What a request makes of the record: nothing, or one more revision; the
\* stored answers and the log are left to Recorded.
SameOrNext(record) ==
  /\ record \in RecordType /\ RingOwned(record)
  /\ record.idempotency = disk.idempotency /\ record.log = disk.log
  /\ record = disk \/ record.revision = disk.revision + 1

\* A queued move takes the next id, which no pending move has.
LEMMA QueuedIsNext ==
  ASSUME disk \in RecordType, RingOwned(disk),
         NEW account \in Accounts, SeatsOf(disk, account) # {}
  PROVE  SameOrNext(QueuedMove(account))
<1> DEFINE id == disk.nextMoveId
           t == Turned(disk, disk.phase, disk.pending \cup {id})
           moves == t.moves \cup {[id |-> id, account |-> account]}
           q == [t EXCEPT !.moves = moves]
<1>1. id \in Nat \ {0} /\ disk.phase \in Phases /\ disk.pending \cup {id} \in SUBSET Nat
  BY DEF RecordType
<1>2. /\ t \in RecordType /\ t.revision = disk.revision + 1
      /\ t.accounts = disk.accounts /\ t.nextMoveId = id /\ t.pending = disk.pending \cup {id}
      /\ t.moves = {o \in disk.moves : o.id \in disk.pending \cup {id}}
      /\ t.idempotency = disk.idempotency /\ t.log = disk.log
  BY <1>1, TurnedRecord
<1>3. \A o \in disk.moves : o.id \in Nat /\ o.id \in disk.pending
  BY DEF RecordType, Owners, RingOwned
<1>4. t.moves = disk.moves
  BY <1>2, <1>3
<1>5. moves \in Owners
  BY <1>1, <1>4 DEF RecordType, Owners
<1> HIDE DEF t
<1>6. q \in RecordType
  BY <1>2, <1>5 DEF RecordType
<1>7. /\ q.revision = t.revision /\ q.accounts = t.accounts /\ q.nextMoveId = t.nextMoveId
      /\ q.pending = t.pending /\ q.moves = moves
      /\ q.idempotency = t.idempotency /\ q.log = t.log
  BY <1>2 DEF RecordType
<1> HIDE DEF q
<1> DEFINE n == Numbered(q)
<1>8. /\ n \in RecordType /\ n.revision = disk.revision + 1
      /\ n.accounts = disk.accounts /\ n.nextMoveId = id + 1
      /\ n.pending = disk.pending \cup {id}
      /\ n.moves = disk.moves \cup {[id |-> id, account |-> account]}
      /\ n.idempotency = disk.idempotency /\ n.log = disk.log
  BY <1>2, <1>4, <1>6, <1>7, NumberedRecord
<1> HIDE DEF n
<1>9. RingOwned(n)
  <2>1. {o.id : o \in n.moves} = n.pending
    <3>1. {o.id : o \in disk.moves} = disk.pending
      BY DEF RingOwned
    <3>2. PICK new : new = [id |-> id, account |-> account]
      OBVIOUS
    <3>3. new.id = id /\ n.moves = disk.moves \cup {new}
      BY <1>8, <3>2
    <3>4. {o.id : o \in disk.moves \cup {new}} = {o.id : o \in disk.moves} \cup {new.id}
      OBVIOUS
    <3>5. QED
      BY <1>8, <3>1, <3>3, <3>4
  <2>2. n.pending \subseteq 1 .. n.nextMoveId
    BY <1>1, <1>8 DEF RingOwned
  <2>3. \A o \in n.moves : o.id < n.nextMoveId /\ SeatsOf(n, o.account) # {}
    BY <1>1, <1>3, <1>8 DEF RingOwned, SeatsOf
  <2>4. \A o \in disk.moves : o.id # id
    BY <1>1, <1>3 DEF RingOwned
  <2>5. \A o, p \in n.moves : o.id = p.id => o = p
    BY <1>8, <2>4 DEF RingOwned
  <2>6. QED
    BY <2>1, <2>2, <2>3, <2>5 DEF RingOwned
<1>10. QueuedMove(account) = n
  BY DEF QueuedMove, n, q, t
<1>11. QED
  BY <1>8, <1>9, <1>10 DEF SameOrNext

\* Ticks applied pending moves or cancelled them, with or without a new move id.
LEMMA AdvancedIsNext ==
  ASSUME disk \in RecordType, RingOwned(disk), NEW record \in Advanced
  PROVE  SameOrNext(record) /\ SameOrNext(Numbered(record))
<1>1. PICK phase \in {"ACTIVE", "COMPLETE"}, kept \in SUBSET disk.pending :
        record = Turned(disk, phase, kept)
  BY DEF Advanced
<1>2. phase \in Phases /\ kept \in SUBSET Nat
  BY DEF Phases, RecordType
<1>3. SameOrNext(record)
  BY <1>1, <1>2, TurnedRecord, TurnedIsOwned DEF SameOrNext
<1>4. record.revision = disk.revision + 1
  BY <1>1, <1>2, TurnedRecord
<1>5. QED
  BY <1>3, <1>4, NumberedRecord DEF SameOrNext

\* A join takes a free seat, so nobody who owns a pending move loses his.
LEMMA JoinIsNext ==
  ASSUME disk \in RecordType, RingOwned(disk), SeatsOf(disk, Nobody) # {},
         NEW account \in Accounts,
         NEW record,
         record = [disk EXCEPT !.accounts[Lowest(SeatsOf(disk, Nobody))] = account,
                               !.revision = @ + 1]
  PROVE  SameOrNext(record)
<1> DEFINE seat == Lowest(SeatsOf(disk, Nobody))
           accounts == [disk.accounts EXCEPT ![seat] = account]
           j == [disk EXCEPT !.accounts = accounts]
           k == [j EXCEPT !.revision = disk.revision + 1]
<1>1. seat \in Slots /\ disk.accounts[seat] = Nobody
  <2>1. SeatsOf(disk, Nobody) \in SUBSET Nat
    BY ServiceAssumption DEF SeatsOf, Slots
  <2>2. QED
    BY <2>1, LowestIsMember DEF SeatsOf
<1> HIDE DEF seat
<1>2. accounts \in Bindings /\ disk.accounts \in Bindings /\ disk.revision + 1 \in Nat
  BY <1>1 DEF RecordType, Bindings
<1>3. \A s \in Slots : disk.accounts[s] # Nobody => accounts[s] = disk.accounts[s]
  BY <1>1, <1>2 DEF Bindings
<1> HIDE DEF accounts
<1>4. j \in RecordType
  BY <1>2 DEF RecordType
<1> HIDE DEF j
<1>5. k \in RecordType
  BY <1>2, <1>4 DEF RecordType
<1> HIDE DEF k
<1>6. /\ k.accounts = accounts /\ k.revision = disk.revision + 1 /\ k.nextMoveId = disk.nextMoveId
      /\ k.pending = disk.pending /\ k.moves = disk.moves
      /\ k.idempotency = disk.idempotency /\ k.log = disk.log
  BY <1>2, <1>4, <1>5 DEF j, k, RecordType
<1>7. \A o \in disk.moves : o.account \in Accounts /\ o.account # Nobody
  BY ServiceAssumption DEF RecordType, Owners, Accounts
<1>8. RingOwned(k)
  BY <1>3, <1>6, <1>7 DEF RingOwned, SeatsOf
<1>9. record = k
  BY DEF k, j, accounts, seat
<1>10. QED
  BY <1>5, <1>6, <1>8, <1>9 DEF SameOrNext

\* A start changes the phase only.
LEMMA StartIsNext ==
  ASSUME disk \in RecordType, RingOwned(disk), NEW record,
         record = [disk EXCEPT !.phase = "ACTIVE", !.revision = @ + 1]
  PROVE  SameOrNext(record)
<1> DEFINE j == [disk EXCEPT !.phase = "ACTIVE"]
           k == [j EXCEPT !.revision = disk.revision + 1]
<1>1. "ACTIVE" \in Phases /\ disk.revision + 1 \in Nat
  BY DEF Phases, RecordType
<1>2. j \in RecordType
  BY <1>1 DEF RecordType
<1> HIDE DEF j
<1>3. k \in RecordType
  BY <1>1, <1>2 DEF RecordType
<1> HIDE DEF k
<1>4. /\ k.accounts = disk.accounts /\ k.revision = disk.revision + 1
      /\ k.nextMoveId = disk.nextMoveId /\ k.pending = disk.pending /\ k.moves = disk.moves
      /\ k.idempotency = disk.idempotency /\ k.log = disk.log
  BY <1>1, <1>2, <1>3 DEF j, k, RecordType
<1>5. RingOwned(k)
  BY <1>4 DEF RingOwned, SeatsOf
<1>6. record = k
  BY DEF k, j
<1>7. QED
  BY <1>3, <1>4, <1>5, <1>6 DEF SameOrNext

\* Whatever a request that nothing refuses makes of a consistent record is a
\* consistent record, the same one or the next revision.
LEMMA ResultIsNext ==
  ASSUME disk \in RecordType, RingOwned(disk),
         NEW r \in AnyRequest, ~ Refused(r), NEW record \in Results(r)
  PROVE  SameOrNext(record)
<1>1. r.kind \in {"join", "start", "move", "cancel"} /\ r.account \in Accounts /\ r.mode \in PlayModes
  BY DEF AnyRequest, RequestsOf, Accounts
<1>2. CASE r.kind = "join"
  <2>1. SeatsOf(disk, Nobody) # {}
    BY <1>2 DEF Refused, JoinRefused
  <2>2. record = [disk EXCEPT !.accounts[Lowest(SeatsOf(disk, Nobody))] = r.account, !.revision = @ + 1]
    BY <1>2 DEF Results
  <2>3. QED
    BY <1>1, <2>1, <2>2, JoinIsNext
<1>3. CASE r.kind = "start"
  <2>1. record = [disk EXCEPT !.phase = "ACTIVE", !.revision = @ + 1]
    BY <1>3 DEF Results
  <2>2. QED
    BY <2>1, StartIsNext
<1>4. CASE r.kind = "move"
  <2>1. SeatsOf(disk, r.account) # {} /\ record \in MoveResults(r)
    BY <1>4 DEF Refused, MoveRefused, Results
  <2>2. SameOrNext(disk)
    BY DEF SameOrNext
  <2>3. CASE disk.phase # "ACTIVE"
    BY <2>1, <2>2, <2>3 DEF MoveResults
  <2>4. CASE disk.phase = "ACTIVE" /\ r.mode = "PASS"
    BY <2>1, <2>4, AdvancedIsNext DEF MoveResults
  <2>5. CASE disk.phase = "ACTIVE" /\ r.mode = "PLAY"
    BY <2>1, <2>2, <2>5, AdvancedIsNext DEF MoveResults
  <2>6. CASE disk.phase = "ACTIVE" /\ r.mode = "QUEUE"
    <3>1. SameOrNext(Numbered(Turned(disk, disk.phase, disk.pending)))
      <4>1. disk.phase \in Phases /\ disk.pending \in SUBSET Nat
        BY DEF RecordType
      <4>2. QED
        BY <4>1, TurnedRecord, TurnedIsOwned, NumberedRecord DEF SameOrNext
    <3>2. SameOrNext(QueuedMove(r.account))
      BY <1>1, <2>1, QueuedIsNext
    <3>3. record \in {disk, Numbered(Turned(disk, disk.phase, disk.pending)), QueuedMove(r.account)}
      BY <2>1, <2>6 DEF MoveResults
    <3>4. QED
      BY <2>2, <3>1, <3>2, <3>3
  <2>7. QED
    BY <1>1, <2>3, <2>4, <2>5, <2>6 DEF PlayModes
<1>5. CASE r.kind = "cancel"
  <2>1. record = Turned(disk, disk.phase, disk.pending \ {r.target})
    BY <1>5 DEF Results
  <2>2. disk.phase \in Phases /\ disk.pending \ {r.target} \in SUBSET Nat
    BY DEF RecordType
  <2>3. QED
    BY <2>1, <2>2, TurnedRecord, TurnedIsOwned DEF SameOrNext
<1>6. QED
  BY <1>1, <1>2, <1>3, <1>4, <1>5

-----------------------------------------------------------------------------
(* The invariant.                                                          *)

ClientRequests == RequestsOf(Clients, Keys)
Labels == {"idle", "guard", "publish", "npcs", "round", "reply"}
Done(record, request, response) ==
  \E e \in record.idempotency : e.request = request /\ e.response = response

\* The record: its log and stored answers agree with it, and so do its parts.
RecordConsistent ==
  /\ disk \in RecordType /\ RingOwned(disk) /\ LogReplayable
  /\ \A e \in disk.idempotency :
       /\ e.account = e.request.account /\ e.key = e.request.key
       /\ e.response.code \in {"ok", "rejected"}

\* The mutex belongs to the one thread that publishes, if any.
LockHeld ==
  /\ lock \in Workers \cup {NoWorker}
  /\ pc \in [Workers -> Labels]
  /\ \A w \in Workers : pc[w] = "publish" <=> lock = w

\* A thread serves one client request; inside runGuarded it may have an NPC's
\* move instead.
Serving ==
  /\ req \in [Workers -> ClientRequests \cup {NoRequest}]
  /\ current \in [Workers -> AnyRequest \cup {NoRequest}]
  /\ answer \in [Workers -> Responses]
  /\ audiences \in [Workers -> SUBSET Audiences] /\ npcs \in [Workers -> SUBSET NpcSlots]
  /\ \A w \in Workers :
       /\ pc[w] = "idle" => answer[w] = NoResponse
       /\ pc[w] # "idle" => req[w] \in ClientRequests /\ current[w] \in AnyRequest
       /\ current[w] # req[w] => current[w].account \in NpcAccounts

\* What a thread will tell its client, and what it is publishing, is stored.
AnswersStored ==
  \A w \in Workers :
    /\ answer[w].code \in {"ok", "rejected"} => Done(disk, req[w], answer[w])
    /\ pc[w] = "publish" => Done(disk, current[w], Response("ok", disk.revision))

\* The stored snapshots.
SnapshotsTrue == (\A p \in snaps : p.revision \in Nat) /\ SnapshotsCommitted

IInv == RecordConsistent /\ LockHeld /\ Serving /\ AnswersStored /\ SnapshotsTrue

-----------------------------------------------------------------------------
(* A saved change.                                                         *)

\* What Recorded stores of a request.
Entry(record, r) ==
  [account |-> r.account, key |-> r.key, request |-> r, response |-> ResponseOf(record)]

\* What Recorded adds to a result, field by field.
LEMMA RecordedRecord ==
  ASSUME RecordConsistent, NEW r \in AnyRequest, NEW record, SameOrNext(record)
  PROVE  LET d == Recorded(record, r)
         IN  /\ d \in RecordType /\ d.phase = record.phase /\ d.revision = record.revision
             /\ d.accounts = record.accounts /\ d.nextMoveId = record.nextMoveId
             /\ d.pending = record.pending /\ d.moves = record.moves
             /\ d.idempotency = disk.idempotency \cup {Entry(record, r)}
             /\ record = disk => d.log = disk.log
             /\ record.revision = disk.revision + 1 =>
                  d.log = Append(disk.log, [revision |-> disk.revision, account |-> r.account, key |-> r.key])
             /\ ResponseOf(record) \in Responses
             /\ ResponseOf(record) = Response(IF record.revision = disk.revision THEN "rejected" ELSE "ok", record.revision)
<1> DEFINE stored == disk.idempotency \cup {Entry(record, r)}
           line == [revision |-> disk.revision, account |-> r.account, key |-> r.key]
           log == IF record.revision = disk.revision THEN disk.log ELSE Append(disk.log, line)
           d1 == [record EXCEPT !.idempotency = stored]
           d2 == [d1 EXCEPT !.log = log]
<1>1. r.account \in Accounts /\ r.key \in Nat
  BY ServiceAssumption DEF AnyRequest, RequestsOf, Accounts
<1>2. /\ record \in RecordType /\ record.idempotency = disk.idempotency /\ record.log = disk.log
      /\ disk.revision \in Nat /\ record.revision \in Nat
      /\ record = disk \/ record.revision = disk.revision + 1
  BY DEF SameOrNext, RecordConsistent, RecordType
<1>3. ResponseOf(record) \in Responses
  BY <1>2 DEF ResponseOf, Response, Responses, Codes
<1>4. stored \in StoredAnswers
  <2>1. Entry(record, r) \in [account : Accounts, key : Nat, request : AnyRequest, response : Responses]
    BY <1>1, <1>3 DEF Entry
  <2>2. disk.idempotency \in StoredAnswers
    BY DEF RecordConsistent, RecordType
  <2>3. QED
    BY <2>1, <2>2 DEF StoredAnswers
<1>5. log \in Seq(LogEntry)
  <2>1. disk.log \in Seq(LogEntry)
    BY DEF RecordConsistent, RecordType
  <2>2. line \in LogEntry
    BY <1>1, <1>2 DEF LogEntry
  <2> HIDE DEF line
  <2>3. QED
    BY <2>1, <2>2
<1>6. Recorded(record, r) = d2
  <2>1. Recorded(record, r) = [record EXCEPT !.idempotency = record.idempotency \cup {Entry(record, r)},
                                 !.log = IF record.revision = disk.revision THEN record.log ELSE Append(record.log, line)]
    BY DEF Recorded, Entry
  <2>2. QED
    BY <1>2, <2>1
<1>7. log = IF record.revision = disk.revision THEN disk.log ELSE Append(disk.log, line)
  OBVIOUS
<1> HIDE DEF stored, log
<1>8. d1 \in RecordType
  BY <1>2, <1>4 DEF RecordType
<1> HIDE DEF d1
<1>9. d2 \in RecordType
  BY <1>5, <1>8 DEF RecordType
<1> HIDE DEF d2
<1>10. /\ d2.phase = record.phase /\ d2.revision = record.revision
       /\ d2.accounts = record.accounts /\ d2.nextMoveId = record.nextMoveId
       /\ d2.pending = record.pending /\ d2.moves = record.moves
       /\ d2.idempotency = stored /\ d2.log = log
  BY <1>2, <1>4, <1>5, <1>8, <1>9 DEF d1, d2, RecordType
<1>11. /\ record = disk => log = disk.log
       /\ record.revision = disk.revision + 1 => log = Append(disk.log, line)
  BY <1>2, <1>7
<1>12. QED
  BY <1>3, <1>6, <1>9, <1>10, <1>11 DEF stored, ResponseOf

\* A saved result keeps the record consistent: the response is stored, and a new
\* revision got one log entry, of the request that expected the old one.
LEMMA CommitConsistent ==
  ASSUME RecordConsistent, NEW r \in AnyRequest, ~ IsStale(r), NEW record, SameOrNext(record),
         disk' = Recorded(record, r)
  PROVE  RecordConsistent' /\ Done(disk', r, ResponseOf(record))
<1> DEFINE new == Entry(record, r)
           line == [revision |-> disk.revision, account |-> r.account, key |-> r.key]
<1>1. /\ disk' \in RecordType /\ disk'.revision = record.revision
      /\ disk'.accounts = record.accounts /\ disk'.nextMoveId = record.nextMoveId
      /\ disk'.pending = record.pending /\ disk'.moves = record.moves
      /\ disk'.idempotency = disk.idempotency \cup {new}
      /\ record = disk => disk'.log = disk.log
      /\ record.revision = disk.revision + 1 => disk'.log = Append(disk.log, line)
      /\ ResponseOf(record) = Response(IF record.revision = disk.revision THEN "rejected" ELSE "ok", record.revision)
  BY RecordedRecord
<1>2. /\ new.account = r.account /\ new.key = r.key /\ new.request = r
      /\ new.response = ResponseOf(record)
  BY DEF Entry
<1>3. line.revision = disk.revision /\ line.account = r.account /\ line.key = r.key
  OBVIOUS
<1>4. disk.revision \in Nat /\ disk.log \in Seq(LogEntry) /\ r.expected = disk.revision
  BY DEF RecordConsistent, RecordType, IsStale
<1>5. record = disk \/ record.revision = disk.revision + 1
  BY DEF SameOrNext
<1>6. line \in LogEntry
  BY <1>4, ServiceAssumption DEF LogEntry, AnyRequest, RequestsOf, Accounts
<1> HIDE DEF new, line
<1>7. RingOwned(disk)'
  <2>1. RingOwned(record)
    BY DEF SameOrNext
  <2>2. QED
    BY <1>1, <2>1 DEF RingOwned, SeatsOf
<1>8. \A e \in disk'.idempotency :
        /\ e.account = e.request.account /\ e.key = e.request.key
        /\ e.response.code \in {"ok", "rejected"}
  <2>1. new.response.code \in {"ok", "rejected"}
    BY <1>1, <1>2 DEF Response
  <2>2. QED
    BY <1>1, <1>2, <2>1 DEF RecordConsistent
<1>9. LogReplayable'
  <2>1. CASE record = disk
    BY <1>1, <2>1 DEF RecordConsistent, LogReplayable
  <2>2. CASE record.revision = disk.revision + 1
    <3>1. /\ Len(disk.log) = disk.revision + 1
          /\ \A k \in 0 .. disk.revision - 1 :
               /\ disk.log[k + 2].revision = k
               /\ \E e \in disk.idempotency :
                    /\ e.account = disk.log[k + 2].account /\ e.key = disk.log[k + 2].key
                    /\ e.request.expected = k /\ e.response = Response("ok", k + 1)
      BY DEF RecordConsistent, LogReplayable
    <3>2. disk'.log = Append(disk.log, line)
      BY <1>1, <2>2
    <3>3. /\ Len(disk'.log) = disk.revision + 2
          /\ disk'.log[disk.revision + 2] = line
          /\ \A k \in 0 .. disk.revision - 1 : disk'.log[k + 2] = disk.log[k + 2]
      BY <1>4, <1>6, <3>1, <3>2
    <3>4. new.response = Response("ok", disk.revision + 1)
      BY <1>1, <1>2, <1>4, <2>2
    <3>5. Len(disk'.log) = disk'.revision + 1 /\ disk'.revision = disk.revision + 1
      BY <1>1, <1>4, <2>2, <3>3
    <3>6. ASSUME NEW k \in 0 .. disk'.revision - 1
          PROVE  /\ disk'.log[k + 2].revision = k
                 /\ \E e \in disk'.idempotency :
                      /\ e.account = disk'.log[k + 2].account /\ e.key = disk'.log[k + 2].key
                      /\ e.request.expected = k /\ e.response = Response("ok", k + 1)
      <4>1. CASE k = disk.revision
        BY <1>1, <1>2, <1>3, <1>4, <3>3, <3>4, <4>1
      <4>2. CASE k \in 0 .. disk.revision - 1
        BY <1>1, <3>1, <3>3, <4>2
      <4>3. QED
        BY <1>4, <3>5, <4>1, <4>2
    <3>7. QED
      BY <3>5, <3>6 DEF LogReplayable
  <2>3. QED
    BY <1>5, <2>1, <2>2
<1>10. Done(disk', r, ResponseOf(record))
  BY <1>1, <1>2 DEF Done
<1>11. QED
  BY <1>1, <1>7, <1>8, <1>9, <1>10 DEF RecordConsistent

\* A new revision has no snapshots yet; a rejected request shows in none.
LEMMA CommitSnapshots ==
  ASSUME RecordConsistent, SnapshotsTrue, NEW r \in AnyRequest, NEW record,
         SameOrNext(record), disk' = Recorded(record, r), UNCHANGED snaps
  PROVE  SnapshotsTrue'
<1>1. /\ disk'.revision = record.revision /\ disk'.phase = record.phase
      /\ disk'.accounts = record.accounts /\ disk'.pending = record.pending
  BY RecordedRecord
<1>2. disk.revision \in Nat
  BY DEF RecordConsistent, RecordType
<1>3. CASE record = disk
  BY <1>1, <1>3 DEF SnapshotsTrue, SnapshotsCommitted, Snapshot, View
<1>4. CASE record.revision = disk.revision + 1
  <2>1. \A p \in snaps : p.revision \in Nat /\ p.revision <= disk.revision
    BY DEF SnapshotsTrue, SnapshotsCommitted
  <2>2. \A p \in snaps : p.revision <= disk'.revision /\ p.revision # disk'.revision
    BY <1>1, <1>2, <1>4, <2>1
  <2>3. QED
    BY <2>2 DEF SnapshotsTrue, SnapshotsCommitted
<1>5. QED
  BY <1>3, <1>4 DEF SameOrNext

-----------------------------------------------------------------------------
(* The steps.                                                              *)

\* Requests of clients and of NPCs are told apart by their accounts.
LEMMA AccountsDistinct ==
  /\ \A r \in ClientRequests : r.account \in Clients /\ r.account \notin NpcAccounts
  /\ ClientRequests \subseteq AnyRequest
  /\ \A r \in AnyRequest : r.account \in Clients => r \in ClientRequests
  BY ServiceAssumption DEF ClientRequests, AnyRequest, RequestsOf

\* Leaving runGuarded keeps what is known of the threads, if the response given
\* there, when it is an answer of the ledger, is stored.
LEMMA FinishKeeps ==
  ASSUME LockHeld, Serving, AnswersStored, NEW w \in Workers, NEW response \in Responses,
         pc[w] \in {"guard", "publish"}, lock \in {NoWorker, w},
         Finish(w, response), UNCHANGED <<req, npcs>>,
         response.code \in {"ok", "rejected"} => Done(disk', current[w], response),
         disk.idempotency \subseteq disk'.idempotency
  PROVE  LockHeld' /\ Serving' /\ AnswersStored'
<1>1. /\ lock' = NoWorker /\ current' = [current EXCEPT ![w] = req[w]]
      /\ audiences' = [audiences EXCEPT ![w] = {}]
      /\ req' = req /\ npcs' = npcs
  BY DEF Finish, Unlock
<1>2. /\ pc' \in [Workers -> Labels]
      /\ pc'[w] \in {"round", "npcs", "reply"}
      /\ \A v \in Workers : v # w => pc'[v] = pc[v]
  BY DEF Finish, Goto, LockHeld, Labels
<1>3. /\ answer' \in [Workers -> Responses]
      /\ \A v \in Workers : v # w => answer'[v] = answer[v]
      /\ \/ answer'[w] = answer[w]
         \/ answer'[w] = response /\ current[w].account \in Clients
  BY DEF Finish, Serving
<1>4. \A v \in Workers : pc'[v] # "publish"
  BY <1>2, ServiceAssumption DEF LockHeld
<1>5. LockHeld'
  BY <1>1, <1>2, <1>4, ServiceAssumption DEF LockHeld
<1>6. req[w] \in ClientRequests /\ current[w] \in AnyRequest
  BY DEF Serving
<1>7. current[w].account \in Clients => current[w] = req[w]
  BY <1>6, ServiceAssumption DEF Serving
<1>8. Serving'
  <2>1. /\ current' \in [Workers -> AnyRequest \cup {NoRequest}]
        /\ audiences' \in [Workers -> SUBSET Audiences]
    BY <1>1, <1>6, AccountsDistinct DEF Serving
  <2>2. ASSUME NEW v \in Workers
        PROVE  /\ pc'[v] = "idle" => answer'[v] = NoResponse
               /\ pc'[v] # "idle" => req'[v] \in ClientRequests /\ current'[v] \in AnyRequest
               /\ current'[v] # req'[v] => current'[v].account \in NpcAccounts
    <3>1. CASE v = w
      BY <1>1, <1>2, <1>6, <3>1, AccountsDistinct DEF Serving
    <3>2. CASE v # w
      BY <1>1, <1>2, <1>3, <3>2 DEF Serving
    <3>3. QED
      BY <3>1, <3>2
  <2>3. QED
    BY <1>1, <1>3, <2>1, <2>2 DEF Serving
<1>9. AnswersStored'
  <2>1. \A r, a : Done(disk, r, a) => Done(disk', r, a)
    BY DEF Done
  <2>2. ASSUME NEW v \in Workers, answer'[v].code \in {"ok", "rejected"}
        PROVE  Done(disk', req[v], answer'[v])
    <3>1. CASE v = w
      BY <1>3, <1>7, <2>1, <2>2, <3>1 DEF AnswersStored
    <3>2. CASE v # w
      BY <1>3, <2>1, <2>2, <3>2 DEF AnswersStored
    <3>3. QED
      BY <3>1, <3>2
  <2>3. QED
    BY <1>1, <1>4, <2>2 DEF AnswersStored
<1>10. QED
  BY <1>5, <1>8, <1>9

\* A step that leaves the record alone leaves it consistent.
LEMMA SameRecord ==
  ASSUME RecordConsistent, UNCHANGED disk
  PROVE  RecordConsistent'
  BY DEF RecordConsistent, RingOwned, SeatsOf, LogReplayable

\* And one that leaves the snapshots alone, too, leaves those right.
LEMMA SameSnapshots ==
  ASSUME SnapshotsTrue, UNCHANGED <<disk, snaps>>
  PROVE  SnapshotsTrue'
  BY DEF SnapshotsTrue, SnapshotsCommitted, Snapshot, View

\* A snapshot written while the record stays shows that record.
LEMMA WrittenSnapshots ==
  ASSUME RecordConsistent, SnapshotsTrue, UNCHANGED disk, NEW a, WriteIfAbsent(a)
  PROVE  SnapshotsTrue'
<1>1. disk.revision \in Nat
  BY DEF RecordConsistent, RecordType
<1>2. snaps' = snaps \/ snaps' = snaps \cup {Snapshot(disk, a)}
  BY DEF WriteIfAbsent
<1>3. Snapshot(disk, a).revision = disk.revision /\ Snapshot(disk, a).audience = a
  BY DEF Snapshot
<1>4. \A p \in snaps' : p \in snaps \/ p = Snapshot(disk, p.audience)
  BY <1>2, <1>3
<1>5. \A p \in snaps' : p.revision \in Nat /\ p.revision <= disk.revision
  BY <1>1, <1>2, <1>3 DEF SnapshotsTrue, SnapshotsCommitted
<1>6. \A p \in snaps' : p.revision = disk.revision => p = Snapshot(disk, p.audience)
  BY <1>4 DEF SnapshotsTrue, SnapshotsCommitted
<1>7. QED
  BY <1>5, <1>6 DEF SnapshotsTrue, SnapshotsCommitted, Snapshot, View

\* createMatch.
LEMMA InitInv == Init => IInv
<1> SUFFICES ASSUME Init
             PROVE  IInv
  OBVIOUS
<1> USE DEF Init
<1> DEFINE r0 == CreatedRecord
           seats == [s \in Slots |-> IF s \in NpcSlots THEN NpcAccount[s] ELSE Nobody]
           line == [revision |-> 0, account |-> Host, key |-> 0]
<1>1. /\ disk.phase = "LOBBY" /\ disk.revision = 0 /\ disk.accounts = seats
      /\ disk.pending = {} /\ disk.moves = {} /\ disk.nextMoveId = 1 /\ disk.idempotency = {}
      /\ disk.log = <<line>>
  BY DEF CreatedRecord
<1>2. seats \in Bindings
  BY DEF Bindings, Accounts, NpcAccounts
<1>3. line \in LogEntry
  BY ServiceAssumption DEF LogEntry, Accounts
<1> HIDE DEF seats, line
<1>4. disk \in RecordType
  <2>1. <<line>> \in Seq(LogEntry)
    BY <1>3
  <2>2. /\ "LOBBY" \in Phases /\ {} \in Owners /\ {} \in StoredAnswers
        /\ 0 \in Nat /\ 1 \in Nat \ {0} /\ {} \in SUBSET Nat
    BY DEF Phases, Owners, StoredAnswers
  <2>3. CreatedRecord = [phase |-> "LOBBY", revision |-> 0, accounts |-> seats, pending |-> {}, moves |-> {},
                         nextMoveId |-> 1, idempotency |-> {}, log |-> <<line>>]
    BY DEF CreatedRecord, seats, line
  <2>4. QED
    BY <1>2, <2>1, <2>2, <2>3 DEF RecordType
<1>5. RecordConsistent
  <2>1. RingOwned(disk)
    BY <1>1 DEF RingOwned
  <2>2. LogReplayable
    <3>1. Len(disk.log) = 1
      BY <1>1, <1>3
    <3>2. QED
      BY <1>1, <3>1 DEF LogReplayable
  <2>3. QED
    BY <1>1, <1>4, <2>1, <2>2 DEF RecordConsistent
<1>6. LockHeld
  BY ServiceAssumption DEF LockHeld, Labels
<1>7. Serving
  BY DEF Serving, NoResponse, Response, Responses, Codes
<1>8. AnswersStored
  BY DEF AnswersStored, NoResponse, Response
<1>9. SnapshotsTrue
  <2>1. \A p \in snaps : p = Snapshot(disk, p.audience) /\ p.revision = disk.revision
    BY DEF Snapshot
  <2>2. QED
    BY <1>1, <2>1 DEF SnapshotsTrue, SnapshotsCommitted
<1>10. QED
  BY <1>5, <1>6, <1>7, <1>8, <1>9 DEF IInv

\* A request that a client sends is one of its own.
LEMMA ReceivedIsClients ==
  ASSUME IInv, NEW r \in Repeated \cup {q \in NewRequests : WellFormed(q)}
  PROVE  r \in ClientRequests
<1>1. CASE r \in Repeated
  <2>1. CASE r \in {e.request : e \in disk.idempotency}
    <3>1. r \in AnyRequest /\ r.account \in Clients
      BY <1>1, <2>1 DEF Repeated, IInv, RecordConsistent, RecordType, StoredAnswers
    <3>2. QED
      BY <3>1, AccountsDistinct
  <2>2. CASE r \in {req[w] : w \in Workers} /\ r.kind # "none"
    <3>1. NoRequest.kind = "none"
      BY DEF NoRequest
    <3>2. QED
      BY <2>2, <3>1 DEF IInv, Serving
  <2>3. QED
    BY <1>1, <2>1, <2>2 DEF Repeated, Sent
<1>2. CASE r \in NewRequests
  <2>1. disk.revision \in Nat /\ 1 .. disk.nextMoveId \subseteq Nat
    BY DEF IInv, RecordConsistent, RecordType
  <2>2. QED
    BY <1>2, <2>1 DEF NewRequests, Request, ClientRequests, RequestsOf
<1>3. QED
  BY <1>1, <1>2

\* An idle thread has no answer, so a new request makes none wrong.
LEMMA ReceiveInv ==
  ASSUME IInv, NEW w \in Workers, Receive(w)
  PROVE  IInv'
<1>1. PICK r \in Repeated \cup {q \in NewRequests : WellFormed(q)} :
        req' = [req EXCEPT ![w] = r] /\ current' = [current EXCEPT ![w] = r]
  BY DEF Receive
<1>2. r \in ClientRequests /\ r \in AnyRequest
  BY ReceivedIsClients, AccountsDistinct
<1>3. /\ pc[w] = "idle" /\ pc' = [pc EXCEPT ![w] = "guard"]
      /\ UNCHANGED <<disk, snaps, lock, answer, audiences, npcs>>
  BY DEF Receive, Goto
<1>4. RecordConsistent' /\ SnapshotsTrue'
  BY <1>3, SameRecord, SameSnapshots DEF IInv
<1>5. LockHeld'
  BY <1>3 DEF IInv, LockHeld, Labels
<1>6. Serving'
  BY <1>1, <1>2, <1>3 DEF IInv, LockHeld, Serving
<1>7. AnswersStored'
  <2>1. answer[w].code \notin {"ok", "rejected"}
    BY <1>3 DEF IInv, Serving, NoResponse, Response
  <2>2. QED
    BY <1>1, <1>3, <2>1 DEF IInv, LockHeld, Serving, AnswersStored, Done
<1>8. QED
  BY <1>4, <1>5, <1>6, <1>7 DEF IInv

\* A request that ends without touching the record.
LEMMA TurnedAwayInv ==
  ASSUME IInv, NEW w \in Workers, pc[w] \in {"guard", "publish"}, lock \in {NoWorker, w},
         NEW response \in Responses, Finish(w, response),
         response.code \in {"ok", "rejected"} => Done(disk, current[w], response),
         UNCHANGED <<disk, snaps, req, npcs>>
  PROVE  IInv'
<1>1. RecordConsistent' /\ SnapshotsTrue'
  BY SameRecord, SameSnapshots DEF IInv
<1>2. LockHeld' /\ Serving' /\ AnswersStored'
  BY FinishKeeps DEF IInv
<1>3. QED
  BY <1>1, <1>2 DEF IInv

\* A replayed response is stored with the request it answers.
LEMMA ReplayInv ==
  ASSUME IInv, NEW w \in Workers, Replay(w)
  PROVE  IInv'
<1>1. pc[w] = "guard" /\ lock = NoWorker /\ UNCHANGED <<disk, snaps, req, npcs>>
  BY DEF Replay, Guarded
<1>2. PICK e \in Entries(current[w]) :
        Finish(w, IF e.request = current[w] THEN e.response ELSE Response("key_reused", 0))
  BY DEF Replay
<1>3. e \in disk.idempotency /\ e.response \in Responses
  BY <1>2 DEF Entries, IInv, RecordConsistent, RecordType, StoredAnswers
<1>4. CASE e.request = current[w]
  <2>1. Done(disk, current[w], e.response)
    BY <1>3, <1>4 DEF Done
  <2>2. QED
    BY <1>1, <1>2, <1>3, <1>4, <2>1, TurnedAwayInv
<1>5. CASE e.request # current[w]
  <2>1. /\ Response("key_reused", 0) \in Responses
        /\ Response("key_reused", 0).code \notin {"ok", "rejected"}
    BY DEF Response, Responses, Codes
  <2>2. QED
    BY <1>1, <1>2, <1>5, <2>1, TurnedAwayInv
<1>6. QED
  BY <1>4, <1>5

\* A stale or refused request gets a response that is not of the ledger.
LEMMA StaleOrRefuseInv ==
  ASSUME IInv, NEW w \in Workers, Stale(w) \/ Refuse(w)
  PROVE  IInv'
<1>1. pc[w] = "guard" /\ lock = NoWorker /\ UNCHANGED <<disk, snaps, req, npcs>>
  BY DEF Stale, Refuse, Accepted, Guarded
<1>2. PICK response \in {Response("stale", disk.revision), Response("refused", 0)} : Finish(w, response)
  BY DEF Stale, Refuse
<1>3. disk.revision \in Nat
  BY DEF IInv, RecordConsistent, RecordType
<1>4. response \in Responses /\ response.code \notin {"ok", "rejected"}
  BY <1>2, <1>3 DEF Response, Responses, Codes
<1>5. QED
  BY <1>1, <1>2, <1>4, TurnedAwayInv

\* So does one whose save failed.
LEMMA SaveFailsInv ==
  ASSUME IInv, NEW w \in Workers, SaveFails(w)
  PROVE  IInv'
<1>1. pc[w] = "guard" /\ lock = NoWorker /\ UNCHANGED <<disk, snaps, req, npcs>>
  BY DEF SaveFails, Accepted, Guarded, GiveUp
<1>2. Finish(w, Response("store_error", 0))
  BY DEF SaveFails, GiveUp
<1>3. /\ Response("store_error", 0) \in Responses
      /\ Response("store_error", 0).code \notin {"ok", "rejected"}
  BY DEF Response, Responses, Codes
<1>4. QED
  BY <1>1, <1>2, <1>3, TurnedAwayInv

\* The response after publishing is the one that was saved: the mutex was held.
LEMMA PublishedInv ==
  ASSUME IInv, NEW w \in Workers, Published(w)
  PROVE  IInv'
<1>1. pc[w] = "publish" /\ lock = w /\ UNCHANGED <<disk, snaps, req, npcs>>
  BY DEF Published, IInv, LockHeld
<1>2. Finish(w, Response("ok", disk.revision))
  BY DEF Published
<1>3. Response("ok", disk.revision) \in Responses
  BY DEF Response, Responses, Codes, IInv, RecordConsistent, RecordType
<1>4. Done(disk, current[w], Response("ok", disk.revision))
  BY <1>1 DEF IInv, AnswersStored
<1>5. QED
  BY <1>1, <1>2, <1>3, <1>4, TurnedAwayInv

\* What Commit does, one result at a time.
LEMMA CommitCases ==
  ASSUME IInv, NEW w \in Workers, Commit(w)
  PROVE  /\ current[w] \in AnyRequest /\ ~ IsStale(current[w]) /\ Entries(current[w]) = {}
         /\ pc[w] = "guard" /\ lock = NoWorker /\ UNCHANGED <<snaps, req, npcs>>
         /\ \E record \in Results(current[w]) :
              /\ SameOrNext(record) /\ disk' = Recorded(record, current[w])
              /\ \/ record.revision = disk.revision /\ Finish(w, ResponseOf(record))
                 \/ /\ record.revision # disk.revision
                    /\ lock' = w /\ Goto(w, "publish")
                    /\ audiences' = [audiences EXCEPT ![w] = Bound(record) \cup {PUBLIC}]
                    /\ UNCHANGED <<current, answer>>
<1>1. /\ pc[w] = "guard" /\ lock = NoWorker /\ UNCHANGED <<snaps, req, npcs>>
      /\ Entries(current[w]) = {} /\ ~ IsStale(current[w]) /\ ~ Refused(current[w])
  BY DEF Commit, Accepted, Guarded
<1>2. current[w] \in AnyRequest
  BY <1>1 DEF IInv, Serving
<1>3. \A record \in Results(current[w]) : SameOrNext(record)
  BY <1>1, <1>2, ResultIsNext DEF IInv, RecordConsistent
<1>4. QED
  BY <1>1, <1>2, <1>3 DEF Commit

\* A commit answers at once or goes on to publish with the mutex.
LEMMA CommitInv ==
  ASSUME IInv, NEW w \in Workers, Commit(w)
  PROVE  IInv'
<1> DEFINE r == current[w]
<1>1. /\ r \in AnyRequest /\ ~ IsStale(r)
      /\ pc[w] = "guard" /\ lock = NoWorker /\ UNCHANGED <<snaps, req, npcs>>
  BY CommitCases
<1>2. PICK record :
        /\ SameOrNext(record) /\ disk' = Recorded(record, r)
        /\ \/ record.revision = disk.revision /\ Finish(w, ResponseOf(record))
           \/ /\ record.revision # disk.revision
              /\ lock' = w /\ Goto(w, "publish")
              /\ audiences' = [audiences EXCEPT ![w] = Bound(record) \cup {PUBLIC}]
              /\ UNCHANGED <<current, answer>>
  BY CommitCases
<1>3. RecordConsistent' /\ Done(disk', r, ResponseOf(record))
  BY <1>1, <1>2, CommitConsistent DEF IInv
<1>4. SnapshotsTrue'
  BY <1>1, <1>2, CommitSnapshots DEF IInv
<1>5. /\ disk.idempotency \subseteq disk'.idempotency /\ disk'.revision = record.revision
      /\ ResponseOf(record) \in Responses
      /\ ResponseOf(record) = Response(IF record.revision = disk.revision THEN "rejected" ELSE "ok", record.revision)
  BY <1>1, <1>2, RecordedRecord DEF IInv
<1>6. CASE record.revision = disk.revision /\ Finish(w, ResponseOf(record))
  <2>1. LockHeld' /\ Serving' /\ AnswersStored'
    BY <1>1, <1>3, <1>5, <1>6, FinishKeeps DEF IInv
  <2>2. QED
    BY <1>3, <1>4, <2>1 DEF IInv
<1>7. CASE /\ record.revision # disk.revision
           /\ lock' = w /\ Goto(w, "publish")
           /\ audiences' = [audiences EXCEPT ![w] = Bound(record) \cup {PUBLIC}]
           /\ UNCHANGED <<current, answer>>
  <2>1. pc' = [pc EXCEPT ![w] = "publish"] /\ req' = req /\ npcs' = npcs
    BY <1>1, <1>7 DEF Goto
  <2>2. \A v \in Workers : pc[v] # "publish"
    BY <1>1, ServiceAssumption DEF IInv, LockHeld
  <2>3. LockHeld'
    BY <1>7, <2>1, <2>2 DEF IInv, LockHeld, Labels
  <2>4. Bound(record) \cup {PUBLIC} \subseteq Audiences
    BY DEF Bound, Audiences
  <2>5. Serving'
    BY <1>1, <1>7, <2>1, <2>4 DEF IInv, LockHeld, Serving
  <2>6. Done(disk', r, Response("ok", disk'.revision))
    BY <1>3, <1>5, <1>7
  <2>7. \A q, a : Done(disk, q, a) => Done(disk', q, a)
    BY <1>5 DEF Done
  <2>8. AnswersStored'
    BY <1>7, <2>1, <2>2, <2>6, <2>7 DEF IInv, LockHeld, AnswersStored
  <2>9. QED
    BY <1>3, <1>4, <2>3, <2>5, <2>8 DEF IInv
<1>8. QED
  BY <1>2, <1>6, <1>7

\* A publication writes snapshots of the record as it is.
LEMMA PublishInv ==
  ASSUME IInv, NEW w \in Workers, Publish(w)
  PROVE  IInv'
<1>1. /\ pc[w] = "publish" /\ UNCHANGED <<disk, lock, pc, req, current, answer, npcs>>
      /\ audiences' = [audiences EXCEPT ![w] = audiences[w] \ {Lowest(audiences[w])}]
  BY DEF Publish
<1>2. RecordConsistent'
  BY <1>1, SameRecord DEF IInv
<1>3. SnapshotsTrue'
  <2>1. CASE UNCHANGED snaps
    BY <1>1, <2>1, SameSnapshots DEF IInv
  <2>2. CASE WriteIfAbsent(Lowest(audiences[w]))
    BY <1>1, <2>2, WrittenSnapshots DEF IInv
  <2>3. QED
    BY <2>1, <2>2 DEF Publish
<1>4. LockHeld' /\ AnswersStored'
  BY <1>1 DEF IInv, LockHeld, AnswersStored, Done
<1>5. Serving'
  <2>1. audiences[w] \ {Lowest(audiences[w])} \subseteq Audiences
    BY DEF IInv, Serving
  <2>2. audiences' \in [Workers -> SUBSET Audiences]
    BY <1>1, <2>1 DEF IInv, Serving
  <2>3. QED
    BY <1>1, <2>2 DEF IInv, Serving
<1>6. QED
  BY <1>2, <1>3, <1>4, <1>5 DEF IInv

\* The round is over the NPC slots, in a running match.
LEMMA StartRoundInv ==
  ASSUME IInv, NEW w \in Workers, StartRound(w)
  PROVE  IInv'
<1>1. /\ pc[w] = "npcs" /\ pc' = [pc EXCEPT ![w] = "round"]
      /\ UNCHANGED <<disk, snaps, lock, req, current, answer, audiences>>
      /\ npcs' = [npcs EXCEPT ![w] = IF disk.phase = "ACTIVE" THEN NpcSlots ELSE {}]
  BY DEF StartRound, Goto
<1>2. RecordConsistent' /\ SnapshotsTrue'
  BY <1>1, SameRecord, SameSnapshots DEF IInv
<1>3. LockHeld'
  BY <1>1 DEF IInv, LockHeld, Labels
<1>4. npcs' \in [Workers -> SUBSET NpcSlots]
  BY <1>1 DEF IInv, Serving
<1>5. Serving'
  BY <1>1, <1>4 DEF IInv, LockHeld, Serving
<1>6. AnswersStored'
  BY <1>1 DEF IInv, LockHeld, AnswersStored, Done
<1>7. QED
  BY <1>2, <1>3, <1>5, <1>6 DEF IInv

\* The move of an NPC goes through runGuarded; the client's answer waits.
LEMMA NpcReadsInv ==
  ASSUME IInv, NEW w \in Workers, NpcReads(w)
  PROVE  IInv'
<1> DEFINE slot == Lowest(npcs[w])
           move == Request("move", NpcAccount[slot], disk.revision, disk.revision, "QUEUE", 1)
<1>1. /\ pc[w] = "round" /\ npcs[w] # {}
      /\ UNCHANGED <<disk, lock, req, answer, audiences>>
      /\ WriteIfAbsent(slot)
      /\ npcs' = [npcs EXCEPT ![w] = npcs[w] \ {slot}]
      /\ \/ UNCHANGED <<pc, current>>
         \/ /\ pc' = [pc EXCEPT ![w] = "guard"]
            /\ current' = [current EXCEPT ![w] = move]
  BY DEF NpcReads, Goto
<1>2. slot \in NpcSlots
  <2>1. npcs[w] \in SUBSET NpcSlots
    BY DEF IInv, Serving
  <2>2. Slots \subseteq Nat /\ NpcSlots \subseteq Slots
    BY ServiceAssumption DEF Slots
  <2>3. npcs[w] \in SUBSET Nat
    BY <2>1, <2>2
  <2>4. QED
    BY <1>1, <2>1, <2>3, LowestIsMember
<1>3. move.account \in NpcAccounts /\ move \in AnyRequest
  <2>1. NpcAccount[slot] \in NpcAccounts /\ disk.revision \in Nat
    BY <1>2 DEF NpcAccounts, IInv, RecordConsistent, RecordType
  <2>2. QED
    BY <2>1 DEF Request, AnyRequest, RequestsOf, PlayModes
<1> HIDE DEF slot, move
<1>4. RecordConsistent'
  BY <1>1, SameRecord DEF IInv
<1>5. SnapshotsTrue'
  BY <1>1, WrittenSnapshots DEF IInv
<1>6. LockHeld'
  BY <1>1 DEF IInv, LockHeld, Labels
<1>7. Serving'
  BY <1>1, <1>3 DEF IInv, LockHeld, Serving
<1>8. AnswersStored'
  <2>1. \A v \in Workers : pc'[v] = "publish" => pc[v] = "publish" /\ current'[v] = current[v]
    BY <1>1 DEF IInv, LockHeld, Serving
  <2>2. disk' = disk /\ req' = req /\ answer' = answer
    BY <1>1
  <2>3. QED
    BY <2>1, <2>2 DEF IInv, AnswersStored
<1>9. QED
  BY <1>4, <1>5, <1>6, <1>7, <1>8 DEF IInv

\* The end of the round leaves the client's answer as it was.
LEMMA EndRoundInv ==
  ASSUME IInv, NEW w \in Workers, EndRound(w)
  PROVE  IInv'
<1>1. /\ pc[w] = "round" /\ pc' = [pc EXCEPT ![w] = "reply"]
      /\ UNCHANGED <<disk, snaps, lock, req, current, answer, audiences, npcs>>
  BY DEF EndRound, Goto
<1>2. RecordConsistent' /\ SnapshotsTrue'
  BY <1>1, SameRecord, SameSnapshots DEF IInv
<1>3. LockHeld' /\ Serving' /\ AnswersStored'
  BY <1>1 DEF IInv, LockHeld, Labels, Serving, AnswersStored, Done
<1>4. QED
  BY <1>2, <1>3 DEF IInv

\* A client's view is stored if it was missing.
LEMMA ReadViewInv ==
  ASSUME IInv, ReadView
  PROVE  IInv'
<1>1. UNCHANGED <<disk, lock, threadVars>> /\ \E a \in Bound(disk) \cup {PUBLIC} : WriteIfAbsent(a)
  BY DEF ReadView
<1>2. RecordConsistent' /\ SnapshotsTrue'
  BY <1>1, SameRecord, WrittenSnapshots DEF IInv
<1>3. LockHeld' /\ Serving' /\ AnswersStored'
  BY <1>1 DEF threadVars, IInv, LockHeld, Serving, AnswersStored, Done
<1>4. QED
  BY <1>2, <1>3 DEF IInv

\* After the response the thread is as new.
LEMMA ReplyInv ==
  ASSUME IInv, NEW w \in Workers, Reply(w)
  PROVE  IInv'
<1>1. /\ pc[w] = "reply" /\ pc' = [pc EXCEPT ![w] = "idle"]
      /\ req' = [req EXCEPT ![w] = NoRequest] /\ current' = [current EXCEPT ![w] = NoRequest]
      /\ answer' = [answer EXCEPT ![w] = NoResponse]
      /\ UNCHANGED <<disk, snaps, lock, audiences, npcs>>
  BY DEF Reply, Goto
<1>2. RecordConsistent' /\ SnapshotsTrue'
  BY <1>1, SameRecord, SameSnapshots DEF IInv
<1>3. LockHeld'
  BY <1>1 DEF IInv, LockHeld, Labels
<1>4. NoResponse \in Responses /\ NoResponse.code \notin {"ok", "rejected"}
  BY DEF NoResponse, Response, Responses, Codes
<1>5. Serving'
  BY <1>1, <1>4 DEF IInv, LockHeld, Serving
<1>6. AnswersStored'
  BY <1>1, <1>4 DEF IInv, LockHeld, Serving, AnswersStored, Done
<1>7. QED
  BY <1>2, <1>3, <1>5, <1>6 DEF IInv

\* What a crash forgets is nothing that the record or the snapshots rest on.
LEMMA CrashInv ==
  ASSUME IInv, Crash
  PROVE  IInv'
<1>1. RecordConsistent' /\ SnapshotsTrue'
  BY SameRecord, SameSnapshots DEF IInv, Crash
<1>2. NoResponse \in Responses /\ NoResponse.code \notin {"ok", "rejected"}
  BY DEF NoResponse, Response, Responses, Codes
<1>3. LockHeld'
  BY ServiceAssumption DEF Crash, LockHeld, Labels
<1>4. Serving' /\ AnswersStored'
  BY <1>2 DEF Crash, Serving, AnswersStored
<1>5. QED
  BY <1>1, <1>3, <1>4 DEF IInv

\* Every step.
LEMMA NextInv ==
  ASSUME IInv, [Next]_vars
  PROVE  IInv'
<1>1. CASE UNCHANGED vars
  <2>1. RecordConsistent' /\ SnapshotsTrue'
    BY <1>1, SameRecord, SameSnapshots DEF IInv, vars
  <2>2. LockHeld' /\ Serving' /\ AnswersStored'
    BY <1>1 DEF vars, threadVars, IInv, LockHeld, Serving, AnswersStored, Done
  <2>3. QED
    BY <2>1, <2>2 DEF IInv
<1>2. CASE Crash
  BY <1>2, CrashInv
<1>3. CASE ReadView
  BY <1>3, ReadViewInv
<1>4. ASSUME NEW w \in Workers, Receive(w) \/ Serve(w)
      PROVE  IInv'
  BY <1>4, ReceiveInv, ReplayInv, StaleOrRefuseInv, CommitInv, SaveFailsInv, PublishInv, PublishedInv,
     StartRoundInv, NpcReadsInv, EndRoundInv, ReplyInv DEF Serve
<1>5. QED
  BY <1>1, <1>2, <1>3, <1>4 DEF Next

\* The invariant holds in every reachable state.
LEMMA Invariance == Spec => []IInv
  BY InitInv, NextInv, PTL DEF Spec

\* Whatever threads, retries, NPC rounds, failed saves and crashes do, the stored
\* record stays well-typed, its log replays to it, one entry per revision, and
\* its ring and its owners name the same moves (HiderSeekerService.cpp:241-250,
\* 398-441).
THEOREM RecordAgreesAlways == Spec => []RecordAgrees
<1>1. IInv => TypeOK
  BY DEF IInv, RecordConsistent, RecordType, RingOwned, LockHeld, Serving, Labels, Phases, Bindings,
     Owners, StoredAnswers, Accounts, AnyRequest, ClientRequests, TypeOK
<1>2. IInv => LogReplayable /\ PendingOwned
  BY DEF IInv, RecordConsistent, RingOwned, PendingOwned
<1>3. QED
  BY <1>1, <1>2, Invariance, PTL DEF RecordAgrees

\* No snapshot is of a revision that was not committed, and those of the latest
\* revision show the stored match (view_snapshots.cpp:23).
THEOREM SnapshotsCommittedAlways == Spec => []SnapshotsCommitted
<1>1. IInv => SnapshotsCommitted
  BY DEF IInv, SnapshotsTrue
<1>2. QED
  BY <1>1, Invariance, PTL

-----------------------------------------------------------------------------
(* The ledger.                                                             *)

\* The state of the ledger, as KeepsLedger maps it.
done == {[account |-> e.account, key |-> e.key, request |-> e.request,
          response |-> e.response] : e \in disk.idempotency}
answers == {[request |-> req[w], response |-> answer[w]] :
              w \in {v \in Workers : pc[v] = "reply" /\ answer[v].code \in {"ok", "rejected"}}}

\* The abstract ledger is the idempotency table of the record.
LEMMA DoneIsStored == RecordConsistent => done = disk.idempotency
<1> SUFFICES ASSUME RecordConsistent
             PROVE  done = disk.idempotency
  OBVIOUS
<1>1. disk.idempotency \in StoredAnswers
  BY DEF RecordConsistent, RecordType
<1>2. \A e \in disk.idempotency :
        e = [account |-> e.account, key |-> e.key, request |-> e.request, response |-> e.response]
  BY <1>1 DEF StoredAnswers
<1>3. QED
  BY <1>2 DEF done

\* Every answer on its way to a client is in it.
LEMMA AnswersAreDone ==
  IInv => answers \subseteq {[request |-> e.request, response |-> e.response] : e \in done}
<1> SUFFICES ASSUME IInv
             PROVE  answers \subseteq {[request |-> e.request, response |-> e.response] : e \in done}
  OBVIOUS
<1>1. ASSUME NEW a \in answers
      PROVE  a \in {[request |-> e.request, response |-> e.response] : e \in disk.idempotency}
  <2>1. PICK w \in Workers : /\ answer[w].code \in {"ok", "rejected"}
                             /\ a = [request |-> req[w], response |-> answer[w]]
    BY DEF answers
  <2>2. PICK e \in disk.idempotency : e.request = req[w] /\ e.response = answer[w]
    BY <2>1 DEF IInv, AnswersStored, Done
  <2>3. QED
    BY <2>1, <2>2
<1>2. QED
  BY <1>1, DoneIsStored DEF IInv

\* A commit does one request, under a key of its account that was free.
LEMMA CommitIsDone ==
  ASSUME IInv, IInv', NEW w \in Workers, Commit(w)
  PROVE  Ledger!Do
<1> DEFINE r == current[w]
<1>1. /\ r \in AnyRequest /\ ~ IsStale(r) /\ Entries(r) = {}
  BY CommitCases
<1>2. PICK record : SameOrNext(record) /\ disk' = Recorded(record, r)
  BY CommitCases
<1> DEFINE e == Entry(record, r)
<1>3. /\ disk'.idempotency = disk.idempotency \cup {e} /\ disk'.revision = record.revision
      /\ ResponseOf(record) = Response(IF record.revision = disk.revision THEN "rejected" ELSE "ok", record.revision)
  BY <1>1, <1>2, RecordedRecord DEF IInv
<1>4. /\ e.account = r.account /\ e.key = r.key /\ e.request = r /\ e.response = ResponseOf(record)
  BY DEF Entry
<1> HIDE DEF e
<1>5. done = disk.idempotency /\ done' = disk'.idempotency
  <2>1. (RecordConsistent => done = disk.idempotency)'
    BY DoneIsStored, PTL
  <2>2. QED
    BY <2>1, DoneIsStored DEF IInv
<1>6. \A d \in done : d.account # e.account \/ d.key # e.key
  BY <1>1, <1>4, <1>5 DEF Entries
<1>7. e \in done' \ done /\ done' = done \cup {e}
  BY <1>3, <1>5, <1>6
<1>8. /\ disk'.revision = disk.revision + (IF e.response.code = "ok" THEN 1 ELSE 0)
      /\ e.response.revision = disk'.revision
  <2>1. disk.revision \in Nat
    BY DEF IInv, RecordConsistent, RecordType
  <2>2. e.response.revision = disk'.revision
    BY <1>3, <1>4 DEF Response
  <2>3. CASE record = disk
    BY <1>3, <1>4, <2>1, <2>2, <2>3 DEF Response
  <2>4. CASE record.revision = disk.revision + 1
    BY <1>3, <1>4, <2>1, <2>2, <2>4 DEF Response
  <2>5. QED
    BY <1>2, <2>3, <2>4 DEF SameOrNext
<1>9. e.account = e.request.account /\ e.key = e.request.key
  BY <1>4
<1>10. QED
  BY <1>6, <1>7, <1>8, <1>9 DEF Ledger!Do, done

\* Nothing but a commit writes the record.
LEMMA OnlyCommitWrites ==
  ASSUME [Next]_vars
  PROVE  UNCHANGED disk \/ \E w \in Workers : Commit(w)
  BY DEF Next, vars, Crash, ReadView, Receive, Serve, Replay, Stale, Refuse, SaveFails, Publish, Published,
         StartRound, NpcReads, EndRound, Reply

\* Every step is a step of the ledger or changes only what is being answered.
LEMMA StepKeepsLedger ==
  ASSUME IInv, IInv', [Next]_vars
  PROVE  Ledger!Next
<1>1. Ledger!Answer
  <2>1. answers' \subseteq {[request |-> e.request, response |-> e.response] : e \in done'}
    <3>1. (IInv => answers \subseteq {[request |-> e.request, response |-> e.response] : e \in done})'
      BY AnswersAreDone, PTL
    <3>2. QED
      BY <3>1
  <2>2. QED
    BY <2>1 DEF Ledger!Answer, answers, done
<1>2. CASE UNCHANGED disk
  <2>1. UNCHANGED <<done, disk.revision>>
    BY <1>2 DEF done
  <2>2. QED
    BY <1>1, <2>1 DEF Ledger!Next, done
<1>3. CASE \E w \in Workers : Commit(w)
  BY <1>1, <1>3, CommitIsDone DEF Ledger!Next
<1>4. QED
  BY <1>2, <1>3, OnlyCommitWrites

\* The match service keeps the promise of RequestLedger: each accepted request
\* changes the match once, whatever is repeated, interleaved, lost or crashed, and
\* an answer given once is the answer for ever (HiderSeekerService.cpp:395-408).
THEOREM LedgerKept == Spec => KeepsLedger
<1>1. Init => Ledger!Init
  BY DEF Init, CreatedRecord, Ledger!Init
<1>2. IInv /\ IInv' /\ [Next]_vars => [Ledger!Next]_(Ledger!vars)
  BY StepKeepsLedger
<1>3. QED
  BY <1>1, <1>2, Invariance, PTL DEF Spec, KeepsLedger, Ledger!Spec
=============================================================================
