------------------------------ MODULE Records ------------------------------
(***************************************************************************)
(* The stored form of a hider-seeker match: the bytes of its MatchState    *)
(* (serialization.cpp) as hexadecimal text in a JSON document with the     *)
(* rest of its MatchRecord (match_record.cpp).  Each write function of the *)
(* code is a list of fields, and each read function another: that the two  *)
(* agree is what RestoredAsSaved says.  The weights of a seeker model are  *)
(* written and read byte by byte too (seeker_model.cpp).                   *)
(*                                                                         *)
(* The arrays are smaller than the code's, whose lengths are constants in  *)
(* writer and reader alike.                                                *)
(***************************************************************************)
EXTENDS SeekerPlay

CONSTANTS
  RecordHiders,   \* MAX_HIDERS
  RecordServers,  \* MAX_SERVERS
  RecordHistory,  \* HISTORY_TICKS
  RecordGoals     \* MAX_GOALS

CURRENT_SCHEMA_VERSION == 3
MAX_REQUIREMENTS_PER_GOAL == 2
MAX_EVENTS == 3
MAX_SEEKER_TARGETS == 2
RESOURCE_TYPE_COUNT == 2
MAX_PENDING_MOVES == 2
Winners == 0 .. 2

-----------------------------------------------------------------------------
(* Little-endian integers.  A text is the sequence of its digits' values.  *)

\* The low width bytes of a two's complement integer.  Numbers of the model are
\* below 2^31, so the bytes above the fourth only repeat the sign.
LittleEndian(v, width) ==
  [i \in 1 .. width |-> IF i <= 4 THEN (v \div Byte ^ (i - 1)) % Byte ELSE IF v < 0 THEN Byte - 1 ELSE 0]

\* The integer of so many bytes at a place.
Unsigned(bytes, at, width) ==
  FoldRight(LAMBDA i, acc : acc * Byte + bytes[i], [i \in 1 .. width |-> at + i - 1], 0)

\* The same with a sign in the highest byte.
Signed(bytes, at, width) ==
  LET highest == bytes[at + width - 1]
  IN FoldRight(LAMBDA i, acc : acc * Byte + bytes[i], [i \in 1 .. width - 1 |-> at + i - 1],
               IF highest >= Byte \div 2 THEN highest - Byte ELSE highest)

-----------------------------------------------------------------------------
(* Hexadecimal text.                                                       *)

NoDigit == -1   \* a character that is no lowercase digit
Refused == [refused |-> TRUE]

toHex(bytes) == FlattenSeq([i \in DOMAIN bytes |-> <<bytes[i] \div 16, bytes[i] % 16>>])

fromHex(text) ==
  IF Len(text) % 2 # 0 \/ NoDigit \in Range(text) THEN Refused
  ELSE [i \in 1 .. Len(text) \div 2 |-> text[2 * i - 1] * 16 + text[2 * i]]

-----------------------------------------------------------------------------
(* A model: three layers of rows of weights (int16) and biases (int32).    *)

layerBytes(layer) ==
  FlattenSeq([j \in DOMAIN layer.w |->
                FlattenSeq([i \in DOMAIN layer.w[j] |-> LittleEndian(layer.w[j][i], 2)])])
    \o FlattenSeq([j \in DOMAIN layer.b |-> LittleEndian(layer.b[j], 4)])

seekerModelBytes(model) ==
  layerBytes(model.hidden1) \o layerBytes(model.hidden2) \o layerBytes(model.output)

\* The layer of so many rows of so many inputs, at a place of the bytes.
LayerAt(bytes, at, rows, inputs) ==
  LET weight(j, i) == at + 2 * ((j - 1) * inputs + (i - 1))
      bias(j) == at + 2 * rows * inputs + 4 * (j - 1)
  IN [w |-> [j \in 1 .. rows |->
               [i \in 1 .. inputs |-> Signed(bytes, weight(j, i), 2)]],
      b |-> [j \in 1 .. rows |-> Signed(bytes, bias(j), 4)]]

LayerSize(rows, inputs) == 2 * rows * inputs + 4 * rows

\* sizes: the inputs, the two hidden layers and the outputs (43, 32, 16, 3).
seekerModelFromBytes(bytes, sizes) ==
  LET second == 1 + LayerSize(sizes[2], sizes[1])
      third == second + LayerSize(sizes[3], sizes[2])
  IN IF Len(bytes) # third - 1 + LayerSize(sizes[4], sizes[3]) THEN Refused
     ELSE [hidden1 |-> LayerAt(bytes, 1, sizes[2], sizes[1]),
           hidden2 |-> LayerAt(bytes, second, sizes[3], sizes[2]),
           output |-> LayerAt(bytes, third, sizes[4], sizes[3])]

-----------------------------------------------------------------------------
(* The model the tool writes: weights from -64 to 64 in the order they are *)
(* drawn, row by row and layer by layer, and no biases.                    *)

RandomLayer(draw, from, rows, inputs) ==
  [w |-> [j \in 1 .. rows |-> [i \in 1 .. inputs |-> (draw[from + (j - 1) * inputs + i] % 129) - 64]],
   b |-> [j \in 1 .. rows |-> 0]]

\* draw[n] is the n-th value of the seeded generator.
makeRandomSeekerModel(draw, sizes) ==
  LET drawn1 == sizes[1] * sizes[2]
      drawn2 == drawn1 + sizes[2] * sizes[3]
  IN [hidden1 |-> RandomLayer(draw, 0, sizes[2], sizes[1]),
      hidden2 |-> RandomLayer(draw, drawn1, sizes[3], sizes[2]),
      output |-> RandomLayer(draw, drawn2, sizes[4], sizes[3])]

-----------------------------------------------------------------------------
(* Fields in the order they are written.                                   *)

Width == [uint8 |-> 1, uint16 |-> 2, uint32 |-> 4, uint64 |-> 8]

Fields(names, type) == [i \in DOMAIN names |-> [name |-> names[i], type |-> type, count |-> 0]]
Many(name, type, count) == <<[name |-> name, type |-> type, count |-> count]>>

writeMetricFrame == Fields(<<"cpu", "memory", "disk", "network", "heat", "errors", "users">>, "uint8")

writeServerState ==
  Fields(<<"active", "owner_hider_id", "public_flags", "trace_strength", "trace_age">>, "uint8")
    \o Fields(<<"current">>, "MetricFrame") \o Many("history", "MetricFrame", RecordHistory)
    \o Fields(<<"history_head">>, "uint8")

writeHiderState ==
  Fields(<<"active", "status", "action_points", "server_id">>, "uint8")
    \o Many("resources", "uint16", RESOURCE_TYPE_COUNT) \o Many("goal_progress", "uint8", RecordGoals)

writeSeekerState ==
  Fields(<<"connection_tokens", "max_tokens", "heat">>, "uint8")
    \o Many("belief", "uint8", RecordServers) \o Many("target_ids", "uint8", MAX_SEEKER_TARGETS)
    \o Fields(<<"target_count", "target_head">>, "uint8")
    \o Many("last_probe_tick", "uint8", RecordServers)

writeRequirement == Fields(<<"type", "subject_id">>, "uint8") \o Fields(<<"amount", "threshold">>, "uint16")

writeGoalState ==
  Fields(<<"active", "goal_id", "status", "reward_type">>, "uint8") \o Fields(<<"reward_amount">>, "uint16")
    \o Fields(<<"requirement_count">>, "uint8")
    \o Many("requirements", "Requirement", MAX_REQUIREMENTS_PER_GOAL)
    \o Fields(<<"completion_action">>, "uint8") \o Fields(<<"deadline_tick">>, "uint16")

writeEvent == Fields(<<"type">>, "uint8") \o Fields(<<"tick">>, "uint32")

writePendingMove ==
  Fields(<<"move_id", "submit_seq">>, "uint32")
    \o Fields(<<"hider_id", "action_type", "server_id", "target_id", "server_mode">>, "uint8")

writeMatchState ==
  Fields(<<"schema_version", "ruleset_version">>, "uint32") \o Fields(<<"revision">>, "uint64")
    \o Fields(<<"tick">>, "uint32") \o Fields(<<"rng_state">>, "uint64")
    \o Fields(<<"phase", "hider_count", "server_count">>, "uint8")
    \o Many("hiders", "HiderState", RecordHiders) \o Many("servers", "ServerState", RecordServers)
    \o Fields(<<"seeker">>, "SeekerState") \o Many("goals", "GoalState", RecordGoals)
    \o Many("events", "Event", MAX_EVENTS) \o Fields(<<"event_head", "event_count">>, "uint8")
    \o Many("pending", "PendingMove", MAX_PENDING_MOVES)
    \o Fields(<<"pending_head", "pending_count">>, "uint8") \o Fields(<<"next_submit_seq">>, "uint32")
    \o Fields(<<"hider_connection_pool">>, "uint8") \o Fields(<<"seeker_connection_mask">>, "uint16")
    \o Fields(<<"winner">>, "uint8")

-----------------------------------------------------------------------------
(* Fields in the order they are read.                                      *)

readMetricFrame == Fields(<<"cpu", "memory", "disk", "network", "heat", "errors", "users">>, "uint8")

readServerState ==
  Fields(<<"active", "owner_hider_id", "public_flags", "trace_strength", "trace_age">>, "uint8")
    \o Fields(<<"current">>, "MetricFrame") \o Many("history", "MetricFrame", RecordHistory)
    \o Fields(<<"history_head">>, "uint8")

readHiderState ==
  Fields(<<"active", "status", "action_points", "server_id">>, "uint8")
    \o Many("resources", "uint16", RESOURCE_TYPE_COUNT) \o Many("goal_progress", "uint8", RecordGoals)

\* (mutant) the probe ticks are read before the targets
ProbesBeforeTargets ==
  Fields(<<"connection_tokens", "max_tokens", "heat">>, "uint8")
    \o Many("belief", "uint8", RecordServers) \o Many("last_probe_tick", "uint8", RecordServers)
    \o Many("target_ids", "uint8", MAX_SEEKER_TARGETS) \o Fields(<<"target_count", "target_head">>, "uint8")

readSeekerState ==
  Fields(<<"connection_tokens", "max_tokens", "heat">>, "uint8")
    \o Many("belief", "uint8", RecordServers) \o Many("target_ids", "uint8", MAX_SEEKER_TARGETS)
    \o Fields(<<"target_count", "target_head">>, "uint8")
    \o Many("last_probe_tick", "uint8", RecordServers)

readRequirement == Fields(<<"type", "subject_id">>, "uint8") \o Fields(<<"amount", "threshold">>, "uint16")

readGoalState ==
  Fields(<<"active", "goal_id", "status", "reward_type">>, "uint8") \o Fields(<<"reward_amount">>, "uint16")
    \o Fields(<<"requirement_count">>, "uint8")
    \o Many("requirements", "Requirement", MAX_REQUIREMENTS_PER_GOAL)
    \o Fields(<<"completion_action">>, "uint8") \o Fields(<<"deadline_tick">>, "uint16")

readEvent == Fields(<<"type">>, "uint8") \o Fields(<<"tick">>, "uint32")

readPendingMove ==
  Fields(<<"move_id", "submit_seq">>, "uint32")
    \o Fields(<<"hider_id", "action_type", "server_id", "target_id", "server_mode">>, "uint8")

readMatchHeader ==
  Fields(<<"schema_version", "ruleset_version">>, "uint32") \o Fields(<<"revision">>, "uint64")
    \o Fields(<<"tick">>, "uint32") \o Fields(<<"rng_state">>, "uint64")
    \o Fields(<<"phase", "hider_count", "server_count">>, "uint8")

readMatchBulk ==
  Many("hiders", "HiderState", RecordHiders) \o Many("servers", "ServerState", RecordServers)
    \o Fields(<<"seeker">>, "SeekerState") \o Many("goals", "GoalState", RecordGoals)
    \o Many("events", "Event", MAX_EVENTS) \o Fields(<<"event_head", "event_count">>, "uint8")
    \o Many("pending", "PendingMove", MAX_PENDING_MOVES)
    \o Fields(<<"pending_head", "pending_count">>, "uint8") \o Fields(<<"next_submit_seq">>, "uint32")

readMatchAddenda ==
  Fields(<<"hider_connection_pool">>, "uint8") \o Fields(<<"seeker_connection_mask">>, "uint16")
    \o Fields(<<"winner">>, "uint8")

-----------------------------------------------------------------------------
(* Writing and reading a value of a type.                                  *)

Writer ==
  [MetricFrame |-> writeMetricFrame, ServerState |-> writeServerState, HiderState |-> writeHiderState,
   SeekerState |-> writeSeekerState, Requirement |-> writeRequirement, GoalState |-> writeGoalState,
   Event |-> writeEvent, PendingMove |-> writePendingMove, MatchState |-> writeMatchState]

Reader ==
  [MetricFrame |-> readMetricFrame, ServerState |-> readServerState, HiderState |-> readHiderState,
   SeekerState |-> readSeekerState, Requirement |-> readRequirement, GoalState |-> readGoalState,
   Event |-> readEvent, PendingMove |-> readPendingMove,
   MatchState |-> readMatchHeader \o readMatchBulk \o readMatchAddenda]

RECURSIVE Written(_, _)
Written(type, value) ==
  IF type \in DOMAIN Width THEN LittleEndian(value, Width[type])
  ELSE FlattenSeq([i \in DOMAIN Writer[type] |->
         LET f == Writer[type][i]
         IN IF f.count = 0 THEN Written(f.type, value[f.name])
            ELSE FlattenSeq([j \in 1 .. f.count |-> Written(f.type, value[f.name][j])])])

RECURSIVE SizeOf(_)
Size(f) == (IF f.count = 0 THEN 1 ELSE f.count) * SizeOf(f.type)
SizeOfAll(fields) == FoldLeft(LAMBDA acc, f : acc + Size(f), 0, fields)
SizeOf(type) == IF type \in DOMAIN Width THEN Width[type] ELSE SizeOfAll(Reader[type])

\* The value of a type at a place of the bytes: fields follow each other.
RECURSIVE ReadAt(_, _, _)
Item(f, bytes, at) ==
  IF f.count = 0 THEN ReadAt(f.type, bytes, at)
  ELSE [j \in 1 .. f.count |-> ReadAt(f.type, bytes, at + (j - 1) * SizeOf(f.type))]
ReadAt(type, bytes, at) ==
  IF type \in DOMAIN Width THEN Unsigned(bytes, at, Width[type])
  ELSE FoldLeft(LAMBDA acc, f : [value |-> acc.value @@ (f.name :> Item(f, bytes, acc.at)),
                                 at |-> acc.at + Size(f)],
                [value |-> [none \in {} |-> 0], at |-> at], Reader[type]).value

saveMatchState(state) == LittleEndian(CURRENT_SCHEMA_VERSION, 4) \o Written("MatchState", state)

Marker == 4
HeaderSize == Marker + SizeOfAll(readMatchHeader)

\* The length loadMatchState asks for: the fields of schema version 3 at the end
\* are not counted, so a buffer that lacks them is read past its end.
CheckedSize == HeaderSize + SizeOfAll(readMatchBulk)

loadMatchState(bytes) ==
  IF Len(bytes) < Marker \/ Len(bytes) < HeaderSize \/ Len(bytes) < CheckedSize THEN Refused
  ELSE IF Unsigned(bytes, 1, Marker) # CURRENT_SCHEMA_VERSION THEN Refused
  ELSE LET loaded == ReadAt("MatchState", bytes, Marker + 1)
       IN IF \/ loaded.winner \notin Winners
             \/ loaded.pending_count > MAX_PENDING_MOVES \/ loaded.pending_head >= MAX_PENDING_MOVES
          THEN Refused ELSE loaded

-----------------------------------------------------------------------------
(* Public events and the record.                                           *)

PublicEvent(type, tick, revision) ==
  [type |-> type, tick |-> tick, revision |-> revision, server_id |-> 255, outcome |-> ""]

\* The oldest entries make room.
appendPublicEvent(events, entry) ==
  Append(IF Len(events) >= MAX_EVENTS THEN Tail(events) ELSE events, entry)

EventJson(e) ==
  LET common == [type |-> e.type, tick |-> e.tick, revision |-> e.revision]
  IN IF e.type = "SERVER_PROBED" THEN common @@ [server_id |-> e.server_id, outcome |-> e.outcome] ELSE common

\* Exactly the fields of its type, with values in range.
IsEventJson(j) ==
  /\ {"type", "tick", "revision"} \subseteq DOMAIN j
  /\ j.tick >= 0 /\ j.revision >= 0
  /\ \/ /\ j.type = "SERVER_PROBED"
        /\ DOMAIN j = {"type", "tick", "revision", "server_id", "outcome"}
        /\ j.server_id \in 0 .. 255 /\ j.outcome \in {"HIT", "MISS"}
     \/ j.type \in {"SERVER_ADDED", "SERVER_REMOVED"} /\ DOMAIN j = {"type", "tick", "revision"}

EventFromJson(j) == j @@ PublicEvent(j.type, j.tick, j.revision)

Null == "null"   \* JSON's null, which is no account
Entries == [idempotency |-> {"account", "key", "request", "status_code", "response"},
            moves |-> {"move_id", "account", "hider_id"},
            request_log |-> {"revision_before", "account", "kind", "body"}]

toJson(record) ==
  [record EXCEPT !.state = toHex(saveMatchState(@)),
                 !.accounts = [i \in DOMAIN @ |-> IF @[i] = "" THEN Null ELSE @[i]],
                 !.public_events = [i \in DOMAIN @ |-> EventJson(@[i])]]

RecordKeys == {"filename", "version", "host", "state", "accounts", "next_move_id", "idempotency",
               "moves", "request_log"}

\* Records of milestone 2 have no public_events: an empty list.
EventsOf(j) == IF "public_events" \in DOMAIN j THEN j.public_events ELSE <<>>

\* j.at of a missing key throws, which refuses the document like every other fault.
IsRecordJson(j) ==
  /\ RecordKeys \subseteq DOMAIN j
  /\ fromHex(j.state) # Refused /\ loadMatchState(fromHex(j.state)) # Refused
  /\ Len(j.accounts) = RecordHiders
  /\ \A list \in DOMAIN Entries : \A entry \in Range(j[list]) : Entries[list] \subseteq DOMAIN entry
  /\ \A e \in Range(EventsOf(j)) : IsEventJson(e)

fromJson(j) ==
  IF ~ IsRecordJson(j) THEN Refused
  ELSE [key \in RecordKeys |->
          CASE key = "state" -> loadMatchState(fromHex(j.state))
            [] key = "accounts" -> [i \in DOMAIN j.accounts |-> IF j.accounts[i] = Null THEN ""
                                                                 ELSE j.accounts[i]]
            [] OTHER -> j[key]]
         @@ [public_events |-> [i \in DOMAIN EventsOf(j) |-> EventFromJson(EventsOf(j)[i])]]

-----------------------------------------------------------------------------
(* The match's record.  Fields the play does not move have values that no  *)
(* other field has, so that a field read in another's place would show.    *)

Numbered(list, x) == CHOOSE i \in 0 .. Len(list) : i = Len(list) \/ list[i + 1] = x
Phases == <<"LOBBY", "ACTIVE", "COMPLETE">>
WinnerNames == <<"NONE", "HIDERS", "SEEKER">>

Frame(f) ==
  [cpu |-> f.CPU, memory |-> 51, disk |-> 52, network |-> f.NETWORK, heat |-> 53, errors |-> f.ERRORS,
   users |-> 54]

ServerRecord(s, server) ==
  [active |-> Flag(server \in s.active) \div 256, owner_hider_id |-> 61, public_flags |-> 62,
   trace_strength |-> s.metrics[server].TRACE, trace_age |-> 63, current |-> Frame(s.metrics[server]),
   history |-> [i \in 1 .. RecordHistory |-> Frame(s.history[server][i - 1])],
   history_head |-> s.head[server]]

HiderRecord(s, h) ==
  [active |-> 1, status |-> 71, action_points |-> s.ap[h],
   server_id |-> IF s.conn[h] = NO_SERVER_ID THEN 255 ELSE s.conn[h],
   resources |-> [i \in 1 .. RESOURCE_TYPE_COUNT |-> IF i = 1 THEN s.loa[h] ELSE 700 + i],
   goal_progress |-> [g \in 1 .. RecordGoals |-> 72 + g]]

SeekerRecord(s) ==
  [connection_tokens |-> s.tokens, max_tokens |-> 81, heat |-> 82,
   belief |-> [i \in 1 .. RecordServers |-> s.belief[i - 1]],
   target_ids |-> [i \in 1 .. MAX_SEEKER_TARGETS |-> 82 + i], target_count |-> 86, target_head |-> 87,
   last_probe_tick |-> [i \in 1 .. RecordServers |-> s.probed[i - 1]]]

GoalRecord(s, g) ==
  [active |-> IF s.goals[SeededGoals[g].goal_id] = "OPEN" THEN 1 ELSE 0, goal_id |-> g,
   status |-> 91, reward_type |-> 92, reward_amount |-> 9300,
   requirement_count |-> Len(SeededGoals[g].requirements),
   requirements |-> [r \in 1 .. MAX_REQUIREMENTS_PER_GOAL |->
                       [type |-> 93 + r, subject_id |-> 96, amount |-> 970, threshold |-> 980 + r]],
   completion_action |-> 99, deadline_tick |-> 10000]

MatchStateOf(s) ==
  [schema_version |-> 3, ruleset_version |-> 11, revision |-> 70000 + s.tick, tick |-> s.tick,
   rng_state |-> 123456789, phase |-> Numbered(Phases, s.phase), hider_count |-> Cardinality(Slots),
   server_count |-> Cardinality(s.active),
   hiders |-> [i \in 1 .. RecordHiders |-> HiderRecord(s, i - 1)],
   servers |-> [i \in 1 .. RecordServers |-> ServerRecord(s, i - 1)],
   seeker |-> SeekerRecord(s), goals |-> [g \in 1 .. RecordGoals |-> GoalRecord(s, g)],
   events |-> [e \in 1 .. MAX_EVENTS |-> [type |-> 20 + e, tick |-> 66000 + e]],
   event_head |-> 1, event_count |-> 2,
   pending |-> [i \in 1 .. MAX_PENDING_MOVES |->
     [move_id |-> 30 + i, submit_seq |-> 33, hider_id |-> 34, action_type |-> 35, server_id |-> 36,
      target_id |-> 37, server_mode |-> 38]],
   pending_head |-> 1, pending_count |-> 0, next_submit_seq |-> 68000,
   hider_connection_pool |-> s.pool,
   seeker_connection_mask |-> FoldSet(LAMBDA server, acc : acc + 2 ^ server, 0, s.mask),
   winner |-> Numbered(WinnerNames, s.winner)]

\* The events of this tick in a list the earlier ones have filled.
EventsKept(s) ==
  FoldLeft(LAMBDA list, e : appendPublicEvent(list, [PublicEvent(e.type, e.tick, 70000)
                                                       EXCEPT !.server_id = e.server_id, !.outcome = e.outcome]),
           [i \in 1 .. MAX_EVENTS |-> PublicEvent("SERVER_ADDED", i, i)], s.events)

RecordOf(s) ==
  [filename |-> "match", version |-> 7, host |-> "ann", state |-> MatchStateOf(s),
   accounts |-> [i \in 1 .. RecordHiders |-> IF i = 1 THEN "ann" ELSE ""], next_move_id |-> 9,
   idempotency |-> <<[account |-> "ann", key |-> "k", request |-> "move", status_code |-> 200,
                      response |-> "ok"]>>,
   moves |-> <<[move_id |-> "mv-1", account |-> "ann", hider_id |-> 0]>>,
   request_log |-> <<[revision_before |-> 0, account |-> "ann", kind |-> "create", body |-> "none"]>>,
   public_events |-> EventsKept(s)]

\* A stored match is restored as it was, in every field; a record from before
\* public events (milestone 2) with an empty list; and a model's weights too.
RestoredAsSaved ==
  st.tick = quiet + MaxTicks \/ st.phase = "COMPLETE" =>
    LET record == RecordOf(st)
        document == toJson(record)
        old == Restrict(document, DOMAIN document \ {"public_events"})
    IN /\ fromJson(document) = record
       /\ fromJson(old) = [record EXCEPT !.public_events = <<>>]
       /\ \A name \in DOMAIN ModelOf :
            LET model == ModelOf[name]
                sizes == <<Len(model.hidden1.w[1]), Len(model.hidden1.w), Len(model.hidden2.w),
                           Len(model.output.w)>>
            IN seekerModelFromBytes(seekerModelBytes(model), sizes) = model
=============================================================================
