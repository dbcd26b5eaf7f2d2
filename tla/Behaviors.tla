------------------------------ MODULE Behaviors ------------------------------
(***************************************************************************)
(* What a behaviour says and what it means: the conditions of a trigger,   *)
(* the effects of triggers and proposers, the filters both are made of, and*)
(* the table of behaviours itself.                                         *)
(*                                                                         *)
(* Everything here is a function of three things.  A scene s is what there *)
(* is to see: who is in the dungeon, where, with which traits, role, bag   *)
(* and lock.  A context x is the activation: its actor, target and tool,   *)
(* its direction, and the conduct's owner when that is somebody else.  A   *)
(* conduct k is a state of the behaviour and its variables.  A variable    *)
(* that was never written, or was cleared, holds -1, which reads as a set  *)
(* of rooms as all of them.                                                *)
(***************************************************************************)
EXTENDS Integers, Sequences, SequencesExt

CONSTANTS
  Unset,     \* -1, which stands for nobody, nowhere and no direction
  NoVar      \* CONDUCT_MEMORY_VARIABLE_COUNT: a slot of an effect left open

-----------------------------------------------------------------------------
(* Filters.  An empty list of roles, items, doors or locks asks nothing.   *)

Match == [required |-> {}, restricted |-> {}, roles |-> {}, items |-> {}, doors |-> {}, locks |-> {}]
Condition == [required |-> {}, restricted |-> {}]

Traited(m, traits) == m.required \subseteq traits /\ m.restricted \cap traits = {}
Listed(list, x) == list = {} \/ x \in list

matchesCharacter(m, traits, role) == Traited(m, traits) /\ Listed(m.roles, role)
matchesItem(m, traits, item) == Traited(m, traits) /\ Listed(m.items, item)
matchesDoor(m, traits, door) == Traited(m, traits) /\ Listed(m.doors, door)
passesCharacter(c, traits) == Traited(c, traits)

\* The filters of a scan, and of a condition on a character, over and above
\* traits and roles: what it carries and the lock of its chest.
Filter ==
  [ traitsRequired |-> {}, traitsRestricted |-> {}, rolesAccepted |-> {}, rolesRejected |-> {},
    itemAccepted |-> {}, itemRejected |-> {}, itemTraitsRequired |-> {}, itemTraitsRestricted |-> {},
    lockTraitsRequired |-> {}, lockTraitsRestricted |-> {}, locksAccepted |-> {}, locksRejected |-> {} ]

hasItemFilter(f) == f.itemAccepted \cup f.itemRejected # {} \/ f.itemTraitsRequired \cup f.itemTraitsRestricted # {}
hasLockFilter(f) == f.locksAccepted \cup f.locksRejected # {} \/ f.lockTraitsRequired \cup f.lockTraitsRestricted # {}

ItemFits(f, item, s) ==
  /\ Listed(f.itemAccepted, item) /\ item \notin f.itemRejected
  /\ f.itemTraitsRequired \subseteq s.itemTraits[item]
  /\ f.itemTraitsRestricted \cap s.itemTraits[item] = {}

LockFits(f, lock, s) ==
  /\ Listed(f.locksAccepted, lock) /\ lock \notin f.locksRejected
  /\ f.lockTraitsRequired \subseteq s.lockTraits[lock]
  /\ f.lockTraitsRestricted \cap s.lockTraits[lock] = {}

\* Who has no chest passes no lock filter; an item has to fit all at once.
Carries(f, c, s) == hasItemFilter(f) => \E item \in s.carried[c] : ItemFits(f, item, s)
Guards(f, c, s) == hasLockFilter(f) => c \in DOMAIN s.lock /\ LockFits(f, s.lock[c], s)

TraitsAndRoleFit(f, c, s) ==
  /\ f.traitsRequired \subseteq s.traits[c] /\ f.traitsRestricted \cap s.traits[c] = {}
  /\ Listed(f.rolesAccepted, s.role[c]) /\ s.role[c] \notin f.rolesRejected

checkCharacter(f, c, s) == TraitsAndRoleFit(f, c, s) /\ Carries(f, c, s) /\ Guards(f, c, s)

\* The lock of a chest has every trait that a match asks of it.
LockMatched(m, c, s) == m.locks # {} => c \in DOMAIN s.lock /\ m.locks \subseteq s.lockTraits[s.lock[c]]

-----------------------------------------------------------------------------
(* Conditions.                                                             *)

Rooms(v, s) == IF v = Unset THEN s.rooms ELSE v
isCharacterWithinRoom(c, r, s) == r \in s.within[c]
Owner(x) == IF x.observer = Unset THEN x.actor ELSE x.observer

\* A target is a character, else an item, else the door of a wall, else none.
TargetMatches(m, x, s) ==
  CASE x.target.kind = "CHARACTER" ->
         /\ matchesCharacter(m, s.traits[x.target.is], s.role[x.target.is])
         /\ LockMatched(m, x.target.is, s)
    [] x.target.kind = "ITEM" -> matchesItem(m, s.itemTraits[x.target.is], x.target.is)
    [] x.target.kind = "DOOR" -> matchesDoor(m, s.doorTraits[x.target.is], x.target.is)
    [] OTHER -> FALSE

ToolMatches(m, x, s) ==
  /\ x.tool # Unset
  /\ matchesItem(m.match, s.itemTraits[x.tool], x.tool)
  /\ passesCharacter(m.condition, s.itemTraits[x.tool])

\* Whom a condition on a character looks at; a tool is looked at itself.
Subject(source, x) ==
  CASE source = "ACTOR" -> x.actor
    [] source = "OBSERVER" -> Owner(x)
    [] source = "TARGET" -> IF x.target.kind = "CHARACTER" THEN x.target.is ELSE Unset

CharacterMatches(m, x, s) ==
  IF m.source = "TOOL"
    THEN x.tool # Unset /\ (hasItemFilter(m.filter) => ItemFits(m.filter, x.tool, s))
    ELSE Subject(m.source, x) # Unset /\ checkCharacter(m.filter, Subject(m.source, x), s)

\* Chests in the room whose container satisfies a match, in the dungeon's order.
ObjectsFound(m, x, s) ==
  SelectSeq(s.chests, LAMBDA c : /\ isCharacterWithinRoom(c, x.room, s)
                                 /\ LockMatched(m.match, c, s)
                                 /\ matchesCharacter(m.match, s.traits[c], s.role[c])
                                 /\ passesCharacter(m.condition, s.traits[c]))

evaluateMatch(m, x, s, k) ==
  CASE m.is = "Actor" -> /\ matchesCharacter(m.match, s.traits[x.actor], s.role[x.actor])
                         /\ passesCharacter(m.condition, s.traits[x.actor])
    [] m.is = "Observer" -> /\ matchesCharacter(m.match, s.traits[Owner(x)], s.role[Owner(x)])
                            /\ passesCharacter(m.condition, s.traits[Owner(x)])
    [] m.is = "Tool" -> ToolMatches(m, x, s)
    [] m.is = "Target" -> TargetMatches(m.match, x, s)
    [] m.is = "Character" -> CharacterMatches(m, x, s)
    [] m.is = "ScanObject" -> ObjectsFound(m, x, s) # <<>>
    [] m.is = "ReachedTargetRoom" -> k.vars[m.var] \in {Unset, s.room[x.actor]}
    [] m.is \in {"CharacterVisible", "ObjectVisible"} ->
         k.vars[m.var] # Unset /\ isCharacterWithinRoom(k.vars[m.var], x.room, s)
    [] m.is = "CharacterLost" ->
         k.vars[m.var] # Unset => ~isCharacterWithinRoom(k.vars[m.var], x.room, s)
    [] m.is = "CharacterId" ->
         k.vars[m.var] # Unset /\ k.vars[m.var] = Subject(m.source, x)

\* What the conditions leave behind for the effects: the last one found.
ScannedCharacter(matches, x) ==
  LET ms == SelectSeq(matches, LAMBDA m : m.is = "Character" /\ m.source # "TOOL")
  IN  IF ms = <<>> THEN Unset ELSE Subject(Last(ms).source, x)
ScannedObject(matches, x, s) ==
  LET ms == SelectSeq(matches, LAMBDA m : m.is = "ScanObject")
  IN  IF ms = <<>> THEN Unset ELSE Head(ObjectsFound(Last(ms), x, s))
-----------------------------------------------------------------------------
(* Finding the way.  A pathfinder starts at floor 0 of every origin, in    *)
(* their order, and tries the walls north, east, south and west of each    *)
(* room it reaches; s.beyond says where it comes out.  The first crossing  *)
(* into a room is recorded, twice: towards the origins and against them.   *)

Dirs == 0 .. 3
Flip(d) == (d + 2) % 4

Cross(q, r, d, s) ==
  LET next == s.beyond[r][d]
  IN  IF next = Unset \/ next \in q.seen THEN q
      ELSE [ frontier |-> Append(q.frontier, next), seen |-> q.seen \cup {next},
             towards |-> [q.towards EXCEPT ![d] = @ \cup {r}],
             against |-> [q.against EXCEPT ![Flip(d)] = @ \cup {next}] ]

Explore(q, s) ==
  IF q.frontier = <<>> THEN q
  ELSE FoldLeft(LAMBDA p, d : Cross(p, Head(q.frontier), d, s),
                [q EXCEPT !.frontier = Tail(@)], <<0, 1, 2, 3>>)

\* No room is entered twice, so that as many turns as there are rooms do.
floodFillRoomBits(origins, s) ==
  FoldLeft(LAMBDA q, r : Explore(q, s),
           [ frontier |-> SetToSortSeq(origins, <), seen |-> origins,
             towards |-> [d \in Dirs |-> {}], against |-> [d \in Dirs |-> {}] ],
           SetToSeq(s.rooms))

-----------------------------------------------------------------------------
(* Effects.                                                                *)

Written(v, value, k) == IF v = NoVar THEN k ELSE [k EXCEPT !.vars[v] = value]
WrittenAll(writes, k) == FoldLeft(LAMBDA p, w : Written(w[1], w[2], p), k, writes)

\* What a proposer's effects find scanned, and a trigger without conditions.
NothingScanned == [character |-> Unset, object |-> Unset]

\* Effects that need no more than what was scanned.  No room ever is.
Assign(e, found, x, s, k) ==
  CASE e.is = "SetBehavior" -> [k EXCEPT !.state = e.state]
    [] e.is = "SetVar" -> Written(e.var, found.character, k)
    [] e.is = "SetVarFromObj" -> Written(e.var, found.object, k)
    [] e.is \in {"SetVarFromRoom", "ClearVar"} -> Written(e.var, Unset, k)
    [] e.is = "SetVarFromContext" ->
         IF x.target.kind = "CHARACTER" THEN Written(e.var, x.target.is, k) ELSE k
    [] e.is = "SetVarFromSelfRoom" -> Written(e.var, s.room[x.actor], k)
    [] e.is = "SetVarFromDirection" -> Written(e.var, x.direction, k)

\* The first character in the actor's room that fits, builders before the rest.
RoomScanned(e, x, s) ==
  SelectSeq(s.builders \o s.dwellers,
            LAMBDA c : /\ c # x.actor
                       /\ isCharacterWithinRoom(c, s.room[x.actor], s)
                       /\ matchesCharacter(e.match, s.traits[c], s.role[c])
                       /\ passesCharacter(e.condition, s.traits[c])
                       /\ LockMatched(e.match, c, s))

applyInnerEffects(effects, c, x, s, k) ==
  FoldLeft(LAMBDA p, e : Assign(e, [character |-> c, object |-> c], x, s, p), k, effects)

\* A character counts for the lowest room that it stands in.
ScannedRoom(c, s) == CHOOSE r \in s.within[c] : \A q \in s.within[c] : r <= q

InScope(e, c, x, s, k) ==
  /\ e.onlyObserver => c = x.actor
  /\ e.ignoreSelf => c # x.actor
  /\ s.within[c] # {}
  /\ e.ignoreInRoom => ScannedRoom(c, s) # s.room[x.actor]
  /\ e.ignoreOutsideRoom => ScannedRoom(c, s) = s.room[x.actor]
  /\ e.roomsIgnoredVar # NoVar => ScannedRoom(c, s) \notin Rooms(k.vars[e.roomsIgnoredVar], s)
  /\ e.roomsScannedVar # NoVar => ScannedRoom(c, s) \in Rooms(k.vars[e.roomsScannedVar], s)

\* The scope a scan has, and the slots it writes, unless it says otherwise.
Scan ==
  [ is |-> "ScanCharacters", scanBuilders |-> TRUE, scanDungeon |-> TRUE, onlyObserver |-> FALSE,
    ignoreSelf |-> TRUE, ignoreInRoom |-> FALSE, ignoreOutsideRoom |-> FALSE,
    roomsIgnoredVar |-> NoVar, roomsScannedVar |-> NoVar, filter |-> Filter,
    firstMatchedCharId |-> NoVar, firstMatchedRoomId |-> NoVar, firstMatchedRole |-> NoVar,
    firstRejectedCharId |-> NoVar, firstRejectedRoomId |-> NoVar, firstRejectedRole |-> NoVar,
    matchedRoomBitsVar |-> NoVar, unmatchedRoomBitsVar |-> NoVar,
    rejectedRoomBitsVar |-> NoVar, unrejectedRoomBitsVar |-> NoVar ]

\* Whom a scan sees, split into those that pass its filter and the others.
Visited(e, x, s, k) ==
  SelectSeq((IF e.scanBuilders THEN s.builders ELSE <<>>) \o (IF e.scanDungeon THEN s.dwellers ELSE <<>>),
            LAMBDA c : InScope(e, c, x, s, k))
Matched(e, x, s, k) == SelectSeq(Visited(e, x, s, k), LAMBDA c : checkCharacter(e.filter, c, s))
Rejected(e, x, s, k) == SelectSeq(Visited(e, x, s, k), LAMBDA c : ~checkCharacter(e.filter, c, s))
RoomsSeen(cs, s) == {ScannedRoom(c, s) : c \in ToSet(cs)}

First(cs, f(_), none) == IF cs = <<>> THEN none ELSE f(Head(cs))

applyScanCharacters(e, x, s, k) ==
  LET matched == Matched(e, x, s, k)
      rejected == Rejected(e, x, s, k)
      scanned == RoomsSeen(Visited(e, x, s, k), s)
      Id(c) == c  Room(c) == ScannedRoom(c, s)  Role(c) == s.role[c]
  IN  WrittenAll(<< <<e.firstMatchedCharId, First(matched, Id, Unset)>>,
                    <<e.firstMatchedRoomId, First(matched, Room, Unset)>>,
                    <<e.firstMatchedRole, First(matched, Role, "EMPTY")>>,
                    <<e.firstRejectedCharId, First(rejected, Id, Unset)>>,
                    <<e.firstRejectedRoomId, First(rejected, Room, Unset)>>,
                    <<e.firstRejectedRole, First(rejected, Role, "EMPTY")>>,
                    <<e.matchedRoomBitsVar, RoomsSeen(matched, s)>>,
                    <<e.unmatchedRoomBitsVar, scanned \ RoomsSeen(matched, s)>>,
                    <<e.rejectedRoomBitsVar, RoomsSeen(rejected, s)>>,
                    <<e.unrejectedRoomBitsVar, scanned \ RoomsSeen(rejected, s)>> >>, k)

\* A fill from a room when there is one, else from a set of rooms that is not
\* empty.  A variable that is unset is no room, and every room of a set.
FloodPath == [is |-> "ComputeFloodPath", startRoomVar |-> NoVar, startBitsVar |-> NoVar,
              towards |-> [d \in Dirs |-> NoVar], against |-> [d \in Dirs |-> NoVar]]

Origins(e, s, k) ==
  IF e.startRoomVar # NoVar /\ k.vars[e.startRoomVar] # Unset THEN {k.vars[e.startRoomVar]}
  ELSE IF e.startBitsVar # NoVar THEN Rooms(k.vars[e.startBitsVar], s) ELSE {}

ComputeFloodPath(e, s, k) ==
  LET origins == Origins(e, s, k)
      flood == floodFillRoomBits(origins, s)
  IN  IF origins = {} THEN k
      ELSE WrittenAll([i \in 1 .. 4 |-> <<e.towards[i - 1], flood.towards[i - 1]>>]
                      \o [i \in 1 .. 4 |-> <<e.against[i - 1], flood.against[i - 1]>>], k)

\* The actions that an effect asks for.
NoAction == [action |-> "NIL"]

\* The first of the four directions whose rooms include the actor's, when there
\* is a room behind that wall; its first free floor, whatever the door.
TraverseDoor(e, x, s, k) ==
  LET here == s.room[x.actor]
      ways == {d \in Dirs : e.doors[d] # NoVar /\ here \in Rooms(k.vars[e.doors[d]], s)}
      way == CHOOSE d \in ways : \A b \in ways : d <= b
      next == s.adjacent[here][way]
      free == s.floorsOf[next] \ s.taken[next]
  IN  IF ways = {} \/ next = Unset \/ free = {} THEN NoAction
      ELSE [action |-> "MOVE_TO_FLOOR", room |-> next, floor |-> CHOOSE f \in free : \A g \in free : f <= g]

ExecuteAction(e, x, s, k) ==
  [ action |-> e.action, room |-> s.room[x.actor], direction |-> x.direction,
    target |-> IF e.targetVar = NoVar THEN Unset ELSE k.vars[e.targetVar] ]

-----------------------------------------------------------------------------
(* Running a list of effects: what becomes of the conduct, which direction *)
(* the context points in, whether an effect failed, and the action that is *)
(* asked for.  In the table of behaviours that is the last effect.         *)

Quiet(x, k) == [conduct |-> k, direction |-> x.direction, failed |-> FALSE, asks |-> NoAction]

applyEffect(q, e, found, x0, s) ==
  LET x == [x0 EXCEPT !.direction = q.direction]
      k == q.conduct
  IN  CASE e.is = "ScanRoomForCharacter" ->
             IF RoomScanned(e, x, s) = <<>> THEN [q EXCEPT !.failed = TRUE]
             ELSE [q EXCEPT !.conduct = applyInnerEffects(e.onFound, Head(RoomScanned(e, x, s)), x, s, k)]
        [] e.is = "ScanCharacters" -> [q EXCEPT !.conduct = applyScanCharacters(e, x, s, k),
                                                !.failed = @ \/ Matched(e, x, s, k) = <<>>]
        [] e.is = "ComputeFloodPath" -> [q EXCEPT !.conduct = ComputeFloodPath(e, s, k)]
        [] e.is = "SetDirectionFromVar" ->
             IF k.vars[e.var] \in Dirs THEN [q EXCEPT !.direction = k.vars[e.var]] ELSE q
        [] e.is = "TraverseDoor" -> [q EXCEPT !.asks = TraverseDoor(e, x, s, k)]
        [] e.is = "ExecuteAction" -> [q EXCEPT !.asks = ExecuteAction(e, x, s, k)]
        [] OTHER -> [q EXCEPT !.conduct = Assign(e, found, x, s, k)]

Applied(effects, found, x, s, q) == FoldLeft(LAMBDA p, e : applyEffect(p, e, found, x, s), q, effects)

Trigger == [matches |-> <<>>, effects |-> <<>>, failureEffects |-> <<>>]

\* A trigger whose conditions all hold; the others have no effect.
Activated(t, x, s, k) ==
  LET found == [character |-> ScannedCharacter(t.matches, x), object |-> ScannedObject(t.matches, x, s)]
      q == Applied(t.effects, found, x, s, Quiet(x, k))
  IN  IF \E i \in DOMAIN t.matches : ~evaluateMatch(t.matches[i], x, s, k) THEN Quiet(x, k)
      ELSE IF q.failed THEN Applied(t.failureEffects, found, x, s, q) ELSE q

\* A proposer's effects find nothing scanned.
Proposed(effects, x, s, k) == Applied(effects, NothingScanned, x, s, Quiet(x, k))

-----------------------------------------------------------------------------
(* The table of behaviours: what a thief does in each state when it acts,  *)
(* is acted upon or looks on, and what it does of its own accord.          *)

NoBehavior == "NIL"

SetBehavior(state) == [is |-> "SetBehavior", state |-> state]
SetVar(v) == [is |-> "SetVar", var |-> v]
ClearVar(v) == [is |-> "ClearVar", var |-> v]
\* The four variables of a door map, north, east, south and west.
PathfindDoor == <<"PATHFIND_NORTH", "PATHFIND_EAST", "PATHFIND_SOUTH", "PATHFIND_WEST">>
ReturnDoor == <<"RETURN_NORTH", "RETURN_EAST", "RETURN_SOUTH", "RETURN_WEST">>
DoorMap(way) == [d \in Dirs |-> way[d + 1]]
Execute(action, v) == [is |-> "ExecuteAction", action |-> action, targetVar |-> v]
Traverse(way) == [is |-> "TraverseDoor", doors |-> DoorMap(way)]

\* The variables that the table uses; bits of rooms but for the first three.
Vars == {"CHARACTER_ID", "ROOM_ID", "DIRECTION", "SEARCH_TARGETS"}
          \cup ToSet(PathfindDoor) \cup ToSet(ReturnDoor)

Spotted(match, states) ==
  [is |-> "ScanRoomForCharacter", match |-> match, condition |-> Condition,
   onFound |-> <<SetVar("CHARACTER_ID")>> \o states]

ScanForStash ==
  [Scan EXCEPT !.scanBuilders = FALSE, !.filter.traitsRequired = {"STASH"}, !.matchedRoomBitsVar = "SEARCH_TARGETS"]

IsTracked(source) == [is |-> "CharacterId", var |-> "CHARACTER_ID", source |-> source]
GiveUp ==
  [Trigger EXCEPT !.matches = <<IsTracked("TARGET")>>,
                  !.effects = <<ClearVar("CHARACTER_ID"), SetBehavior("PICKPOCKET_SEARCHING")>>]

-----------------------------------------------------------------------------
(* Triggers, by state, event and the owner's part in it.                   *)

\* (mutant) the thief goes for the stash without a look at where one is.
ForgetfulTriggers(state, event, part) ==
  CASE <<state, event, part>> = <<"PICKPOCKET_SEARCHING", "MOVE", "OBSERVER">> ->
         {[Trigger EXCEPT !.effects = <<SetBehavior("PICKPOCKET_ATTEMPT")>>]}
    [] <<state, event, part>> = <<"PICKPOCKET_ATTEMPT", "PICKPOCKET", "ACTOR">> ->
         {[Trigger EXCEPT !.effects = <<ClearVar("CHARACTER_ID"), SetBehavior("STASH_TRAVERSING")>>]}
    [] OTHER -> {}

Triggers(state, event, part) ==
  CASE <<state, event, part>> = <<"PICKPOCKET_SEARCHING", "MOVE", "ACTOR">> ->
         {[Trigger EXCEPT !.effects =
             <<Spotted([Match EXCEPT !.required = {"PICKPOCKETABLE"}, !.restricted = {"ACTION_READY"}],
                       <<SetBehavior("PICKPOCKET_TRACKING")>>)>>]}
    [] <<state, event, part>> = <<"PICKPOCKET_SEARCHING", "MOVE", "OBSERVER">> ->
         {[Trigger EXCEPT !.matches = <<[is |-> "Character", source |-> "ACTOR",
                                         filter |-> [Filter EXCEPT !.traitsRequired = {"PICKPOCKETABLE"}]]>>,
                          !.effects = <<SetVar("CHARACTER_ID"), SetBehavior("PICKPOCKET_ATTEMPT")>>]}
    [] <<state, event, part>> = <<"PICKPOCKET_TRACKING", "MOVE", "OBSERVER">> ->
         {[Trigger EXCEPT !.matches = <<IsTracked("ACTOR")>>,
                          !.effects = <<[is |-> "SetVarFromDirection", var |-> "DIRECTION"]>>]}
    [] <<state, event, part>> = <<"PICKPOCKET_TRACKING", "MOVE", "ACTOR">> ->
         {[Trigger EXCEPT !.matches = <<[is |-> "CharacterVisible", var |-> "CHARACTER_ID"]>>,
                          !.effects = <<SetBehavior("PICKPOCKET_ATTEMPT")>>]}
    [] <<event, part>> = <<"DEATH", "OBSERVER">> /\ state \in {"PICKPOCKET_TRACKING", "PICKPOCKET_ATTEMPT"} ->
         {GiveUp}
    [] <<state, event, part>> = <<"PICKPOCKET_ATTEMPT", "PICKPOCKET", "ACTOR">> ->
         {[Trigger EXCEPT !.effects = <<ClearVar("CHARACTER_ID"), ScanForStash, SetBehavior("STASH_FINDING")>>]}
    [] <<state, event, part>> = <<"STASH_TRAVERSING", "MOVE", "ACTOR">> ->
         {[Trigger EXCEPT !.effects =
             <<Spotted([Match EXCEPT !.required = {"STASH"}], <<SetBehavior("STASH_DEPOSITING")>>)>>]}
    [] <<state, event, part>> = <<"STASH_DEPOSITING", "DEPOSIT", "ACTOR">> ->
         {[Trigger EXCEPT !.effects = <<SetBehavior("PICKPOCKET_RETURN_TO_START")>>]}
    [] <<state, event, part>> = <<"PICKPOCKET_RETURN_TO_START", "MOVE", "ACTOR">> ->
         {[Trigger EXCEPT !.matches = <<[is |-> "ReachedTargetRoom", var |-> "ROOM_ID"]>>,
                          !.effects = <<SetBehavior("PICKPOCKET_SEARCHING")>>]}
    [] OTHER -> {}

-----------------------------------------------------------------------------
(* Proposers, one for a state at most, all of the same priority.           *)

HasProposer(state) == state \notin {NoBehavior, "PICKPOCKET_SEARCHING"}

ProposerEffects ==
  [ PICKPOCKET_INIT |->
      << [is |-> "SetVarFromSelfRoom", var |-> "ROOM_ID"],
         [FloodPath EXCEPT !.startRoomVar = "ROOM_ID", !.against = DoorMap(ReturnDoor)],
         SetBehavior("PICKPOCKET_SEARCHING") >>,
    PICKPOCKET_TRACKING |->
      <<[is |-> "SetDirectionFromVar", var |-> "DIRECTION"], Execute("MOVE_TO_DOOR", NoVar)>>,
    PICKPOCKET_ATTEMPT |-> <<Execute("PICKPOCKET", "CHARACTER_ID")>>,
    STASH_FINDING |-> <<ScanForStash, SetBehavior("STASH_PATHING")>>,
    STASH_PATHING |->
      << [FloodPath EXCEPT !.startBitsVar = "SEARCH_TARGETS", !.against = DoorMap(PathfindDoor)],
         SetBehavior("STASH_TRAVERSING") >>,
    STASH_TRAVERSING |-> <<Traverse(PathfindDoor)>>,
    STASH_DEPOSITING |-> <<Execute("DEPOSIT", "CHARACTER_ID")>>,
    PICKPOCKET_RETURN_TO_START |-> <<Traverse(ReturnDoor)>> ]

States == DOMAIN ProposerEffects \cup {"PICKPOCKET_SEARCHING"}

\* A character has one conduct and so at most one proposer, which always wins.
buildAndExecuteProposals(x, s, k) ==
  IF HasProposer(k.state) THEN Proposed(ProposerEffects[k.state], x, s, k) ELSE Quiet(x, k)
=============================================================================
