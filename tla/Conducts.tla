------------------------------ MODULE Conducts -------------------------------
(***************************************************************************)
(* The characters of a dungeon that act of their own accord, among those   *)
(* that players move.                                                      *)
(*                                                                         *)
(* A player's action that succeeds sets off a cascade: the event it pushed *)
(* is shown to everybody on the floor of the actor's room, each of whom    *)
(* may change its mind and act at once, which pushes an event in turn, and *)
(* so on; when all has come to rest, every conduct gets a chance to act.   *)
(* An activation returns when what it set off is done, so that what is     *)
(* still to be done is a stack.  All of it is saved with the request that  *)
(* caused it, whatever became of the actions within; a player's own action *)
(* that fails leaves no trace.                                             *)
(***************************************************************************)
EXTENDS Wrappers

CONSTANT Dungeons     \* the dungeons a match may be set up with

VARIABLES
  dungeon,    \* the dungeon of the match, which stays as it is
  where,      \* where each character is
  cells,      \* who stands on which floor and door cell, as the controller has it
  bags,       \* what each character carries
  spent,      \* actions and moves each character has spent this turn
  ready,      \* whose computed traits say ACTION_READY
  isOpen,     \* are the doors that switches work open?
  conduct,    \* the state and the variables of each conduct
  stack       \* what the request at hand has still to do

vars == <<dungeon, where, cells, bags, spent, ready, isOpen, conduct, stack>>

Characters == DOMAIN dungeon.role
Builders == ToSet(dungeon.builders)
Conducted == {c \in Characters : dungeon.role[c] = "MONKEY"}

RoleTraits ==
  [ BUILDER |-> {"ACTOR", "KEYER", "PICKPOCKETABLE"},
    MONKEY |-> {"ACTOR", "HANDS", "PICKPOCKETER"},
    CADDY |-> {"OBJECT", "STASH"} ]

ItemTraits ==
  [ KEY |-> Loot, COIN |-> Loot, FOOD |-> Loot, KEY_ELEVATOR |-> {"ITEM_TRANSFERABLE"},
    CUBE_AWAKENED |-> {}, CUBE_DORMANT |-> {}, UNALLOCATED |-> {} ]

\* A slot beyond the range that a character's role was given.
Absent == [item |-> "UNALLOCATED", stacks |-> 0]

-----------------------------------------------------------------------------
(* Locations and the cells they take.                                      *)

Location(type, room, data) == [type |-> type, room |-> room, data |-> data]

Cell(kind, room, at) == [kind |-> kind, room |-> room, at |-> at]

Beside(r, d) == dungeon.adjacent[r][d]

CellsAt(l) ==
  CASE l.type = "FLOOR" -> {Cell("FLOOR", l.room, l.data)}
    [] l.type = "DOOR" -> {Cell("DOOR", l.room, l.data)}
    [] l.type = "DOOR_SHARED" -> {Cell("DOOR", l.room, l.data), Cell("DOOR", Beside(l.room, l.data), Flip(l.data))}

accessRoomIds(l) == {cell.room : cell \in CellsAt(l)}

\* (mutant) the cell that is left still names who left it.
applyNew(c, w, old, new) ==
  {o \in w.cells : o.cell \notin CellsAt(new)} \cup {[cell |-> k, who |-> c] : k \in CellsAt(new)}

\* Nobody is in the old cells any more, and the character in the new ones.
apply(c, w, old, new) ==
  {o \in w.cells : o.cell \notin CellsAt(old) \cup CellsAt(new)} \cup {[cell |-> k, who |-> c] : k \in CellsAt(new)}

updateCharacterLocation(c, l, w) ==
  [w EXCEPT !.where[c] = l, !.cells = apply(c, w, w.where[c], l)]

isOccupied(cell, w) == \E o \in w.cells : o.cell = cell

isWalkable(r, d) == <<r, d>> \in dungeon.doorways \/ (<<r, d>> \in dungeon.gates /\ isOpen)
isSharedDoorway(r, d) == <<r, d>> \in dungeon.doorways \cup dungeon.gates

\* Where a pathfinder gets to through a wall, if the doorway is free and open.
Beyond(r, d, w) ==
  IF isWalkable(r, d) /\ ~isOccupied(Cell("DOOR", r, d), w) THEN Beside(r, d) ELSE Unset

-----------------------------------------------------------------------------
(* What a request sees and changes.                                        *)

setupLocations == UNION {{[cell |-> k, who |-> c] : k \in CellsAt(where[c])} : c \in Characters}
actionReady == {c \in Characters : spent[c].actions < dungeon.allowed[c].actions}

World == [where |-> where, cells |-> cells, bags |-> bags, spent |-> spent, ready |-> ready,
          pushed |-> <<>>, failure |-> FALSE]

\* A controller is made for each request.
NewWorld == [World EXCEPT !.cells = setupLocations, !.ready = actionReady]

Scene(w) ==
  [ rooms |-> dungeon.rooms, role |-> dungeon.role, allowed |-> dungeon.allowed,
    traits |-> [c \in Characters |-> RoleTraits[dungeon.role[c]]
                                       \cup (IF c \in w.ready THEN {"ACTION_READY"} ELSE {})],
    carried |-> [c \in Characters |-> {w.bags[c][i].item : i \in Slots} \ {"NIL", "UNALLOCATED"}],
    itemTraits |-> ItemTraits, doorTraits |-> <<>>, lock |-> <<>>, lockTraits |-> <<>>, chests |-> <<>>,
    room |-> [c \in Characters |-> w.where[c].room],
    within |-> [c \in Characters |-> accessRoomIds(w.where[c])],
    builders |-> dungeon.builders, dwellers |-> dungeon.dwellers,
    adjacent |-> dungeon.adjacent,
    beyond |-> [r \in dungeon.rooms |-> [d \in Dirs |-> Beyond(r, d, w)]],
    taken |-> [r \in dungeon.rooms |-> {f \in dungeon.floors : isOccupied(Cell("FLOOR", r, f), w)}],
    floorsOf |-> [r \in dungeon.rooms |-> dungeon.floors] ]

\* An activation as an action puts it.
Context(c, target) ==
  [actor |-> c, target |-> OfCharacter(target), tool |-> Unset, direction |-> Unset,
   observer |-> Unset, room |-> where[c].room, player |-> Head(dungeon.builders), resolved |-> "NIL"]

-----------------------------------------------------------------------------
(* Actions.                                                                *)

\* Moving takes a move, but the traits are not looked at again.
takeMove(c, w) == IF w.spent[c].moves < dungeon.allowed[c].moves
                    THEN Succeeds([w EXCEPT !.spent[c].moves = @ + 1]) ELSE Fails(w)

ActivatorMoveToFloor(c, r, f, w) ==
  LET moved == takeMove(c, w)
  IN  IF isOccupied(Cell("FLOOR", r, f), w) THEN Fails(w)
      ELSE IF ~moved.ok THEN moved
      ELSE PushBehaviorTrigger("MOVE", Context(c, Unset),
                               updateCharacterLocation(c, Location("FLOOR", r, f), moved.world))

\* No event tells of this one.
ActivatorMoveToDoor(c, r, d, w) ==
  LET moved == takeMove(c, w)
      n == Beside(r, d)
      isShared == n # Unset /\ isSharedDoorway(n, Flip(d))
  IN  IF isOccupied(Cell("DOOR", r, d), w) \/ ~isWalkable(r, d) THEN Fails(w)
      ELSE IF ~moved.ok THEN moved
      ELSE Succeeds(updateCharacterLocation(c, IF isShared THEN Location("DOOR_SHARED", n, Flip(d))
                                                           ELSE Location("DOOR", r, d), moved.world))

Effect(e, x, w) ==
  CASE e = "TRANSFER" -> TransferItem(Party("TARGET", x), x.actor, x.resolved, w, Scene(w))
    [] e = "PUSH" -> PushBehaviorTrigger("PICKPOCKET", x, w)
    [] e = "DEPOSIT" -> Deposit(x, Scene(w), w)

\* (mutant) a theft costs the thief nothing.
FreePickpocket ==
  [Wrapper EXCEPT !.matches.actor.required = {"PICKPOCKETER", "HANDS"},
                  !.matches.target.required = {"PICKPOCKETABLE"},
                  !.deciders = <<[side |-> "TARGET", required |-> Loot, restricted |-> {}]>>,
                  !.onSuccess = <<"TRANSFER", "PUSH">>]

Pickpocket ==
  [Wrapper EXCEPT !.matches.actor.required = {"PICKPOCKETER", "HANDS"},
                  !.matches.target.required = {"PICKPOCKETABLE"},
                  !.deciders = <<[side |-> "TARGET", required |-> Loot, restricted |-> {}]>>,
                  !.costs.action = 1,
                  !.onSuccess = <<"TRANSFER", "PUSH">>]

DepositWrapper == [Wrapper EXCEPT !.onSuccess = <<"DEPOSIT">>]

Activate(c, a, w) ==
  CASE a.action = "MOVE_TO_FLOOR" -> ActivatorMoveToFloor(c, a.room, a.floor, w)
    [] a.action = "MOVE_TO_DOOR" ->
         IF a.direction = Unset THEN Fails(w) ELSE ActivatorMoveToDoor(c, a.room, a.direction, w)
    [] a.action = "PICKPOCKET" -> activate(Pickpocket, Context(c, a.target), Scene(w), w, Effect)
    [] a.action = "DEPOSIT" -> activate(DepositWrapper, Context(c, a.target), Scene(w), w, Effect)

-----------------------------------------------------------------------------
(* What is still to be done.                                               *)

\* Those on the floor of a room who have a conduct, in no particular order.
Onlookers(r, w) == {o.who : o \in {p \in w.cells : p.cell.kind = "FLOOR" /\ p.cell.room = r}} \cap Conducted

\* An activation that succeeded shows the event it pushed, if it pushed one.
Shown(w) ==
  [i \in DOMAIN w.pushed |-> [event |-> w.pushed[i].event, actor |-> w.pushed[i].actor,
                              target |-> w.pushed[i].target,
                              left |-> Onlookers(w.where[w.pushed[i].actor].room, w)]]

Tick == [event |-> "TICK", actor |-> Unset, target |-> Unset, left |-> Conducted]

\* What is done leaves the stack; an activation that has nobody left returns.
Settled(s) ==
  LET busy == {i \in DOMAIN s : s[i].left # {}}
  IN  IF busy = {} THEN <<>> ELSE SubSeq(s, 1, CHOOSE i \in busy : \A j \in busy : j <= i)

\* When the request is over, its controller goes.
Become(w, s) ==
  /\ where' = w.where /\ bags' = w.bags /\ spent' = w.spent
  /\ cells' = IF s = <<>> THEN {} ELSE w.cells
  /\ ready' = IF s = <<>> THEN {} ELSE w.ready
  /\ stack' = s

-----------------------------------------------------------------------------
(* Requests.                                                               *)

Orders(c) ==
       [action : {"MOVE_TO_FLOOR"}, room : dungeon.rooms, floor : dungeon.floors]
  \cup [action : {"MOVE_TO_DOOR"}, room : dungeon.rooms, direction : Dirs]
  \cup [action : {"PICKPOCKET", "DEPOSIT"}, target : Characters]

\* A player orders a character about; nothing ties the one to the other.
Request(c, a) ==
  /\ stack = <<>>
  /\ \E q \in {Activate(c, a, NewWorld)} :
       /\ q.ok
       /\ Become(q.world, Settled(<<Tick>> \o Shown(q.world)))
  /\ UNCHANGED <<dungeon, isOpen, conduct>>

\* A switch, which its user pays for and which tells nobody.
UseSwitch(c) ==
  /\ stack = <<>>
  /\ dungeon.switchRoom \in accessRoomIds(where[c])
  /\ \E q \in {takeCharacterAction(c, NewWorld, Scene(NewWorld))} :
       /\ q.ok
       /\ Become(q.world, Settled(<<Tick>>))
  /\ isOpen' = ~isOpen
  /\ UNCHANGED <<dungeon, conduct>>

\* (mutant) only the builders' turn begins anew.
FreshBuilders(w, cs) ==
  [w EXCEPT !.spent = [c \in Characters |-> IF c \in Builders THEN [actions |-> 0, moves |-> 0] ELSE @[c]]]

Fresh(w, cs) == [w EXCEPT !.spent = [c \in Characters |-> IF c \in cs THEN [actions |-> 0, moves |-> 0] ELSE @[c]]]

\* The end of a round, by which everybody's turn begins anew; who is ready to
\* act is not worked out again.
EndTurn ==
  /\ stack = <<>> /\ Conducted # {}
  /\ Become(Fresh(NewWorld, Characters), <<Tick>>)
  /\ UNCHANGED <<dungeon, isOpen, conduct>>

\* The end of the builders' turn as an action; the others have no new turn.
EndTurnAction ==
  /\ stack = <<>> /\ Conducted # {}
  /\ Become(Fresh(NewWorld, Builders), <<Tick>>)
  /\ UNCHANGED <<dungeon, isOpen, conduct>>

-----------------------------------------------------------------------------
(* One conduct's part in what is going on.                                 *)

Part(f, m) == IF m = f.actor THEN "ACTOR" ELSE IF m = f.target THEN "TARGET" ELSE "OBSERVER"

\* An onlooker's trigger looks at the actor; its proposal is its own.
TriggerContext(f, m) ==
  IF Part(f, m) = "OBSERVER"
    THEN [Context(f.actor, Unset) EXCEPT !.observer = m, !.room = where[m].room]
    ELSE Context(m, Unset)

ProposalContext(f, m) ==
  [Context(m, Unset) EXCEPT !.observer = IF f.event # "TICK" /\ Part(f, m) = "OBSERVER" THEN m ELSE Unset]

runBehaviorTrigger(f, m, t, s) == Activated(t, TriggerContext(f, m), s, conduct[m])

\* What becomes of a conduct, and the action it asks for in the end.
Considered(f, m, s) ==
  LET ts == Triggers(conduct[m].state, f.event, Part(f, m))
      x == ProposalContext(f, m)
  IN  IF f.event = "TICK" THEN buildAndExecuteProposals(x, s, conduct[m])
      ELSE IF ts = {} THEN Quiet(x, conduct[m])
      ELSE LET q == runBehaviorTrigger(f, m, CHOOSE t \in ts : TRUE, s)
           IN  buildAndExecuteProposals(IF Part(f, m) = "OBSERVER" THEN x ELSE [x EXCEPT !.direction = q.direction],
                                        s, q.conduct)

\* The action is tried; what it sets off comes before what the others do.
Step ==
  /\ stack # <<>>
  /\ \E m \in Last(stack).left :
       \E q \in {Considered(Last(stack), m, Scene(World))} :
       \E done \in {IF q.asks.action = "NIL" THEN Declines(World) ELSE Activate(m, q.asks, World)} :
         LET rest == [stack EXCEPT ![Len(stack)].left = @ \ {m}]
         IN  /\ conduct' = [conduct EXCEPT ![m] = q.conduct]
             /\ Become(done.world, Settled(rest \o IF done.ok THEN Shown(done.world) ELSE <<>>))
  /\ UNCHANGED <<dungeon, isOpen>>

-----------------------------------------------------------------------------

Init ==
  /\ dungeon \in Dungeons
  /\ where = dungeon.location
  /\ cells = {} /\ ready = {} /\ stack = <<>>
  /\ bags = dungeon.bags
  /\ spent = [c \in Characters |-> [actions |-> 0, moves |-> 0]]
  /\ isOpen \in BOOLEAN
  /\ conduct = [m \in Conducted |-> [state |-> "PICKPOCKET_INIT", vars |-> [v \in Vars |-> Unset]]]

Next ==
  \/ \E c \in dungeon.drivers : (\E a \in Orders(c) : Request(c, a)) \/ UseSwitch(c)
  \/ EndTurn
  \/ EndTurnAction
  \/ Step

Spec == Init /\ [][Next]_vars

\* A request is worked off once it was taken up: WF_vars(Step), as what can be
\* done while the stack is not empty is a Step, and one always can be.
Working == []<>(stack = <<>>) \/ []<><<stack # <<>>>>_vars
FairSpec == Spec /\ Working

-----------------------------------------------------------------------------
(* Properties.                                                             *)

TypeOK ==
  /\ dungeon \in Dungeons
  /\ \A c \in Characters :
       /\ where[c] \in [type : {"FLOOR", "DOOR", "DOOR_SHARED"}, room : dungeon.rooms, data : Dirs \cup dungeon.floors]
       /\ bags[c] \in [Slots -> Slot \cup {Absent}]
       /\ spent[c] \in [actions : 0 .. dungeon.allowed[c].actions, moves : 0 .. dungeon.allowed[c].moves]
  /\ ready \subseteq Characters
  /\ isOpen \in BOOLEAN
  /\ \A m \in Conducted : conduct[m].state \in States /\ DOMAIN conduct[m].vars = Vars
  /\ \A i \in DOMAIN stack : stack[i].left \subseteq Conducted /\ stack[i].event \in {"TICK", "MOVE", "PICKPOCKET", "DEPOSIT"}

\* The controller's maps of occupied cells, built once for a request and then
\* kept move by move through the whole cascade, say what the locations say, and
\* no two characters are in one cell.
FloorsAgree ==
  stack # <<>> => /\ cells = setupLocations
                  /\ \A o, p \in cells : o.cell = p.cell => o.who = p.who

\* What the controller keeps of the dungeon during a request, and what it changes
\* there, stays a dungeon (MatchController.cpp:851-879, 1178-1193).
WorldIsConsistent == TypeOK /\ FloorsAgree

\* A cascade runs no deeper than what its members can still spend: each of the
\* activations one is inside of was paid for with a move or an action of its
\* actor, so that the limit on the depth is never what ends one.
Begun(c, events) == Cardinality({i \in DOMAIN stack : stack[i].actor = c /\ stack[i].event \in events})
NestingIsPaidFor ==
  \A c \in Characters : /\ Begun(c, {"MOVE"}) <= spent[c].moves
                        /\ Begun(c, {"PICKPOCKET", "DEPOSIT"}) <= spent[c].actions

\* An action of a conduct that fails half way is saved all the same.  The only
\* thing that is ever lost that way is loot given to a stash that is full.
Carried == MapThenSumSet(LAMBDA c : Held(bags[c], "KEY") + Held(bags[c], "COIN") + Held(bags[c], "FOOD"), Characters)
Emptied(m) == Held(bags'[m], "KEY") + Held(bags'[m], "COIN") + Held(bags'[m], "FOOD") = 0
LootOnlyLostToAFullStash ==
  [][Carried' < Carried =>
       /\ Carried' = Carried - 1
       /\ \E m \in Conducted :
            /\ conduct'[m].state = "STASH_DEPOSITING" /\ Emptied(m)
            /\ ~Accepts(bags[conduct'[m].vars["CHARACTER_ID"]], bags[m][1].item)]_vars

\* What a thief is about fits what it holds and whom it has in mind, as long as
\* nobody gives it orders: it goes to the stash with something to leave there,
\* unless it has yet to notice that it did or a full stash swallowed it, and it
\* robs who can be robbed.
HasLoot(m) == \E i \in Slots : bags[m][i].item \in {"KEY", "COIN", "FOOD"}
Quarry(m) == conduct[m].vars["CHARACTER_ID"]
HandsFitTheErrand ==
  \A m \in Conducted \ dungeon.drivers :
    /\ conduct[m].state \in {"STASH_FINDING", "STASH_PATHING", "STASH_TRAVERSING"} => HasLoot(m)
    /\ conduct[m].state = "STASH_DEPOSITING" =>
         /\ Quarry(m) \in Characters /\ "STASH" \in RoleTraits[dungeon.role[Quarry(m)]]
         /\ HasLoot(m) \/ Begun(m, {"DEPOSIT"}) = 1 \/ \E item \in {"KEY", "COIN", "FOOD"} : ~Accepts(bags[Quarry(m)], item)
    /\ conduct[m].state = "PICKPOCKET_ATTEMPT" =>
         Quarry(m) \in Characters /\ "PICKPOCKETABLE" \in RoleTraits[dungeon.role[Quarry(m)]]

\* The doors a thief has in mind lead from every room that they are about to a
\* room with a stash.
Mapped(m, r) == {d \in Dirs : r \in conduct[m].vars[PathfindDoor[d + 1]]}
RoomAhead(m, r) == Beside(r, Min(Mapped(m, r)))
Follows(m, r) ==
  LET f[n \in Nat] == IF n = 0 THEN {r} ELSE f[n - 1] \cup {RoomAhead(m, q) : q \in {p \in f[n - 1] : Mapped(m, p) # {}}}
  IN  f[Cardinality(dungeon.rooms)]
PathsLeadToAStash ==
  \A m \in Conducted :
    conduct[m].state = "STASH_TRAVERSING" /\ conduct[m].vars["SEARCH_TARGETS"] # {} =>
      \A r \in dungeon.rooms : Mapped(m, r) # {} => Follows(m, r) \cap conduct[m].vars["SEARCH_TARGETS"] # {}

\* The errands of a thief make sense from its first step to its last: what it
\* remembers of hands, victims, doors and stashes stays true while it walks.
ErrandsMakeSense == HandsFitTheErrand /\ PathsLeadToAStash

\* A request is worked off, however its cascade turns out.
CascadeEnds == (stack # <<>>) ~> (stack = <<>>)

\* Loot reaches the stash: as long as turns keep ending, a thief on a mapped way
\* does not walk for ever.
Thieves == UNION {{c \in DOMAIN d.role : d.role[c] = "MONKEY" /\ c \notin d.drivers} : d \in Dungeons}
OnItsWay(m) ==
  /\ m \in Conducted \ dungeon.drivers /\ conduct[m].state = "STASH_TRAVERSING"
  /\ conduct[m].vars["SEARCH_TARGETS"] # {} /\ Mapped(m, where[m].room) # {}
LootIsDelivered ==
  []<><<EndTurn>>_vars => \A m \in Thieves : OnItsWay(m) ~> (m \in Conducted /\ conduct[m].state = "STASH_DEPOSITING")

\* Whatever is set in motion comes to its end: the cascade of a request, and the
\* way of a thief with its loot.
ThievesFinish == CascadeEnds /\ LootIsDelivered
=============================================================================
