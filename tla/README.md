# Specifications of the ASCII game backend

TLA+ modules for the core of the backend in `src/`, the TLC configurations that
check them on small instances, and theorems about them checked by TLAPS.  The
repository holds two games behind one server: a **dungeon** game (a titan against
builders, with characters that move through rooms and doors) and a **hider-seeker**
game (hiders queue moves, a learned seeker hunts them).  All paths below are
relative to the repository; the C++ lives in `src/src/`.

Contents: [inventory](#inventory) · [modules](#modules-and-their-code) ·
[runs](#runs) · [fairness](#fairness) · [proofs](#proofs) ·
[findings](#disagreements-found) · [not modelled](#not-modelled) · [plan](#plan)

## Inventory

### Hider-seeker game

| Component | State it keeps | Operations | Talks to |
|---|---|---|---|
| turn engine `hider_seeker/turn` | the `MatchState` it is handed: revision, pending ring, `next_submit_seq` | `playMove`, `queueMove`, `passTicks`, `cancelPendingMove`; a loop of up to 16 ticks | runs the tick; called by the match service under the match's mutex |
| tick `hider_seeker/tick` | action points | `runTick`: regeneration, intents in receipt order, the seeker, the match end | ruleset, seeker turn |
| ruleset `hider_seeker/ruleset` | servers and their metrics, hiders' connections, pool, goals, tokens | actions, ADD/REMOVE_SERVER, CONNECT/DISCONNECT, drift, metric frames, wagers, `checkMatchEnd` | called by the tick and, between ticks, by the turn engine |
| seeker turn `hider_seeker/seeker/seeker_turn.cpp` | open connections, tokens | wager, close and open phases | asks a policy for its choices |
| seeker policies `hider_seeker/seeker` | the policy chosen at start; beliefs, probes and histories are in the match | build an observation, score servers by the baseline or a model's forward pass | called by the seeker turn |
| model store `seeker/model_store.cpp` | per version a directory with weights and manifest; the file ACTIVE | write a version, activate it (the tool); check and load the active one (the server, once) | the tool and the server meet on the disk only |
| match service `hider_seeker/api` | one stored `MatchRecord` per match, a mutex per match | create, join, start, move, cancel, get, view, replay | turn engine, file stores, view snapshots, the NPC policy |
| view snapshots `api/view_snapshots.cpp` | one stored view per (match, audience, revision), written once | publish, write if absent | audience views |
| hider NPC policy `hider_seeker/hider` | none | what goals cost and which can be paid, choose a move from a view | called in NPC rounds |
| audience views `hider_seeker/projection` | none | what each audience may see of the state | snapshots |
| serialization `hider_seeker/domain`, `api/match_record` | none | state to bytes, record to JSON, and back | the match record |

*Hard here:* a client request may slip between an NPC's read and its move; a client
repeats a request whose first copy is still being served; the process dies between
saving a record, publishing its views and answering; moves are applied both inside and
between ticks, and only ticks look at the match end; queued moves compete for
the same points as the move that advances time; the ring and the ownership list
beside it must lose the same moves; the NPC and the rules each have their own
reading of what can be done and paid, while metrics drift away under both; rings and
bytes wrap and slots are reused under what the seeker remembers; views and
observations pick fields one by one from a state full of secrets; the tool writes
a model as three files while servers start.
*Correct means:* nothing refers to a removed server, queued moves wait only
while they must, connections and tokens are only ever destroyed by probes, the
winner is justified; every accepted request counts exactly once and is in the log;
a stored view shows a committed revision; every request is answered; NPCs choose
what the rules accept and reach the goals they can; nobody sees what is not theirs; the
seeker's memory is the match's past; a restart brings back the same match and no mixture
of two models.

### Dungeon game

| Component | State it keeps | Operations | Talks to |
|---|---|---|---|
| seats and turns `model/Match`, `Turner`, `Titan`, `Builder`, `Character` | accounts in seats, turn state and number, move budgets | join, leave, start, advance turn, take a move | the API, the match controller |
| dungeon API `controllers/ApiController` | none between requests: load, change, save | create, join, leave, start, end turn, perform a character's action, reads | match repository, match controller |
| match controller `controllers/MatchController` | per request: who stands where (floors, doors), chests and conducts by character | `activate`, `endTurn`, `tickNpcConducts`, move character, update lock, allocate | everything of the dungeon |
| activators and rules `activator`, `enum` tables | none | check conditions (targets, items, keys, traits), then apply effects | match controller |
| doors, locks and rooms `door`, `room` | a location per character (floor, door, shared door, shaft, …), a lock per door | move, open, close, toggle, enter, elevators, ladders, time gates | trait modifiers, inventory |
| behaviours and conducts `behavior`, `event` | a conduct (state machine with 16 variables) per NPC | react to ticks and to others' actions: scan, compute a path, change state, act | calls back into `activate`, recursively |
| chests and inventory `chest`, `inventory` | items in per-owner ranges, critters as items, a lock per chest | loot, lock, open, transfer | activators |
| damage, traits, roles `damage`, `traits`, `role` | damage, afflictions and computed traits per character | attack, parry, bite, heal; modify traits to a fixpoint | activators |
| fields `field` | oxygen and foot traffic per room | recompute | room views, breathing |
| generators `generator`, `procgen`, `remodel`, `layout` | none after creation | build a dungeon from atoms and a seed | match creation |
| pathfinding `algorithm`, `remodel/Pathfinder` | a copy of the match | A* | NPC conducts, API |
| document store `store`, `controllers/MatchRepository` | one file per match, an LRU cache of 100 | load, save with a version check | API, accounts |
| animation and event log, views, data containers, math, accounts, server, logging | what clients are shown; containers; plumbing | | |

*Hard here:* seats change by four requests while the turner is told of them through
calls that may fail in its present state and whose result nobody reads; turn ends
come from either side, twice, forced before an action, or as an action; NPC ticks
run in the same request; the stored file is rewritten in place behind a cache; one lock
changes doors in two rooms, or all doors of a family, each by its own traits; a
doorway is one place with two names; an elevator has no state but its doors; an NPC's
action is an event to other NPCs, who act at once, on the same stack, over maps built
for the request, and what fails half way within is saved; a parried blow is answered by
another attack; looting changes two inventories and then looks for an action left.
*Correct means:* the turner names the sides that are there, turns alternate and keep
their numbering, budgets are spent once and refilled with the turn, the store
returns what it acknowledged; the two sides of a wall agree, no door shuts on
anybody, keys and cubes are neither lost nor multiplied, an elevator is where its
open door is; a cascade ends, is paid for and leaves a consistent dungeon, thieves
bring their loot where they said; items in chests, bags and locks add up, critters
bite whoever loots their chest, duels come to a blow.

How the two games relate: they share `FileStore`, the logging and the server
library; they share no match.  `HiderSeekerService` is complete and tested, but
`main.cpp` does not route requests to it (only its tests and
`HiderSeekerApiController` use it), so its threads are those of whoever embeds it:
the code takes a mutex per match and is modelled for several threads.

## Modules and their code

| Module | Stands for |
|---|---|
| `TurnEngine` | `turn_engine.cpp`, `tick.cpp`, the ruleset, `seeker_turn.cpp`: one active hider-seeker match |
| `ConnectionContest` | abstract: two budgets that only strikes reduce, and when the match is over |
| `TurnEngineProofs` | theorems about `TurnEngine` |
| `MatchService` | `HiderSeekerService.cpp`, `view_snapshots.cpp`: threads, requests, crashes, one match |
| `RequestLedger` | abstract: each request takes effect at most once and always gets the same answer |
| `MatchServiceProofs` | theorems about `MatchService` |
| `DocumentStore` | `FileStore`, `MatchRepository`, `LRUMap`: files, versions, the cache, crashes |
| `MatchTurns` | `Match` seats, `Turner`, `MatchController::endTurn`, the API's requests, move budgets |
| `TurnOrder` | abstract: lobby, alternating or solo turns, over |
| `MatchTurnsProofs` | theorems about `MatchTurns` |
| `Inventory` | `inventory/Inventory.cpp`: slots and stacks |
| `Doors` | `Door.enum` and the lock rules of `Rule.enum`, as tables of traits |
| `Doorways` | `Location`, the move, door, lock, switch and sacrament activators, time gates and rods, the controller's occupancy maps |
| `KeyLedger` | abstract: a key is in a bag or in one lock |
| `DoorwaysProofs` | theorems about `Doorways`, and the lemmas about `Inventory` they need |
| `Elevator` | `ActivatorElevator`, `setupElevatorLevel`, and riding in an elevator's doorway |
| `Lift` | abstract: a place among paid levels |
| `ElevatorProofs` | theorems about `Elevator` |
| `Behaviors` | `Trigger*.hpp`, `TriggerWrapper.cpp`, `Behavior.enum`: what a conduct looks for, proposes and does, and the table of behaviours |
| `Wrappers` | the activators NPCs use: move to a floor, pickpocket, deposit, transfer an item |
| `Conducts` | `Conduct.cpp`, `MatchController::activate`, `drainEventQueue`, `tickNpcConducts`: cascades, with `Behaviors`, `Wrappers` |
| `Traits`, `Combat` | `TraitModifier.cpp` and the trait tables; `damage/`, armor, parries, bites |
| `Chests` | `chest/`: looting, locks, critters, with `Inventory`, `Traits`, `Combat` |
| `Ruleset` | `ruleset/` with its numbers: costs, effects, drift, regeneration |
| `HiderPolicy` | `hider/hider_policy.cpp` |
| `AudienceViews` | `projection/audience_views.cpp` |
| `NpcPlay` | a match with people and NPCs, tick by tick, over the three above; the lists of a response |
| `NpcPlayProofs` | theorems about `NpcPlay`, and the lemmas about `Ruleset`, `HiderPolicy` and `AudienceViews` they need |
| `SeekerSenses` | `feature_extract.cpp`, `baseline_policy.cpp`, `model_policy.cpp`, `seeker_turn.cpp` with scores |
| `Records` | `serialization.cpp`, `seeker_model.cpp`, `match_record.cpp`: writing and reading |
| `SeekerPlay` | a match against a real policy, over `Ruleset` and `SeekerSenses` |
| `SeekerPlayProofs` | theorems about `SeekerPlay`, and the lemmas about `Ruleset` and `SeekerSenses` they need |
| `ModelStore` | `model_store.cpp`, `seeker_model_init`, `SeekerPolicyProvider` |
| `Deployment` | composes `DocumentStore` and `ModelStore`: one server, its restarts, and tools |
| `DeploymentProofs` | theorems about `DocumentStore` and `Deployment` |
| `MC...` | values of the constants for TLC, one per checked module |

### TurnEngine

A call of the engine is a run of steps; `step` says where it is.  Calls that
advance no tick (`applyNow`, `queueMoveLater`, `cancelPendingMove`, every
rejection) are single actions.  A call that advances starts with `StartAdvance` and
goes through `BeginTick` (regeneration, candidates = ring + trigger), `Dispatch`
(one intent), `BeginSeeker`, `Probe` (one wager), `MoveConnections` (close and open
phase), `checkMatchEnd` and `Settle` (ring compaction, and whether the loop goes
on).  The state between steps is visible to invariants, but no other call runs in
between: the service holds the match's mutex.

The rules are translated as outcome functions (`InvalidTarget`, `Unaffordable`,
`NoRoom`, in the order the code tests them) and effects (`applyConnect`, ...).  The
seeker's policy is any choice: every wager, close set and open set it can make
within its limits.  Server metrics are abstracted to "which metric goals could be
met", chosen at each PAY_GOAL; `Ruleset` has them.  A move's identity is its `submit_seq`; that the
service numbers moves freshly is a property of `MatchService` (`RecordAgrees`).

The refinement `PlaysContest` maps the hiders' budget to
`pool + Cardinality(Connected)` and the seeker's to
`tokens + Cardinality(mask)`: whatever is connected, disconnected, removed or
relocated, only a probe lowers either, and never the seeker's last.

### MatchService

`pc[w]` is where thread `w` is in a request: `guard` (about to take the mutex in
`runGuarded`), `publish` (record saved, writing snapshots with the mutex held), `npcs`
and `round` (the NPC round, which takes the mutex anew for each NPC's view and each
NPC's move), `reply`.  Loading, checking, changing and saving happen in one step
because the mutex covers them; publishing is one step per audience because a crash
may fall between two files.  `Crash` resets all threads and the mutex and keeps `disk`
and `snaps`.  The turn engine appears through its contract: rejected calls
change nothing, others give a new revision, a ring from which advancing may have
removed anything and perhaps one new move.

`KeepsLedger` refines `RequestLedger`: the log and the idempotency entries of the
record are its `done`; a repeated request is an `Answer` step, never a second `Do`.
A save is atomic here; `DocumentStore` says when that is so.

### DocumentStore

Files are documents with a version, `Torn`, or absent.  A save reads the version,
opens the file (which truncates it) and writes; a crash, a write error that nobody looks at or a
dump that throws may fall in between.  The cache drops its entry when a save has succeeded and keeps it when one
fails (after a failing dump, in front of a torn file); loads fill it.  One handler at a time,
as in the server.  `MatchesAreKept` says what this leaves of the design's atomic persistence.

### MatchTurns

One action per request that changes the match: `Join`, `Leave`, `Start`, `EndTurn`,
`Perform` (with a forced turn end first, or not, and an NPC tick after).  A
request is atomic: drogon runs with one thread, handlers are synchronous, and a
failed request is not saved.  What `Turner` does on add and remove calls
are the transition tables `addBuilder` … `removeTitan`; states without an entry
are the code's `CODE_INVALID_TURN_STATE`, which the callers drop.  An account may join again and sit in
several seats, as the program allows; `SoloStatesMatchSeats` and `OthersAreSeen` say what the
turner overlooks then.  Where
characters stand and whether an action's conditions hold is a free choice; a
failed action is simply no step.

### Doorways

State: the dungeon the match was set up with (rooms, how they are joined, roles and first
places; it never changes), the door on each wall, each character's location, the bags, what each character
has spent of its actions and moves, who has `PIETY`, the phase of the coloured
doors and the colour each switch shows.  A request of the code names player, character
and room independently and nothing ties them together (only `ActivatorUseCharacter`
looks whether the two stand in the room), so the actions choose them freely.  A failed
request is not saved: an action is an activation that succeeds as a whole, its guard
everything that is tested on the way.  The maps `doorsToCharacters` and
`floorsToCharacters` are rebuilt from the locations for each request and kept up to date by
`updateCharacterLocation`; the model derives them (`DoorCells`, `isDoorOccupied`).  Only
`CHANNEL_CORPOREAL` is ever given to a character, so there is one channel.  NPCs activate
through the same functions and are the same actions.

The rules (`Doors!Rules`) are records: traits that make a rule match a door, traits
asked of the actor, the key taken or given, and the change of traits applied by
`setSharedDoorsByTrait` to both sides of the wall and, for covenants, first to every door
of the family.  `findByTraits` finds the door with the resulting traits.  `TheRule` is
the first that matches, as in `RuleFlyweight::tryActivate`, which stops there whether
the rule's conditions hold or not.

A dungeon is what the setup code can build, which `DungeonAssumption` states: a grid in which
every way has a way back (`IsGrid`: `LayoutGrid` and `iLayout::setupAdjacencyPointers` link both
rooms), and doorways, shafts and time gates put up in pairs (`IsFurnished`:
`DungeonMutator::setSharedDoor`, `setSharedShaftAbove` and the functions around them write both ends).
Elevators re-point `adjacent` while the match runs and have a module of their own.

The refinement `KeepsALedgerOfKeys` maps the keys in the bags and the walls that show
`KEYED`: a lock takes a key from one player and shows it on both sides, or the other
way round, and no other step touches a key.

### Elevator

The car's link to a level, the doors of the levels and the buttons are the doors and
`adjacent` fields of the walls.  `Pay` and `MoveCar` are the two branches of
`ActivatorElevator::activate`, each with the calls of `setupElevatorLevel` it makes; what the
code reads before it changes anything (key status above, below and beyond) is read in
the unprimed state.  Column rooms join the car on its south wall, as
`setupElevatorColumn(int, ...)` builds them; the car's east and west walls never
change and are left out, and so is which floor cell somebody stands on.
`RunsALift` maps paid levels to the doors that are `isKeyed`.

### Conducts

A player's request that succeeds activates an action, drains the events it pushed and
ticks every conduct; then the match is saved.  `stack` holds what the request has still
to do: each entry is an event and the conducts that have yet to see it.  `Step` takes the
next conduct, evaluates its behaviour's triggers and lets the proposals
compete (both in `Behaviors`), applies the winner's effects in order, and, if one of them is an
action, activates it (`Wrappers`), which pushes an entry.  `cells` is the controller's own
map of occupied cells, built once for the request and maintained move by move; `FloorsAgree` compares
it with the locations.  A variable is a set of rooms or a character, and what the code
reads from an unset variable (-1, every bit set) is what the model reads.  The queue's limits of
200 and 400 events cannot be met with these budgets and are left out; the limit on the depth is what
`NestingIsPaidFor` is about.  `MOVE_TO_DOOR` pushes no event, and a nested `activate` resets the
queue's pointer without loss, as it does here.  A player and its character share one
inventory range (GeneratorAtom.cpp:127).  Floors per room are scaled from 32.

### Chests, Combat and Traits

`Traits!computeCharacterTraits` applies the modifiers in the table's order until nothing
changes.  `Combat!Attack` calls itself with the roles swapped when the target parries, as the
code does.  In `Chests` requests come in any order from a *scene* that says what chests
hold, how they are locked and what the builders are afflicted with; several kinds of damage
and afflictions reach a match only through scenes and `Blows`, as the
tests of the repository reach them (`CombatTests.cpp`).  `addCritter` numbers the first slot with a critter,
as the code does, so that of several critters only the last is known.  A chest as the target of an attack, the check
that a chest is in the request's room and the pose struck after looting are left out; without the
last two the model allows more than the code.

### NpcPlay, HiderPolicy, AudienceViews, Ruleset

`Ruleset` is what `TurnEngine` abstracts: metrics, costs, effects, drift.  `NpcPlay` plays
a match with it: people queue and cancel moves and pass ticks, a seeker may wager, and after each call every
NPC reads its view and queues a move.  The policy reads a *view*, a record built by
`AudienceViews`, never the state, as in the code; `PolicyKnowsTheRules` compares the two
readings of the same requirements, `ViewsAreBlind` changes what a view must not show
and asks that the view stay equal.  `report` is what the service puts in its answer
(`ReportAddsUp`).

### SeekerPlay, SeekerSenses, Records

Against the baseline and two small models the seeker's features, scores and choices
are computed with the code's integer arithmetic (Q8 features, saturating sums).
`QuietTicks` lets a match begin just before the tick's byte wraps.  `log`, `acted` and
`wagered` record what happened; `MemoryIsTrue` compares the ring, the beliefs and the probe bytes with
them.  `Records` writes and reads the record of every state of `SeekerPlay` field by field and a
model's weights byte by byte; fields the play never moves get values that no other field has, so that a field read in
another's place shows.  Array sizes are scaled (`RecordHistory` 3 of 16, ...).

### ModelStore and Deployment

The tool checks that its version does not exist, creates the directory, and writes weights, manifest and
ACTIVE, each by an open that truncates and a write; it may die in between, and a
write may be cut short (the code looks at no stream).  Two runs on one version interleave
freely; a third is on a version of its own and rewrites the same ACTIVE.  A server chooses its policy when it starts.  `Deployment` runs documents and models in
one server whose restarts clear the cache and choose the policy anew.

## Runs

| Run | Instance | Checks |
|---|---|---|
| `turn_engine` | 2 hiders, 3 servers, ring of 2 with quota 1, calls of up to 3 ticks, 4 revisions; fair; 289,358 states | references, ring and event room, end of the match, waiting moves, advance limit, refinement of the contest, calls return |
| `match_service` | 2 threads, 2 people, 1 NPC, 4 requests; 1,457,731 states | replayable log and move ownership, ledger of requests |
| `match_faults` | 2 threads, 1 person, 1 NPC, 3 requests, 1 fault; fair; 282,012 states | snapshots show committed revisions, ledger across crashes, every request is answered |
| `stores` | 2 matches, cache of 1, 3 saves, 1 fault, 3 runs of the tool on 2 versions, 1 upset; 2,209,633 states | loads return the acknowledged document and work on the file's version unless it is torn, a fault costs one match; models are one run's, and the active one can be loaded but while ACTIVE is rewritten |
| `match_turns` | 3 accounts, 3 builder seats, several per account, 1 NPC, 6 turns; 37,105 states | the turner follows the seats but for an account's further ones and abandoned turns stand, budgets, refinement of the order of turns |
| `doorways` | three dungeons (below); 191,980 states | doors of a wall, family or phase agree; nobody in a barred doorway, one character per cell; refinement of the ledger of keys, cubes are not lost |
| `elevator` | 5 levels, 3 characters, 2 players with 2 keys each; 26,040 states | one open level, buttons, doorway, paid row; refinement of the lift |
| `conducts` | three dungeons: a stash behind a switched door, two thieves and a stash for one item, no stash; fair; 190,489 states | occupancy maps, nesting, errands, loot, cascades end and loot arrives |
| `npc_play` | 1 person, 1 NPC, 3 servers, ring of 3, 2 interferences; fair; 229,702 states | the policy and the rules agree, blind views, complete reports, an NPC left alone pays what it can |
| `seeker_play` | 2 hiders, 2 servers, 3 policies, 4 moves, 5 ticks from tick 0 and from 252; 19,380 states | memory, what the baseline wagers on, blindness, the stored form |
| `chests` | 2 builders, a chest with cat and snake and one with a snake, 3 scenes, 2 turns; 28,304 states | items add up, looters are bitten by the critter put in last and no other, duels are decided, traits settle |
| `turn_engine_finding` | the instance of `turn_engine` | refuted: a match at rest that is still active is undecided |

Some properties are conjunctions of named parts; the parts are stated and commented
where they are defined and can be checked alone.

**Bounds.**  The program's constants are MAX_HIDERS 8, MAX_SERVERS 16, ring 16, quota
4 per hider, 16 ticks per advance, 2 action points per tick up to 10, one LOA, 3
connections per hider, 12 seeker tokens, 80 public events, 3 builder seats, a cache of 200.
The instances keep their proportions: one action costs the whole cap and
one a part of it as in `HiderAction.enum`, a tick regenerates a part of it, the ring holds more
than one hider's quota, an advance is as long as the cap needs, a server can run
out, the pool can run out, tokens can run out if something leaks.  The room for
events is bounded by budgets: a move that waits for LOA waits because its hider has none, and LOA never
regenerates, so that in a call only probes add events, each of which costs one side a connection or a token and never the
last one; with the real constants that is at most 24 + 12 - 1 = 35 of 80 events.  The instance has
`EventCap` 2, one less than the theorem asks for: that two events are enough there is TLC's result.  Two threads show every
interleaving of a request with the unguarded gaps of another's NPC round; a third
would only repeat one of them.  Four requests cover join, start, move, and a
repeat, a reuse or a cancel.  A cache of one with two matches evicts; one fault
falls between any two steps of a save, and two runs on one version and one on another meet in a directory and in
ACTIVE; three builder seats, as in the code, show the first, the last and a remaining builder and one account in two of
them; six turns cover two rounds with
a solo round ended twice in one request.  `Doorways` is checked on three
dungeons, one of which a match is set up with: *locks* (a keeper, sharer, shifter and latch
on a ring of four rooms and a jailer's cell, two characters of two players, three keys),
*phases* (two covenant walls, a blue and an orange wall, two switches, a sacrament, a
hero and a ghoul) and *shafts* (a pole, a ladder, a time gate, a lightning rod, an exit).  Each
kind of door is there once, so that every rule meets every other one's effects; bags with
one free slot and key stacks of two (9 slots of up to 9 in the code) fill up and run out; to keep
the space small one of the two characters of *locks* only acts and one of *shafts* only moves.  Five
levels with the car starting in the middle show an end of the column, its neighbour and
a level with two unpaid ones beyond it on both sides.  A stash two rooms off makes a way with a
turn on it; two thieves make each one's theft the other's event; a stash for one item fills up.
`npc_play` and `seeker_play` use the code's own costs, effects, caps, drift and thresholds; two
servers beyond the hiders' leave room to add one, five ticks are more than
the noise of an action lasts, and tick 252 lets the byte wrap.  Two turns of `chests` let spent
actions come back; two critters in one chest and one in the other are an overwritten number and a kept one.  `MaxRevision`, `MaxRequests`, `MaxFaults`, `MaxSaves`, `MaxUpsets`, `MaxTurn`,
`MaxTurns`, `MaxTicks`, `MaxMoves`, `MaxMeddling` and `MaxDamage` are the bounds that exist only in the
models; where a run stops because they are used up it says CHECK_DEADLOCK FALSE.

Every property has a mutant of the code that breaks it (`PROJECT.json`,
"mutants"); the mutated operators stand before the ones they replace, marked "(mutant)".

## Fairness

* `TurnEngine!FairSpec`: weak fairness of the steps of a call in progress.  The
  engine is straight-line code with bounded loops on one thread.  No client
  is assumed ever to call.
* `MatchService!FairSpec`: weak fairness of each thread's next step.  A step that
  waits for the mutex is enabled when the mutex is free; in the checked
  instances no thread can be overtaken for ever because the requests are bounded,
  as they are while a client waits for its answer.  Crashes and failures are not
  fair.
* `Conducts!FairSpec`: a request that was taken up is worked off (`Working`, weak fairness of
  `Step`): `activate` and the ticks are one call chain on the server's one thread.  No player is
  assumed to ask for anything; `LootIsDelivered` is about matches in which turns keep ending.
* `NpcPlay!FairSpec`: calls run to their end and, as the code never advances time by itself, somebody
  goes on passing ticks (`Patience`).  The second half is an assumption about people, not about
  the code: in a match that everybody leaves nothing happens.  `CheapGoalsGetPaid` is about
  a match in which, from some time on, people do nothing else.

## Proofs

All theorems hold for every value of the constants under the modules' ASSUMEs.

**`TurnEngineProofs`.**

* `TypeCorrect`: `TypeOK`.  The point is the unsigned counters: `ap`, `loa`, `pool`,
  `tokens` never pass below zero.  It needs cardinality bounds on what a wager takes
  (`WagerBound`) and on closing and opening connections (`ConnectionsBound`).
* `NothingDangles`: `NoDanglingServer`, inductive given `TypeOK`.
* `SeekerKeepsAConnection`: `SeekerNeverExhausted`.  Not inductive alone: a
  probe spends tokens only from a server that is in `mask`, and `mask` is changed only
  by the phase after the probes; closing gives tokens back.
* `QueuedMovesAreUnaffordable`: strengthened with what is true inside a tick: candidates
  already tried and not accepted or refused are unaffordable with the points left, those
  still in `todo` are yet to be tried, and points only rise in `BeginTick`, which puts the
  whole ring back into `todo`.
* `RingStaysBounded`: `RingBounded`, strengthened with the order of
  `submit_seq` against `nextSeq` for ring and trigger.
* `EndStaysJustified`: `EndIsJustified`.  The strengthening `EndInv` says that a completed
  match is in the settling step of a call or at rest, that a match going on at those points
  has a hider connected or a connection in the pool, and that one that a tick has just left going on has not
  met its target.  That a match at rest has not is what `turn_engine_finding` refutes.  The core is `MovesKeepHiders`: no move, in or between
  ticks, takes the last connection, because a removed server passes its occupants on.  The seeker's
  side follows from `SeekerKeepsAConnection`.
* `EnginePlaysContest`: `Spec => PlaysContest`, the refinement of `ConnectionContest`.  A move
  keeps both sides' budgets (`MovesKeepBudgets`: connections go to and from the pool, a removed server's
  token comes back), so do closing and opening (`ReconnectsKeepBudgets`); a probe is a `Strike`
  (`ProbesTake`; its server is in `mask`, which is why the last token is safe); only `checkMatchEnd`
  ends the match (`EndSteps`).  `ContestInv` bounds the budgets by those of the start.
* `BuffersAlwaysSuffice`: `BuffersSuffice`, if `PoolPerHider * HiderCount + SeekerTokens <= EventCap + 1`
  (36 and 81 in the program).  `CandidatesInv`: no candidate of a tick can pay a LOA, so moves add no event
  inside a call; `EventsInv`: what was told and what both sides have left stay below the budgets of the
  start; the seeker's last connection is the one event to spare.
* `LimitMeansOutspent`: `AdvanceLimitOnlyWhenOutspent`.  A call that plays a move was given its ticks by
  `becomesAffordable`; `TriggerInv` says that until an earlier move of the same hider takes its
  points, those and the regeneration of the ticks left reach the fee, and that a tick that let the move
  wait found it short.

**`MatchServiceProofs`.**  For any threads, people, NPCs, requests and faults.

* `RecordAgreesAlways` and `SnapshotsCommittedAlways`: `RecordAgrees`, `SnapshotsCommitted`.  They are
  inductive only with the control state around them: `IInv` is `RecordConsistent` (the log,
  the answers and the move owners fit the record), `LockHeld` (the mutex is that of the one thread that
  publishes), `Serving` (an NPC's move inside a person's request keeps the person's), `AnswersStored` (what a
  thread will say or is publishing is in the stored record) and `SnapshotsTrue`.  `ResultIsNext`
  is the contract of every kind of request with the record it makes; `CommitConsistent` carries it through
  the save, `NextInv` has one lemma per step of a thread.
* `LedgerKept`: `Spec => KeepsLedger`, across crashes and failed saves.  A commit is a `Do` of a
  request that was not done (`CommitIsDone`: the idempotency entries are looked at under the same mutex),
  a replay is an `Answer`, no other step writes the record (`OnlyCommitWrites`).

**`DoorwaysProofs`.**  For any dungeon the setup can build (`DungeonAssumption`) and any size of the bags.

* `TakeFacts`, `GiveFacts`: taking or giving an item changes its number by one and no other item's, whatever
  slots and stacks it is spread over.
* `DoorsAlwaysAgree`: `DoorsAgree`.  The table of doors and rules is read once: `RulesAreRules`
  says of each rule what the proofs use of it, `KindsAreClasses` that a rule, a switch or a cube turns a door into one
  of its own kind (`SameKind`).  `DoorInv` adds that every wall keeps its first door's kind
  (`DoorsStay`), which gives both sides of a shared wall the same rule.
* `DoorwaysStaySafe`: `DoorwaysAreSafe`.  `StandInv` adds that who is in a shared doorway is on both of its
  sides; that is why the test of one side is enough before a lock bars both.
* `DoorwaysInvariant`: the inductive invariant, these two and the bounds of what is spent and carried (`CountsInv`).
* `NothingIsEverLost`: `Spec => NothingIsLost`.  Keys: each request is a step of
  `KeyLedger` or a stutter (`StepIsLedgers`); the key that shows on a lock's two sides shows on no other wall (`OneLock`), and an exchange of
  cubes or a rod leaves the keys alone.  Cubes: the slots that hold one and the walls that show one are
  counted together (`CubesCounted`).

**`SeekerPlayProofs`.**  For any policies and models, hiders, servers and histories, with the code's own drift,
caps and thresholds.

* `SeekerPlayTypes`: the type invariant (`IsState`): metrics stay in 0..100, heads and probe bytes are
  bytes, beliefs at most eight, hiders are on servers that are there.  One lemma per part of a tick (`RestedFacts`,
  `DriftedFacts`, `WagersFacts`, `ClosingFacts`) and per kind of move.
* `MemoryIsAlwaysTrue`: `MemoryIsTrue`.  `RingInv`: the ring of an active server read back from its
  head is the log, and that of another slot is blank, because a slot is only taken again after
  `resetServerSlot`; `PushedRing` is the arithmetic of the head, a byte that is never reduced to the ring's size and
  wraps at a multiple of it.  `WagerInv`: the belief is what the last wager destroyed, the byte is the low one of
  its tick, so that `Since` recovers the age below 256.
* `OnlyActsAlwaysMakeNoise`: `OnlyActsMakeNoise`, which is about matches against the baseline only: it wagers on
  a server if somebody acted on it in the last two ticks.  `NoiseInv` (`Steady`): a metric nobody acted on since
  the last frame is that frame's, and lost at most one point in the tick before; then the
  baseline's score is at most 15 (`QuietScore`), its threshold 20.
* `SeekerIsAlwaysBlind`: `SeekerIsBlind`, from `SameObservation`: the observation is made of what two states
  share in their shown parts.  It needs no invariant but the types.

Wagers are made one after the other, each on what the earlier left.  What such a recursion over data computes is
an induction the provers cannot be given as a whole; `RunExists` and `WagersFacts` do it by a least
counterexample, for a recursive function whose step has a name.

**`NpcPlayProofs`.**  For any hiders and NPCs, servers, rings, quotas and passes, with the code's own goals, costs and
effects; of the constants it needs that `createMatch` finds a server for each hider (`NpcAssumption`; at most eight
hiders and sixteen servers in the code) and that 255 names none.

* `NpcPlayTypes`: the inductive invariant `Inv`.  `IsState`: points stay in 0..10 and metrics in 0..100, hiders are on
  servers that are there, moves in the ring have ids of their own.  `Sums`, after a call and in
  its ticks: what was pending before is pending, applied or cancelled, and one of these only.
* `EveryMoveIsAccountedFor`: `ReportAddsUp`.  It is not inductive alone: a tick adds to the lists the ids it takes
  off the ring, and that these are new to both lists needs that ids are unique and were all pending before.
  `Dispatched` is what a tick's pending moves have in common after each of them, shown by a
  least counterexample; `WithoutFacts` says what compacting a ring keeps, from `OrderFacts`: a finite
  set of slots taken in order meets each once.
* `NpcsPlayByTheRules`: `PolicyKnowsTheRules`, in every state of the right types, reachable or not.
  `SameRequirement` and `SamePayable` set the two readings of a requirement side by side: the view shows
  every active server and no other (`ShownServers`), and of a goal what the state holds
  (`ShownGoals`).  `ChoiceIsLegal` goes through the choices: a payment, and a step towards the cheapest
  goal, which exists (`CheapestExists`, costs are natural numbers) and is unmet and within reach
  (`CheapestIsWithinReach`), so that its server is there or there is room for another.
* `ViewsAreAlwaysBlind`: `ViewsAreBlind`, from what two states must share to be shown alike
  (`HiderShownAlike`, `PublicShownAlike`).  It too needs no more than the types.

**`MatchTurnsProofs`.**

* `TypeCorrect`: `TypeOK`, including that no budget passes its capacity.
* `SeatsAndTurnerAgree`: `[]SoloStatesMatchSeats`, with no assumption about who joins how often.  In the states
  named after the titan alone the builder seats hold one account at most: `removeBuilder` recognises the
  remaining builders by their accounts.
* `AbandonedTurnWaits`, `MovesComeBackOnlyWithTheTurn`: action properties.  The second
  goes through `Kept`, a transitive relation "turn and state as before and no builder
  refilled, or a later turn", carried through each stage of a request (forced turn
  end, action, NPC tick).
* `TurnerKeepsToTheSeats`: `TurnerFollowsTheSeats`, these two and `OthersAreSeen`: a builder's leaving changes the
  turner only when nobody but the leaver still sits there (`OthersSeen`).
* `TurnOrderKept`: `Spec => KeepsTurnOrder`; initial states map to initial states,
  each request to a step or a stutter of `TurnOrder`.

**`ElevatorProofs`.**

* `Invariant`: the five invariants of `Elevator` are inductive together and not one by
  one: the doorway's need the doors (who may step in), the buttons need the doors
  (what lies behind the level reached), the row of paid levels needs that the car is at a paid
  one.  One lemma per action.
* `CarIsAtTheOpenLevel`, `ButtonsAreRight`, `ShaftStaysEmpty`, `LevelsAreBoughtInARow`,
  `TypeCorrect` and `ShaftStaysSafe`, their conjunction, follow for any number of levels, characters, players and keys.
* `ElevatorImplementsLift`: `Spec => RunsALift`; a press is a step of `Lift` and everything
  else a stutter.

**`DeploymentProofs`.**

* `MatchesStayKept`: `MatchesAreKept`, for any matches, size of the cache and faults.  `StoreInv`: a
  match has one node in the list (`OneNodeEach`, without which removing one would leave a stale
  one), a node shows what is stored but for the match being written (`CacheTrue`), a file that can be
  read is no older than the last acknowledged save (`FilesYoung`), and what the handler holds is what
  it read or wrote (`HeldTrue`).  `LossInv` counts: the matches that are lost, or will be when the running save is acknowledged
  (`Doomed`; a file that is still being written is not given up), are no more than the faults so far.  `RemoveAtFacts`, `WithoutFacts` and `CacheFacts` say what the list
  operations of the LRU map keep.
* `ModelStaysTrusted`: `DeploymentSpec => []ModelIsTrusted`, for any runs of the tool on any
  versions, under `NameAssumption` (the values a file may have instead are no run and no version).
  The invariant has two parts.  `FilesInv`: a manifest that parses is that of a run on this
  version, and weights are a run's, cut or mixed; with the checksum (`IsLoadable`) this
  gives the first half.  `ProgressInv`, while runs are undisturbed: what each run has made of
  its version at each of its steps (`Made`), that a directory has a run, and that
  ACTIVE names the version of a finished run, or a run is rewriting it, once one has activated.  `UndisturbedBefore` keeps other runs off the version of the one
  that steps.
* `DeployedMatchesAreKept`: `DeploymentSpec => []MatchesAreKept`, by composition: for the store, runs of
  the tool are stutters and a restart is a `Crash`.

**Only model-checked:** liveness (`CallReturns`, `RequestAnswered`, `ThievesFinish`,
`CheapGoalsGetPaid`), which with ENABLED is outside what the prover does; the safety properties of
`Conducts` and `Chests`; and `RestoredAsSaved`.  `Traits`, `Combat` and `Records`, and so
`Chests`, use recursive operators, with which the prover loses its SMT backend.  `Conducts` is built on
folds, selections and sorts of sequences, about which the library has no usable theorem: each would
have to become a recursive function with an induction by hand, as an NPC match's dispatch and the seeker's wagers did.
Every other safety property of a run has a theorem.

## Disagreements found

* `turn_engine_finding` refutes `UndecidedWhileActive`.  `applyNow` (turn_engine.cpp:109-116) does not look at the end
  conditions, which only a tick does: a PAY_GOAL that reaches the reward target leaves the match ACTIVE,
  and REMOVE_SERVER can cancel the goal again before a tick.  The design
  (`hider-seeker-complete-design.md:214`) resolves end conditions at once.  What the code keeps, `turn_engine`
  checks (`OnlyVictoryWaits`).

Five more are part of what a passing run states; the property says what the code does instead.

* `stores`, `MatchesAreKept`: `FileStore::save` truncates, then writes, and never looks at the stream.  A
  crash, a full disk or a failing dump leaves an unreadable file, and later saves are refused; after a failing dump
  the match is still served from the cache (MatchRepository.cpp:23).  The design
  (`hider-seeker-complete-design.md:681`) persists "atomically".
* `stores`, `ModelIsTrusted`: ACTIVE is truncated before it is rewritten (model_store.cpp:82-88); a
  server that starts then plays the baseline, against "Keep atomic rollback" (design, line 552).
* `match_turns`, `TurnerFollowsTheSeats`: nothing keeps an account from joining twice; when it leaves one of two
  builder seats, `Turner::removeBuilder` counts the other as empty and ends the game, against its comment
  (Turner.cpp:67).
* `doorways`, `DoorsAgree`: taking the key out of a shifter's egress clears `KEYED` on both sides
  (ActivatorSetSharedDoorsByTrait.cpp:29-49); the comment at Rule.enum:172 says the ingress
  becomes keyed, that at Rule.enum:173 what the code does.
* `chests`, `LootersAreBitten`: with two critters in one chest the second's number overwrites the first's
  (MatchController.cpp:185-188) and the first never bites, though each slot is to keep its critter's number
  (Item.enum:10).  No generator of dungeons puts two in one chest; the lists they are allocated from allow it.

Noted while reading, without a run.  *Hider-seeker:*

* `SeekerLost` in `checkMatchEnd` can never be true (`SeekerNeverExhausted`); a queued ADD_SERVER or
  REMOVE_SERVER of a hider without LOA stays in the ring until cancelled, because LOA never
  regenerates; "MatchState stores no pending intents" in `loa_rules.hpp` predates the ring.
* `goalCost` ignores drift: a lone NPC calls the network goal feasible (hider_policy.hpp:8), and
  boosts and pays in vain for ever.  A PAY_GOAL that comes too late costs its 10 points.  The
  DISCONNECT branch of `nextMove` cannot be reached with the seeded goals.
* `loadMatchState`'s check of the length misses the last four bytes (pool, mask, winner), against
  the comment at serialization.cpp:353-356; a record keeps no policy id (design, sections 8 and
  10), so a restart may change the policy in the middle of a match.
* `writeSeekerModel` ignores write errors and returns true; a half-written version can never
  be rewritten.
* The comment at audience_views.cpp:13-18 is out of date.

*Dungeon:*

* In a game of both sides a leaving side does not end the game.
* `advanceTurnState` reports a completed titan turn whenever the titan asks; NPCs get a
  fresh turn each time (MatchController.hpp:93-95).
* A jailer cannot be locked again.  Covenant and coloured doors shut on
  whoever stands in them.  A time gate does not look at the cell it leads to.
  `ArchitectState.hpp:8` plans with blue doors open, `Dungeon.hpp:43` starts with them shut.  A call
  button on a level does nothing (ActivatorElevator.cpp:170).  A character that left the
  dungeon is said to be in room 0.
* A failure that a forced turn end leaves in the codeset (ApiController.cpp:737-746)
  makes rules stop without a word (ActivatorWrapper.cpp:341, against Rule.enum:3-5).
* Thieves walk through doors whatever their state (Conduct.cpp:230 against TriggerEffect.hpp:207); a failed
  theft never leads back to TRACKING (Behavior.enum:66-67), which no conduct enters by itself; the two
  comments at TriggerEffect.hpp:173-179 are swapped.  A thief that steals in the stash's own room stays in
  STASH_TRAVERSING; one without a stash on its floors reads its path from variables that are
  -1, that is, every room.  What is given to a full stash is lost, and the thief tries for ever.
* An attack costs nothing, and a parry's answer uses the parrying side's item.  Requests for
  chests look neither at the chest's room nor at whose character it is.  A lock without
  an activator "succeeds" and does nothing (CODE_NOOP is true).
  HUMAN's and MINISH's size modifiers change nothing.

## Not modelled

* The seeker's simulation, calibration and training tools: not part of the server.
* Dungeon generators, allocation and pathfinding: large searches over data, run on copies or once
  before the match; they only choose initial states.  `ComputePath` of conducts, which no behaviour uses.
* Fields: numeric relaxation for views and one trait.
* The positions of the pending ring around its head (turn_engine.cpp:325 ff.): the ring is the set of its moves,
  in the order of submission.
* The poses that end a request, which can fail it after everything else is done
  (ActivationAddTargetKeyframe.cpp:37-41, 80): for a person's request nothing is saved then, for an NPC's what was done is.
* Views, animation, event log, logging, accounts, server wiring, math: no game state.
* The parts of the dungeon listed under the plan.

## Plan

Done, in this order: `TurnEngine` with `ConnectionContest` (the hider-seeker core),
`MatchService` with `RequestLedger`, `DocumentStore`, `MatchTurns` with `TurnOrder`,
`Doorways` with `KeyLedger`, `Elevator` with `Lift`, `Conducts`, `Ruleset` with `NpcPlay`,
`ModelStore` with `Deployment`, `SeekerPlay` with `Records`, `Chests` with `Combat`.

1. Proofs: `NothingGoesMissing` and `LootersAreBitten` of `Chests`, once the recursion of `Traits` and `Combat` is
   written as recursive functions and items are counted by sets of units, as `DoorwaysProofs` does, instead of
   sums; of `Conducts`, what its control needs no sequences for (`NestingIsPaidFor`).
2. `Allocation`: slots, inventories and conducts taken one after the other, and what a
   failure half way leaves.
3. The codeset of a request across a forced turn end, which no model has (see above).
4. `Fields` (oxygen, hypoxia) and the data containers (`Rack`, `CyclicalRack`, `Map`)
   against reference definitions.
