------------------------------- MODULE Chests --------------------------------
(***************************************************************************)
(* Chests, the critters in them, and blows.  A request names a player and  *)
(* any character: it is saved when it succeeds, and forgotten when it does *)
(* not, whatever it had done by then.  Requests come in any order.         *)
(*                                                                         *)
(* A chest's slots hold items, and critters: the slot of a critter says    *)
(* CRITTER and keeps the critter's number in the place of a count, unless  *)
(* the chest has several.                                                  *)
(***************************************************************************)
EXTENDS Combat, FiniteSetsExt

CONSTANTS
  Builders,    \* the characters of the builders, numbered, each with its player's bag
  Critters,    \* the numbers of the critters in the chests
  RoleOf,      \* the role of each
  ChestSet,    \* the chests, by the numbers of the characters that contain them
  Blows,       \* the kinds of damage that are dealt outright
  Scenes,      \* how a match may begin: what each chest holds in the order given, its
               \* lock, the bags and what the builders are afflicted with
  Targets,     \* bound: who is struck or bitten outright
  MaxDamage,   \* bound: no more blows once a character is hurt this much
  MaxTurns     \* bound: the turns played

Characters == Builders \cup Critters

VARIABLES
  characters,  \* what each character has spent and suffered
  bags,        \* the builders' and the chests' inventories
  lock,        \* the lock of each chest
  turn         \* the turns begun

vars == <<characters, bags, lock, turn>>

\* A request that leaves the locks alone is saved.
Settle(w) == bags' = w.bags /\ characters' = w.characters /\ UNCHANGED <<lock, turn>>

-----------------------------------------------------------------------------
(* Filling a chest.  An entry is an item, or CRITTER and its number.       *)

NoItems == [s \in Slots |-> NoItem]

\* (mutant) the slot does not learn whose it is.
addAnonymousCritter(bag, critter) == giveItem(bag, "CRITTER")

\* The first slot of a critter learns the number, whichever slot was filled.
addCritter(bag, critter) ==
  LET given == giveItem(bag, "CRITTER")
  IN  [given EXCEPT ![Min(SlotsWith(given, "CRITTER"))].stacks = critter]

Fill(entries) ==
  FoldLeft(LAMBDA bag, e : IF e[1] = "CRITTER" THEN addCritter(bag, e[2]) ELSE giveItem(bag, e[1]),
           NoItems, entries)

-----------------------------------------------------------------------------
(* What a chest's lock does for a keyer.                                   *)

Locked == {"COIN_JAILER_CLOSED", "KEY_CATALYST_CLOSED", "KEY_CONSUMER_CLOSED",
           "KEY_KEEPER_CLOSED", "KEY_JAILER_CLOSED"}

\* What each closed lock opens to.
Opened == [KEY_CATALYST_CLOSED |-> "KEY_CATALYST_OPEN", KEY_CONSUMER_CLOSED |-> "KEY_CONSUMER_OPEN",
           KEY_KEEPER_CLOSED |-> "KEY_KEEPER_OPEN", KEY_JAILER_CLOSED |-> "KEY_JAILER_OPEN"]

isActor(w, c) == Ready(w, c, {"ACTOR"}) /\ HasAction(w, c)
isKeyer(w, c) == Ready(w, c, {"KEYER"})

\* (mutant) the key is asked for and not taken.
ShowKey(w, p) == w
TakeKey(w, p) == [w EXCEPT !.bags[p] = takeItem(@, "KEY")]
GiveKey(w, p) == [w EXCEPT !.bags[p] = giveItem(@, "KEY")]

\* Any of these locks opens for a player with a key; a catalyst leaves it.
Unlock(w, p, c, k) ==
  /\ lock[k] \in DOMAIN Opened
  /\ Has(w.bags[p], "KEY")
  /\ LET paid == IF lock[k] = "KEY_CATALYST_CLOSED" THEN w ELSE TakeKey(w, p)
         done == takeCharacterAction(paid, c)
     IN  bags' = done.bags /\ characters' = done.characters
  /\ lock' = [lock EXCEPT ![k] = Opened[lock[k]]]

\* A keeper gives its key back and closes.
Lock(w, p, c, k) ==
  /\ lock[k] = "KEY_KEEPER_OPEN"
  /\ Accepts(w.bags[p], "KEY")
  /\ LET done == GiveKey(takeCharacterAction(w, c), p)
     IN  bags' = done.bags /\ characters' = done.characters
  /\ lock' = [lock EXCEPT ![k] = "KEY_KEEPER_CLOSED"]

\* A lock that knows no activator does nothing, and that is a success.
UseChestLock(w, p, c, k) ==
  /\ isActor(w, c) /\ isKeyer(w, c)
  /\ Unlock(w, p, c, k) \/ Lock(w, p, c, k)
  /\ UNCHANGED turn

-----------------------------------------------------------------------------
(* Looting a chest: the item moves, the action is spent, and then every    *)
(* critter that a slot of the chest names bites.  Left out, so that more   *)
(* is allowed than the code allows: that the chest is in the room that the *)
(* request names (ActivatorLootChest.cpp:30), and the pose that is struck  *)
(* last, whose failure fails the request (Action.enum:71-85).              *)

Transferable == {"KEY", "CUBE_AWAKENED", "CUBE_DORMANT", "KEY_ELEVATOR", "SWORD", "ARMOR", "COIN", "FOOD"}

\* What the characters that the critters' slots name do to whoever loots the chest.
BittenByAll(w, c, k) ==
  FoldLeft(LAMBDA v, s : IF v.bags[k][s].item = "CRITTER" THEN CritterBite(v, v.bags[k][s].stacks, c) ELSE v,
           w, [s \in Slots |-> s])

LootChest(w, p, c, k, item) ==
  /\ isActor(w, c)
  /\ lock[k] \notin Locked
  /\ item \in Transferable
  /\ Has(w.bags[k], item)
  /\ LET out == [w EXCEPT !.bags[k] = takeItem(@, item)]
         in == [out EXCEPT !.bags[p] = giveItem(@, item)]
     IN  Accepts(out.bags[p], item) /\ Settle(BittenByAll(takeCharacterAction(in, c), c, k))

-----------------------------------------------------------------------------
(* The other requests that change what a character is.                     *)

MayBeHurt == \A c \in Characters : characters[c].damage < MaxDamage

\* An attacker may name any item of the dungeon as its weapon; only a sword is one.
Weapons == {"NIL"} \cup {i \in {"SWORD"} : \E b \in Builders \cup ChestSet : Has(bags[b], i)}

AttackCharacter(w, c, target, item) ==
  \E done \in {Attack(w, c, target, item)} : MayBeHurt /\ done.ok /\ Settle(done.world)

DamageCharacter(w, c, target, types) == MayBeHurt /\ Settle(Damage(w, c, target, types))

BiteCharacter(w, c, target) == Settle(CritterBite(w, c, target))

\* The sacrament of forgiveness gives piety and heals the bite of a cat.
Forgiven(w, c) == Become(w, c, applySpec(w.characters[c], [set |-> {"PIETY"}, clear |-> {"CAT_BITE"}]))
Forgive(w, c) ==
  /\ Ready(w, c, {"ACTOR"}) /\ ~Ready(w, c, {"UNDEAD"}) /\ ~Ready(w, c, {"PIETY"})
  /\ HasAction(w, c)
  /\ Settle(Forgiven(takeCharacterAction(w, c), c))

\* The others' turn is over: the builders and then everyone else start anew.
StartTurn ==
  /\ turn < MaxTurns
  /\ turn' = turn + 1
  /\ characters' = [c \in Characters |-> [characters[c] EXCEPT !.actions = 0, !.moves = 0]]
  /\ UNCHANGED <<bags, lock>>

-----------------------------------------------------------------------------

Init ==
  \E s \in Scenes :
    /\ characters = [c \in Characters |->
         [role |-> RoleOf[c], actions |-> 0, moves |-> 0, damage |-> 0,
          afflicted |-> IF c \in Builders THEN s.afflicted[c] ELSE {}]]
    /\ bags = [b \in Builders \cup ChestSet |-> IF b \in Builders THEN s.bags[b] ELSE Fill(s.holds[b])]
    /\ lock = s.lock
    /\ turn = 1

Request(w) ==
  \/ \E p \in Builders, c \in Characters, k \in ChestSet :
       UseChestLock(w, p, c, k) \/ \E item \in Transferable : LootChest(w, p, c, k, item)
  \/ \E c \in Characters, target \in Targets :
       \/ BiteCharacter(w, c, target)
       \/ \E types \in Blows : DamageCharacter(w, c, target, types)
       \/ \E item \in Weapons : AttackCharacter(w, c, target, item)
  \/ \E c \in Characters : Forgive(w, c)

Next == (\E w \in {NewWorld(characters, bags)} : Request(w)) \/ StartTurn

Spec == Init /\ [][Next]_vars

-----------------------------------------------------------------------------
(* Properties.                                                             *)

\* How many of an item there are.  A lock that took a key holds it.
Holding == {"KEY_CONSUMER_OPEN", "KEY_KEEPER_OPEN", "KEY_JAILER_OPEN"}
InLocks(item) == IF item = "KEY" THEN Cardinality({k \in ChestSet : lock[k] \in Holding}) ELSE 0
Count(item) ==
  MapThenSumSet(LAMBDA b : Held(bags[b], item), Builders \cup ChestSet) + InLocks(item)

\* Items move between bags, chests and locks and are neither lost nor made,
\* whichever request fails half way and however full a bag is; armor alone
\* breaks (ActivatorLootChest.cpp, ActivatorChestLockKey.cpp).
NothingGoesMissing ==
  [][\A item \in Transferable :
       IF item = "ARMOR" THEN Count(item)' <= Count(item) ELSE Count(item)' = Count(item)]_<<bags, lock>>

\* The critters put in a chest when it was filled, in order, the same in every scene.
Dwellers(k) == SelectSeq((CHOOSE s \in Scenes : TRUE).holds[k], LAMBDA e : e[1] = "CRITTER")

\* A critter's bite has its effect, or met an immunity.
Suffers(n, c) ==
  \A bite \in Roles[RoleOf[n]].bite :
    \/ bite.set \subseteq characters'[c].afflicted
    \/ bite.restricted \cap computeCharacterTraits(characters[c]) # {}

\* A chest loses something only while it is open, to someone who spends an
\* action on it and is bitten by the critter put in last, whose number the first
\* critter's slot keeps, and by no other: the critters put in before it are
\* forgotten, and a further slot names character 1, who does not bite
\* (MatchController.cpp:185-188 numbers the first slot whichever was filled;
\* ActivatorLootChest.cpp:82-96).  With one critter in the chest, the looter is
\* bitten by all of them, as Item.enum:10 has it for every critter.
LootersAreBitten ==
  [][\A k \in ChestSet : bags'[k] # bags[k] =>
       /\ lock[k] \notin Locked
       /\ \E c \in Characters :
            /\ characters'[c].actions = characters[c].actions + 1
            /\ Dwellers(k) # <<>> =>
                 LET n == Last(Dwellers(k))[2]
                 IN  /\ Suffers(n, c)
                     /\ characters'[c].afflicted \ characters[c].afflicted
                          \subseteq UNION {bite.set : bite \in Roles[RoleOf[n]].bite}]_vars

\* How often a character can parry.
Parryings(c) ==
  LET left == Roles[RoleOf[c]]
  IN  IF "PARRY" \in computeCharacterTraits(characters[c])
        THEN Min({left.actions - characters[c].actions, left.moves - characters[c].moves}) ELSE 0

Paying(c, n) == [characters[c] EXCEPT !.actions = @ + n, !.moves = @ + n]

\* A duel of builders ends with a blow that lands on whoever first cannot parry
\* one, each having paid for its parries, and takes nothing else from anybody
\* (ActivatorAttack.cpp, which calls itself with the roles swapped and reads
\* the traits that the payments keep up to date).
DuelsAreDecided ==
  \A now \in {NewWorld(characters, bags)}, c, d \in Builders, item \in Weapons : c # d =>
    LET first == Parryings(d) <= Parryings(c)
        loser == IF first THEN d ELSE c
        winner == IF first THEN c ELSE d
        paid == [characters EXCEPT ![d] = Paying(d, IF first THEN Parryings(d) ELSE Parryings(c) + 1),
                                   ![c] = Paying(c, IF first THEN Parryings(d) ELSE Parryings(c))]
        w == NewWorld(paid, bags)
    IN  Attack(now, c, d, item)
          = [ok |-> TRUE, world |-> Damage(w, winner, loser, Strikes(w, winner, item))]

\* An attribute is gone while the bite that took it lasts, its debuff stays as
\* long, and who left the dungeon neither acts nor moves, in whatever order
\* the modifiers are tried (TraitModifier.cpp:82-128).
AfflictionsSettle ==
  \A c \in Characters :
    LET s == Sourced(characters[c])
        bitten == {i \in DOMAIN Bites : {Bites[i].bite, Bites[i].of} \subseteq s}
        weak == {i \in DOMAIN Bites : Bites[i].debuff \in s /\ "ORGANIC" \in s}
    IN  computeCharacterTraits(characters[c])
          = (s \cup {Bites[i].debuff : i \in bitten})
              \ ({Bites[i].of : i \in bitten \cup weak}
                   \cup IF "EXITED_DUNGEON" \in s THEN {"ACTOR", "MOBILE"} ELSE {})
=============================================================================
