------------------------------- MODULE Combat --------------------------------
(***************************************************************************)
(* One character strikes another.  The world w holds the characters, the   *)
(* bags and the traits that the request's controller has computed, which   *)
(* it brings up to date whenever it changes a character.                   *)
(***************************************************************************)
EXTENDS Traits, Inventory, SequencesExt

\* A request's controller computes the traits of everybody anew.
NewWorld(characters, bags) ==
  [ characters |-> characters, bags |-> bags,
    traits |-> [c \in DOMAIN characters |-> computeCharacterTraits(characters[c])] ]

Become(w, c, to) ==
  [w EXCEPT !.characters[c] = to, !.traits[c] = computeCharacterTraits(to)]

Ready(w, c, traits) == traits \subseteq w.traits[c]

HasAction(w, c) == w.characters[c].actions < Roles[w.characters[c].role].actions
HasMove(w, c) == w.characters[c].moves < Roles[w.characters[c].role].moves

takeCharacterAction(w, c) ==
  Become(w, c, [w.characters[c] EXCEPT !.actions = @ + 1])

\* (mutant) the traits are left as they were.
takeMoveQuietly(w, c) == [w EXCEPT !.characters[c].moves = @ + 1]

takeCharacterMove(w, c) ==
  Become(w, c, [w.characters[c] EXCEPT !.moves = @ + 1])

-----------------------------------------------------------------------------
(* Damage.                                                                 *)

\* The kinds of damage in the order of their table; the first two say how a
\* blow comes, the others what it does.
Vectors == {"MELEE", "RANGED"}
EffectOrder == <<"CRUSH", "PIERCE", "SLASH", "FIRE", "COLD", "ELECTRIC", "HEAT", "BITE">>
Effects == ToSet(EffectOrder)
Resistance ==
  [ MELEE |-> "RESIST_MELEE", RANGED |-> "RESIST_RANGED", CRUSH |-> "RESIST_CRUSH",
    PIERCE |-> "RESIST_PIERCE", SLASH |-> "RESIST_SLASH", FIRE |-> "RESIST_FIRE",
    COLD |-> "RESIST_COLD", ELECTRIC |-> "RESIST_ELECTRIC", HEAT |-> "RESIST_HEAT",
    BITE |-> "RESIST_BITE" ]

Hurt(w, c) == [w EXCEPT !.characters[c].damage = @ + 1]

\* A character with a player behind it carries the player's bag.
breakArmorItem(w, c) ==
  IF c \in DOMAIN w.bags /\ Has(w.bags[c], "ARMOR")
    THEN [w EXCEPT !.bags[c] = takeItem(@, "ARMOR")] ELSE w

CritterBite(w, by, c) ==
  LET bite == Roles[w.characters[by].role].bite
  IN  IF Ready(w, by, {"CRITTER_BITES"}) /\ bite # {}
        THEN Become(w, c, applyAffliction(CHOOSE m \in bite : TRUE, w.characters[c])) ELSE w

\* What an effect does beside the base damage; slashes and heat do nothing.
DamageFire(w, c) == Hurt(w, c)
DamagePierce(w, c) == IF Ready(w, c, {"WEAKNESS_PIERCE"}) THEN Hurt(w, c) ELSE w
DamageCold(w, c) == IF Ready(w, c, {"MOVEMENT_READY"}) THEN takeCharacterMove(w, c) ELSE w
DamageElectric(w, c) == IF Ready(w, c, {"ACTION_READY"}) THEN takeCharacterAction(w, c) ELSE w

Effect(w, by, c, effect) ==
  CASE effect = "CRUSH" -> breakArmorItem(w, c)
    [] effect = "PIERCE" -> DamagePierce(w, c)
    [] effect = "FIRE" -> DamageFire(w, c)
    [] effect = "COLD" -> DamageCold(w, c)
    [] effect = "ELECTRIC" -> DamageElectric(w, c)
    [] effect = "BITE" -> CritterBite(w, by, c)
    [] OTHER -> w

Resisted(w, c, types) == \A t \in types : Resistance[t] \in w.traits[c]

\* A blow that comes no way that is not resisted does nothing.  One that does
\* nothing but what is resisted, or that meets poise, does no base damage, and
\* what is not resisted still has its effect.
Damage(w, by, c, types) ==
  LET vectors == types \cap Vectors
      effects == types \cap Effects
      base == IF (effects # {} /\ Resisted(w, c, effects)) \/ Ready(w, c, {"POISE", "ACTION_READY"})
                THEN w ELSE Hurt(w, c)
      felt == SelectSeq(EffectOrder, LAMBDA e : e \in effects /\ ~Resisted(w, c, {e}))
  IN  IF vectors # {} /\ Resisted(w, c, vectors) THEN w
        ELSE FoldLeft(LAMBDA v, e : Effect(v, by, c, e), base, felt)

-----------------------------------------------------------------------------
(* Attack.  It costs the attacker nothing.  Whoever can parry it pays with *)
(* an action and a move and strikes back, with the same item in hand.      *)

ItemDamage(item) == IF item = "SWORD" THEN {"SLASH", "PIERCE"} ELSE {}

Strikes(w, by, item) ==
  {"MELEE"} \cup (IF ItemDamage(item) # {} THEN ItemDamage(item)
                  ELSE Roles[w.characters[by].role].damageTypes)

Parries(w, c) == Ready(w, c, {"PARRY", "ACTION_READY", "MOVEMENT_READY"})

\* The outcome of an attack is [ok, world]; that of a parry's is not asked for.
RECURSIVE Attack(_, _, _, _)
Attack(w, by, c, item) ==
  LET acted == takeCharacterAction(w, c)
      moved == takeCharacterMove(acted, c)
  IN  CASE ~Parries(w, c) -> [ok |-> TRUE, world |-> Damage(w, by, c, Strikes(w, by, item))]
        [] Parries(w, c) /\ ~HasAction(w, c) -> [ok |-> FALSE, world |-> w]
        [] Parries(w, c) /\ HasAction(w, c) /\ ~HasMove(w, c) -> [ok |-> FALSE, world |-> acted]
        [] OTHER -> [ok |-> TRUE, world |-> Attack(moved, c, by, item).world]
=============================================================================
