------------------------------- MODULE Traits --------------------------------
(***************************************************************************)
(* What a character is, here and now: the traits of its role, whether it   *)
(* has actions and moves left, and what afflicts it, put through the       *)
(* modifiers that the traits carry until they change nothing more.         *)
(***************************************************************************)
EXTENDS Naturals, Sequences

\* Roles: the actions and moves of a turn, the traits, the kinds of damage an
\* unarmed attack does, and what the bite does to whom.
Human == {"ACTOR", "KEYER", "MOBILE", "ORGANIC", "PICKPOCKETABLE"}
Critter == {"CRITTER_BITES", "MOBILE", "ORGANIC"}
Bite(unless, sets) == {[required |-> {}, restricted |-> unless, set |-> sets, clear |-> {}]}

Roles ==
  [ BUILDER  |-> [actions |-> 2, moves |-> 2, traitsSourced |-> Human, damageTypes |-> {}, bite |-> {}],
    MINION   |-> [actions |-> 3, moves |-> 3, traitsSourced |-> Human \ {"KEYER"},
                  damageTypes |-> {}, bite |-> {}],
    SNAKE    |-> [actions |-> 1, moves |-> 1, traitsSourced |-> Critter,
                  damageTypes |-> {"BITE"}, bite |-> Bite({}, {"SNAKE_BITE"})],
    SPIDER   |-> [actions |-> 1, moves |-> 1, traitsSourced |-> Critter,
                  damageTypes |-> {}, bite |-> Bite({"DEXTERITY"}, {"SPIDER_BITE"})],
    CAT      |-> [actions |-> 1, moves |-> 1, traitsSourced |-> Critter,
                  damageTypes |-> {"SLASH"}, bite |-> Bite({}, {"CAT_BITE"})],
    SCORPION |-> [actions |-> 1, moves |-> 1, traitsSourced |-> Critter,
                  damageTypes |-> {"PIERCE"}, bite |-> Bite({}, {"SCORPION_BITE"})] ]

-----------------------------------------------------------------------------
(* Modifiers.  A bite takes an attribute away and leaves its debuff, which *)
(* keeps an organic character from having the attribute at all.            *)

Bites ==
  << [bite |-> "SNAKE_BITE", of |-> "DEXTERITY", debuff |-> "DEXTERITY_DEBUFF"],
     [bite |-> "SPIDER_BITE", of |-> "STRENGTH", debuff |-> "STRENGTH_DEBUFF"],
     [bite |-> "RAT_BITE", of |-> "POWER", debuff |-> "POWER_DEBUFF"],
     [bite |-> "BAT_BITE", of |-> "LUNGS", debuff |-> "LUNGS_DEBUFF"],
     [bite |-> "CAT_BITE", of |-> "PIETY", debuff |-> "PIETY_DEBUFF"],
     [bite |-> "SCORPION_BITE", of |-> "BODY_HEAT", debuff |-> "HEAT_DEBUFF"] >>

Modifier(trait, needs, sets, clears) ==
  [trait |-> trait, required |-> {needs}, set |-> sets, clear |-> {clears}]

\* The modifiers in the order of the traits that carry them.
Modifiers ==
  << Modifier("EXITED_DUNGEON", "ACTOR", {}, "ACTOR"),
     Modifier("EXITED_DUNGEON", "MOBILE", {}, "MOBILE") >>
  \o [i \in DOMAIN Bites |-> Modifier(Bites[i].bite, Bites[i].of, {Bites[i].debuff}, Bites[i].of)]
  \o [i \in DOMAIN Bites |-> Modifier(Bites[i].debuff, "ORGANIC", {}, Bites[i].of)]

\* (mutant) a modifier works whether or not its trait is on.
AlwaysOn(current, m) ==
  IF m.required \subseteq current THEN (current \cup m.set) \ m.clear ELSE current

\* A modifier works while its trait is on; none of them clears its own.
Modified(current, m) ==
  IF m.trait \in current /\ m.required \subseteq current THEN (current \cup m.set) \ m.clear
                                                         ELSE current

\* TRAIT_COUNT * 4 passes are too many, and then there are no traits at all.
MaxIterations == 4 * 109

RECURSIVE Pass(_, _)
Pass(current, i) ==
  IF i > Len(Modifiers) THEN current ELSE Pass(Modified(current, Modifiers[i]), i + 1)

RECURSIVE Iterate(_, _)
Iterate(current, n) ==
  LET next == Pass(current, 1)
  IN  CASE n >= MaxIterations -> {}
        [] next = current -> current
        [] OTHER -> Iterate(next, n + 1)

computeTraits(traits) == Iterate(traits, 0)

\* What a role and its counts make of a character, before the modifiers.
Sourced(c) ==
  Roles[c.role].traitsSourced
    \cup (IF c.actions < Roles[c.role].actions THEN {"ACTION_READY"} ELSE {})
    \cup (IF c.moves < Roles[c.role].moves THEN {"MOVEMENT_READY"} ELSE {})
    \cup c.afflicted

computeCharacterTraits(c) == computeTraits(Sourced(c))

applyAffliction(bite, c) ==
  LET now == computeCharacterTraits(c)
  IN  IF bite.required \subseteq now /\ bite.restricted \cap now = {}
        THEN [c EXCEPT !.afflicted = (@ \cup bite.set) \ bite.clear] ELSE c

\* What an activation does to a character's afflictions outright.
applySpec(c, spec) == [c EXCEPT !.afflicted = (@ \cup spec.set) \ spec.clear]
=============================================================================
