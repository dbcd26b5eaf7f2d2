------------------------------ MODULE Wrappers -------------------------------
(***************************************************************************)
(* A wrapper is an action or a rule given as a table entry: whom and what  *)
(* it applies to, what it asks for, what it costs and what it then does.   *)
(*                                                                         *)
(* An entry that does not apply, or whose decider declines, is passed over *)
(* without a word.  Conditions, costs and effects fail, and say so in the  *)
(* request's code set, which remembers any failure for the rest of the     *)
(* request.  What was paid before a failure stays paid.                    *)
(*                                                                         *)
(* The world w is what an activation changes: the bags, what characters    *)
(* have spent this turn, whose traits say ACTION_READY, the events pushed  *)
(* and whether anything failed yet.  Effects beyond those of this module   *)
(* are given as an operator from an effect, a context and a world to       *)
(* [ok, world].                                                            *)
(***************************************************************************)
EXTENDS Behaviors, Inventory

Wrapper ==
  [ matches |-> [actor |-> Match, tool |-> Match, target |-> Match],
    deciders |-> <<>>,
    conditions |-> [actor |-> Condition, tool |-> Condition, target |-> Condition],
    costs |-> [item |-> <<>>, action |-> 0, move |-> 0],
    onSuccess |-> <<>>, onFail |-> <<>> ]

Nothing == [kind |-> "NONE", is |-> Unset]
OfCharacter(c) == IF c = Unset THEN Nothing ELSE [kind |-> "CHARACTER", is |-> c]

-----------------------------------------------------------------------------
(* Does an entry apply?                                                    *)

isAny(m) == m # Match

ActorFits(m, x, s) == isAny(m) => matchesCharacter(m, s.traits[x.actor], s.role[x.actor])

\* An item has to be on the list, even on the empty one.
OnTheList(m, item, s) == m.required \subseteq s.itemTraits[item] /\ item \in m.items

ToolFits(m, x, s) == isAny(m) => x.tool # Unset /\ OnTheList(m, x.tool, s)

TargetFits(m, x, s) ==
  isAny(m) =>
    CASE x.target.kind = "CHARACTER" -> TargetMatches(m, x, s)
      [] x.target.kind = "ITEM" -> OnTheList(m, x.target.is, s)
      [] x.target.kind = "DOOR" ->
           m.required \subseteq s.doorTraits[x.target.is] /\ Listed(m.doors, x.target.is)
      [] OTHER -> FALSE

Selected(v, x, s) ==
  /\ ActorFits(v.matches.actor, x, s)
  /\ ToolFits(v.matches.tool, x, s)
  /\ TargetFits(v.matches.target, x, s)

-----------------------------------------------------------------------------
(* Does it get what it asks for?                                           *)

asks(c) == c # Condition

TargetTraits(x, s) ==
  CASE x.target.kind = "CHARACTER" -> s.traits[x.target.is]
    [] x.target.kind = "ITEM" -> s.itemTraits[x.target.is]
    [] x.target.kind = "DOOR" -> s.doorTraits[x.target.is]

ToolRefused(c, x, s) == asks(c) /\ x.tool # Unset /\ ~Traited(c, s.itemTraits[x.tool])
TargetRefused(c, x, s) == asks(c) /\ x.target.kind # "NONE" /\ ~Traited(c, TargetTraits(x, s))

\* Conditions on a tool or a target end in a look at the whole code set, where
\* an earlier failure of the request counts as well.
Halted(v, w) == w.failure /\ (asks(v.conditions.tool) \/ asks(v.conditions.target))

Refused(v, x, s, w) ==
  \/ ~Traited(v.conditions.actor, s.traits[x.actor])
  \/ ToolRefused(v.conditions.tool, x, s)
  \/ TargetRefused(v.conditions.target, x, s) /\ ~(w.failure /\ asks(v.conditions.tool))

-----------------------------------------------------------------------------
(* Costs.                                                                  *)

Succeeds(w) == [ok |-> TRUE, world |-> w]
Fails(w) == [ok |-> FALSE, world |-> [w EXCEPT !.failure = TRUE]]
Declines(w) == [ok |-> FALSE, world |-> w]

\* The traits are looked up anew when an action is taken.
takeCharacterAction(c, w, s) ==
  IF w.spent[c].actions >= s.allowed[c].actions THEN Fails(w)
  ELSE Succeeds([w EXCEPT !.spent[c].actions = @ + 1,
                          !.ready = IF w.spent[c].actions + 1 < s.allowed[c].actions
                                      THEN @ \cup {c} ELSE @ \ {c}])

takeCharacterMove(c, w, s) ==
  IF w.spent[c].moves >= s.allowed[c].moves THEN Fails(w)
  ELSE Succeeds([w EXCEPT !.spent[c].moves = @ + 1])

takeInventoryItem(c, item, w) ==
  IF Has(w.bags[c], item) THEN Succeeds([w EXCEPT !.bags[c] = takeItem(@, item)]) ELSE Fails(w)

giveInventoryItem(c, item, w) ==
  IF Accepts(w.bags[c], item) THEN Succeeds([w EXCEPT !.bags[c] = giveItem(@, item)]) ELSE Fails(w)

\* One thing after another, until one fails.
AllOf(steps, w, Do(_, _)) ==
  FoldLeft(LAMBDA q, e : IF q.ok THEN Do(e, q.world) ELSE q, Succeeds(w), steps)

\* An object makes its target pay; items come from the player who asks.
costPayer(x, s) ==
  IF "OBJECT" \in s.traits[x.actor] /\ x.target.kind = "CHARACTER" THEN x.target.is ELSE x.actor

Charge(cost, x, s, w) ==
  CASE cost[1] = "ITEM" -> takeInventoryItem(x.player, cost[2], w)
    [] cost[1] = "ACTION" -> takeCharacterAction(costPayer(x, s), w, s)
    [] cost[1] = "MOVE" -> takeCharacterMove(costPayer(x, s), w, s)

Bill(costs) ==
  [i \in DOMAIN costs.item |-> <<"ITEM", costs.item[i]>>]
    \o [i \in 1 .. costs.action |-> <<"ACTION">>] \o [i \in 1 .. costs.move |-> <<"MOVE">>]

\* Every item is looked for before the first is taken.
PayCosts(v, x, s, w) ==
  IF \E i \in DOMAIN v.costs.item : ~Has(w.bags[x.player], v.costs.item[i]) THEN Fails(w)
  ELSE AllOf(Bill(v.costs), w, LAMBDA cost, u : Charge(cost, x, s, u))

-----------------------------------------------------------------------------
(* Effects on the bags of characters.                                      *)

\* A slot outside of an inventory's range is unallocated; a role without an
\* inventory has no other.
isValid(v) == \E i \in Slots : v[i].item # "UNALLOCATED"

\* The item of the first slot that has all of some traits, or nothing.
accessItemByTraits(v, required, restricted, s) ==
  LET fit == {i \in Slots : /\ v[i] # NoItem /\ v[i].stacks > 0
                            /\ required \subseteq s.itemTraits[v[i].item]
                            /\ restricted \cap s.itemTraits[v[i].item] = {}}
  IN  IF fit = {} THEN "NIL" ELSE v[Min(fit)].item

Party(anchor, x) ==
  IF anchor = "ACTOR" THEN x.actor
  ELSE IF x.target.kind = "CHARACTER" THEN x.target.is ELSE Unset

\* What the last decider found; any decider that finds nothing declines.
FindInventoryItemByTraits(e, x, s, w) ==
  IF Party(e.side, x) = Unset THEN "NIL"
  ELSE accessItemByTraits(w.bags[Party(e.side, x)], e.required, e.restricted, s)
Declined(v, x, s, w) == \E i \in DOMAIN v.deciders : FindInventoryItemByTraits(v.deciders[i], x, s, w) = "NIL"
Resolved(v, x, s, w) ==
  IF v.deciders = <<>> THEN "NIL" ELSE FindInventoryItemByTraits(Last(v.deciders), x, s, w)

\* (mutant) what the receiver cannot hold is gone.
DropOnRefusal(from, to, item, w, s) ==
  LET taken == takeInventoryItem(from, item, w)
      given == giveInventoryItem(to, item, taken.world)
  IN  IF ~taken.ok THEN taken ELSE given

\* An item that the receiver cannot hold goes back where it came from.  Left out:
\* that the traits of both are computed anew, which items do not change here
\* (ActivatorTransferItem.cpp:31-32), and the pose that pickpockets and depositors
\* strike last (Action.enum:45, 53): no frame to be had for it fails the request
\* when the item has moved (ActivationAddTargetKeyframe.cpp:37-41, 80).
TransferItem(from, to, item, w, s) ==
  LET taken == takeInventoryItem(from, item, w)
      given == giveInventoryItem(to, item, taken.world)
  IN  IF item = "NIL" \/ Unset \in {from, to} THEN Declines(w)
      ELSE IF ~isValid(w.bags[from]) \/ ~isValid(w.bags[to]) THEN Declines(w)
      ELSE IF ~taken.ok THEN taken
      ELSE IF ~given.ok THEN [ok |-> FALSE, world |-> giveInventoryItem(from, item, given.world).world]
      ELSE given

PushBehaviorTrigger(event, x, w) ==
  Succeeds([w EXCEPT !.pushed = Append(@, [event |-> event, actor |-> x.actor,
                                           target |-> Party("TARGET", x)])])

\* A chest that is full swallows what it is given; hands that are empty, or
\* that are none, deposit nothing.
Loot == {"ITEM_TRANSFERABLE", "PICKPOCKETABLE"}

Deposit(x, s, w) ==
  LET chest == Party("TARGET", x)
      item == accessItemByTraits(w.bags[x.actor], Loot, {}, s)
      acted == takeCharacterAction(x.actor, w, s)
      taken == takeInventoryItem(x.actor, item, acted.world)
      given == giveInventoryItem(chest, item, taken.world)
  IN  IF "HANDS" \notin s.traits[x.actor] \/ chest = Unset \/ item = "NIL" THEN Declines(w)
      ELSE IF ~isValid(w.bags[chest]) THEN Declines(w)
      ELSE IF ~acted.ok THEN acted
      ELSE IF ~given.ok THEN given
      ELSE PushBehaviorTrigger("DEPOSIT", x, given.world)

-----------------------------------------------------------------------------
(* A wrapper from beginning to end.                                        *)

Perform(steps, x, w, Effect(_, _, _)) ==
  LET q == AllOf(steps, w, LAMBDA e, u : Effect(e, x, u))
  IN  IF q.ok THEN q ELSE Fails(q.world)

activate(v, x0, s, w, Effect(_, _, _)) ==
  LET x == [x0 EXCEPT !.resolved = Resolved(v, x0, s, w)]
      paid == PayCosts(v, x, s, w)
  IN  CASE ~Selected(v, x, s) \/ Declined(v, x, s, w) -> Declines(w)
        [] OTHER ->
             IF Refused(v, x, s, w) THEN Fails(Perform(v.onFail, x, [w EXCEPT !.failure = TRUE], Effect).world)
             ELSE IF Halted(v, w) THEN Declines(w)
             ELSE IF ~paid.ok THEN paid
             ELSE Perform(v.onSuccess, x, paid.world, Effect)
=============================================================================
