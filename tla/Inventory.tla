------------------------------ MODULE Inventory ------------------------------
(***************************************************************************)
(* A player's inventory: a row of slots, each empty or holding a stack of  *)
(* one item.  An item goes on the first stack with room, else in the first *)
(* empty slot; it is taken from the first slot that holds it.              *)
(***************************************************************************)
EXTENDS Naturals, FiniteSetsExt

CONSTANTS
  SlotCount,  \* INVENTORY_SIZE
  KeyStack    \* how many keys one slot holds

ASSUME InventoryAssumption == SlotCount \in Nat /\ KeyStack \in Nat \ {0}

Slots == 1 .. SlotCount
Stack == [KEY |-> KeyStack, KEY_ELEVATOR |-> 1, CUBE_AWAKENED |-> 1, CUBE_DORMANT |-> 1,
          COIN |-> 9, FOOD |-> 9, SWORD |-> 1, ARMOR |-> 1, CRITTER |-> 1, CONTAINED |-> 1]
Items == DOMAIN Stack

NoItem == [item |-> "NIL", stacks |-> 0]
Slot == {NoItem} \cup UNION {[item : {i}, stacks : 1 .. Stack[i]] : i \in Items}
Inventories == [Slots -> Slot]

SlotsWith(v, i) == {s \in Slots : v[s].item = i}
Growing(v, i) == {s \in SlotsWith(v, i) : v[s].stacks < Stack[i]}

Has(v, i) == SlotsWith(v, i) # {}
Accepts(v, i) == Growing(v, i) # {} \/ SlotsWith(v, "NIL") # {}

giveItem(v, i) ==
  LET s == Min(IF Growing(v, i) # {} THEN Growing(v, i) ELSE SlotsWith(v, "NIL"))
  IN  [v EXCEPT ![s] = [item |-> i, stacks |-> v[s].stacks + 1]]

takeItem(v, i) ==
  LET s == Min(SlotsWith(v, i))
  IN  [v EXCEPT ![s] = IF v[s].stacks > 1 THEN [v[s] EXCEPT !.stacks = @ - 1] ELSE NoItem]

\* How many of an item an inventory holds.
Held(v, i) == Cardinality({u \in SlotsWith(v, i) \X (1 .. Stack[i]) : u[2] <= v[u[1]].stacks})
=============================================================================
