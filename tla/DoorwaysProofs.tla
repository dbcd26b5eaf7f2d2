--------------------------- MODULE DoorwaysProofs ----------------------------
(***************************************************************************)
(* Theorems about Doorways, for any dungeons, characters, players and bags: *)
(* the doors agree with each other, the doorways keep apart who stands in  *)
(* them, and the keys are a ledger's.                                      *)
(*                                                                         *)
(* A door is reasoned about by its traits.  A rule only touches the traits *)
(* that locks turn on and off, so a wall keeps its kind; what is said of   *)
(* both sides of a wall follows from what lasts.                           *)
(***************************************************************************)
EXTENDS Doorways, FiniteSetTheorems, WellFoundedInduction, TLAPS

-----------------------------------------------------------------------------
(* What giving an item to an inventory and taking one from it do to what   *)
(* the inventory holds, for any number of slots and any stack of keys.     *)

\* The smallest of some slots is one of them: the intervals up to the slots are
\* finite sets, so one of them has none of the others inside it.
LEMMA MinIsMember ==
  ASSUME NEW S \in SUBSET Nat, S # {}
  PROVE  Min(S) \in S
<1> DEFINE Upto == {0 .. s : s \in S}
<1>1. Upto \subseteq FiniteSubsetsOf(Nat) /\ Upto # {}
  <2>1. \A s \in S : IsFiniteSet(0 .. s) /\ 0 .. s \in SUBSET Nat
    BY FS_Interval
  <2>2. QED
    BY <2>1 DEF FiniteSubsetsOf
<1>2. PICK u \in Upto : \A v \in Upto : ~ (<<v, u>> \in StrictSubsetOrdering(Nat))
  <2> HIDE DEF Upto
  <2>1. QED
    BY ONLY <1>1, FS_StrictSubsetOrderingWellFounded, WFMin
<1>3. PICK x \in S : u = 0 .. x
  OBVIOUS
<1>4. ASSUME NEW y \in S
      PROVE  x <= y
  <2>1. ~ (<<0 .. y, 0 .. x>> \in StrictSubsetOrdering(Nat))
    BY <1>2, <1>3
  <2>2. CASE y < x
    <3>1. 0 .. y \subseteq 0 .. x /\ x \in 0 .. x /\ x \notin 0 .. y
      BY <2>2
    <3>2. 0 .. y \in SUBSET Nat /\ 0 .. x \in SUBSET Nat
      OBVIOUS
    <3>3. QED
      BY <2>1, <3>1, <3>2 DEF StrictSubsetOrdering
  <2>3. QED
    BY <2>2
<1>5. QED
  BY <1>4 DEF Min

\* A slot is empty or holds a stack of an item.
LEMMA SlotFacts ==
  ASSUME NEW x \in Slot
  PROVE  \/ x = NoItem
         \/ x.item \in Items /\ x.stacks \in 1 .. Stack[x.item] /\ x = [item |-> x.item, stacks |-> x.stacks]
BY DEF Slot

\* Stacks have room for one item at least.
LEMMA StackFacts == \A i \in Items : Stack[i] \in Nat /\ Stack[i] >= 1 /\ i # "NIL"
BY InventoryAssumption DEF Items, Stack

\* A stack of an item may be put in a slot.
LEMMA StackIsSlot ==
  ASSUME NEW i \in Items, NEW n \in 1 .. Stack[i]
  PROVE  [item |-> i, stacks |-> n] \in Slot
BY DEF Slot

\* The units of an item that an inventory holds, one by one.
Units(v, i) == {u \in SlotsWith(v, i) \X (1 .. Stack[i]) : u[2] <= v[u[1]].stacks}

\* They can be counted.
LEMMA UnitsAreFinite ==
  ASSUME NEW v \in Inventories, NEW i \in Items
  PROVE  IsFiniteSet(Units(v, i)) /\ Held(v, i) = Cardinality(Units(v, i)) /\ Held(v, i) \in Nat
<1>1. IsFiniteSet(Slots) /\ IsFiniteSet(1 .. Stack[i])
  BY FS_Interval, InventoryAssumption, StackFacts DEF Slots
<1>2. IsFiniteSet(Slots \X (1 .. Stack[i]))
  BY <1>1, FS_Product
<1>3. Units(v, i) \subseteq Slots \X (1 .. Stack[i])
  BY DEF Units, SlotsWith
<1>4. IsFiniteSet(Units(v, i))
  BY <1>2, <1>3, FS_Subset
<1>5. Held(v, i) = Cardinality(Units(v, i))
  BY DEF Held, Units
<1>6. QED
  BY <1>4, <1>5, FS_CardinalityType

\* An inventory that has an item has a slot with a stack of it.
LEMMA TakenSlot ==
  ASSUME NEW v \in Inventories, NEW i \in Items, Has(v, i)
  PROVE  LET s == Min(SlotsWith(v, i))
         IN  s \in Slots /\ v[s].item = i /\ v[s].stacks \in 1 .. Stack[i]
                         /\ v[s] = [item |-> i, stacks |-> v[s].stacks]
<1> DEFINE s == Min(SlotsWith(v, i))
<1>1. SlotsWith(v, i) \in SUBSET Nat /\ SlotsWith(v, i) # {}
  BY InventoryAssumption DEF Has, SlotsWith, Slots
<1>2. s \in SlotsWith(v, i)
  BY <1>1, MinIsMember
<1>3. s \in Slots /\ v[s].item = i /\ v[s] \in Slot
  BY <1>2 DEF SlotsWith, Inventories
<1> HIDE DEF s
<1>4. QED
  BY <1>3, SlotFacts, StackFacts DEF NoItem, s

\* Taking an item takes one unit of it and leaves the other items alone.
LEMMA TakeFacts ==
  ASSUME NEW v \in Inventories, NEW i \in Items, Has(v, i)
  PROVE  /\ takeItem(v, i) \in Inventories
         /\ Held(v, i) > 0 /\ Held(takeItem(v, i), i) = Held(v, i) - 1
         /\ \A j \in Items : j # i => Held(takeItem(v, i), j) = Held(v, j)
<1> DEFINE s == Min(SlotsWith(v, i))
           n == v[s].stacks
           rest == IF n > 1 THEN [v[s] EXCEPT !.stacks = n - 1] ELSE NoItem
           w == [v EXCEPT ![s] = rest]
<1>1. s \in Slots /\ v[s].item = i /\ n \in 1 .. Stack[i] /\ v[s] = [item |-> i, stacks |-> n]
  BY TakenSlot
<1>2. takeItem(v, i) = w
  BY DEF takeItem
<1> HIDE DEF s
<1>3. Stack[i] \in Nat /\ i # "NIL" /\ n \in Int /\ 1 <= n /\ n <= Stack[i]
  BY <1>1, StackFacts
<1>4. /\ n > 1 => rest = [item |-> i, stacks |-> n - 1] /\ rest.item = i /\ rest.stacks = n - 1
      /\ ~ (n > 1) => rest = NoItem
  BY <1>1
<1>5. rest \in Slot
  <2>1. CASE n > 1
    <3>1. n - 1 \in 1 .. Stack[i]
      BY <1>3, <2>1
    <3>2. QED
      BY <1>4, <2>1, <3>1, StackIsSlot
  <2>2. CASE ~ (n > 1)
    BY <1>4, <2>2 DEF Slot
  <2>3. QED
    BY <2>1, <2>2
<1> HIDE DEF rest, n
<1>6. w \in Inventories /\ w[s] = rest /\ \A t \in Slots : t # s => w[t] = v[t]
  BY <1>1, <1>5 DEF Inventories
<1> HIDE DEF w
<1>7. Units(w, i) = Units(v, i) \ {<<s, n>>} /\ <<s, n>> \in Units(v, i)
  <2>1. v[s].stacks = n
    BY DEF n
  <2>2. <<s, n>> \in Units(v, i)
    BY <1>1, <1>3, <2>1 DEF Units, SlotsWith
  <2>3. ASSUME NEW t \in Slots, NEW k \in 1 .. Stack[i]
        PROVE  (w[t].item = i /\ k <= w[t].stacks)
                 <=> (v[t].item = i /\ k <= v[t].stacks /\ <<t, k>> # <<s, n>>)
    <3>1. CASE t # s
      BY <1>6, <3>1
    <3>2. CASE t = s /\ n > 1
      BY <1>1, <1>3, <1>4, <1>6, <2>1, <3>2
    <3>3. CASE t = s /\ ~ (n > 1)
      BY <1>1, <1>3, <1>4, <1>6, <2>1, <3>3 DEF NoItem
    <3>4. QED
      BY <3>1, <3>2, <3>3
  <2>4. QED
    BY <2>2, <2>3 DEF Units, SlotsWith
<1>8. Held(v, i) > 0 /\ Held(w, i) = Held(v, i) - 1
  <2>1. Cardinality(Units(v, i) \ {<<s, n>>}) = Cardinality(Units(v, i)) - 1
    BY <1>7, UnitsAreFinite, FS_RemoveElement
  <2>2. Held(v, i) # 0
    BY <1>7, UnitsAreFinite, FS_EmptySet
  <2>3. Held(v, i) \in Nat /\ Held(v, i) = Cardinality(Units(v, i))
    BY UnitsAreFinite
  <2>4. Held(w, i) = Cardinality(Units(v, i) \ {<<s, n>>})
    BY <1>6, <1>7, UnitsAreFinite
  <2> HIDE DEF Held
  <2>5. QED
    BY <2>1, <2>2, <2>3, <2>4
<1>9. ASSUME NEW j \in Items, j # i
      PROVE  Held(w, j) = Held(v, j)
  <2>1. \A t \in Slots : (w[t].item = j => t # s) /\ (v[t].item = j => t # s)
    BY <1>1, <1>4, <1>6, <1>9, StackFacts DEF NoItem
  <2>2. SlotsWith(w, j) = SlotsWith(v, j)
    BY <1>6, <2>1 DEF SlotsWith
  <2>3. \A t \in SlotsWith(v, j) : w[t] = v[t]
    BY <1>6, <2>1 DEF SlotsWith
  <2>4. Units(w, j) = Units(v, j)
    BY <2>2, <2>3 DEF Units
  <2>5. QED
    BY <1>6, <2>4, UnitsAreFinite
<1>10. QED
  BY <1>2, <1>6, <1>8, <1>9

\* An inventory that accepts an item has a slot for it: a stack with room, or none.
LEMMA GivenSlot ==
  ASSUME NEW v \in Inventories, NEW i \in Items, Accepts(v, i)
  PROVE  LET s == Min(IF Growing(v, i) # {} THEN Growing(v, i) ELSE SlotsWith(v, "NIL"))
         IN  /\ s \in Slots /\ v[s].stacks \in Nat /\ v[s].stacks + 1 <= Stack[i]
             /\ \/ v[s].item = i
                \/ v[s].item = "NIL" /\ v[s].stacks = 0
<1> DEFINE free == IF Growing(v, i) # {} THEN Growing(v, i) ELSE SlotsWith(v, "NIL")
           s == Min(free)
<1>1. free \in SUBSET Slots /\ free # {} /\ Slots \in SUBSET Nat
  BY InventoryAssumption DEF Accepts, Growing, SlotsWith, Slots
<1>2. s \in free
  <2>1. free \in SUBSET Nat
    BY <1>1
  <2> HIDE DEF free
  <2>2. QED
    BY <1>1, <2>1, MinIsMember
<1>3. s \in Slots /\ v[s] \in Slot
  BY <1>1, <1>2 DEF Inventories
<1>4. Stack[i] \in Nat /\ Stack[i] >= 1 /\ i # "NIL"
  BY StackFacts
<1>5. \/ v[s].item = i /\ v[s].stacks < Stack[i]
      \/ v[s].item = "NIL"
  BY <1>2 DEF Growing, SlotsWith
<1> HIDE DEF s
<1>6. CASE v[s] = NoItem
  BY <1>3, <1>4, <1>6 DEF NoItem, s
<1>7. CASE v[s].item \in Items /\ v[s].stacks \in 1 .. Stack[v[s].item]
  <2>1. v[s].item = i /\ v[s].stacks < Stack[i]
    BY <1>5, <1>7, StackFacts
  <2>2. v[s].stacks \in 1 .. Stack[i]
    BY <1>7, <2>1
  <2>3. v[s].stacks \in Nat /\ v[s].stacks + 1 <= Stack[i]
    BY <1>4, <2>1, <2>2
  <2>4. QED
    BY <1>3, <2>1, <2>3 DEF s
<1>8. QED
  BY <1>3, <1>6, <1>7, SlotFacts

\* Giving an item adds one unit of it and leaves the other items alone.
LEMMA GiveFacts ==
  ASSUME NEW v \in Inventories, NEW i \in Items, Accepts(v, i)
  PROVE  /\ giveItem(v, i) \in Inventories
         /\ Held(giveItem(v, i), i) = Held(v, i) + 1
         /\ \A j \in Items : j # i => Held(giveItem(v, i), j) = Held(v, j)
<1> DEFINE s == Min(IF Growing(v, i) # {} THEN Growing(v, i) ELSE SlotsWith(v, "NIL"))
           n == v[s].stacks
           more == [item |-> i, stacks |-> n + 1]
           w == [v EXCEPT ![s] = more]
<1>1. /\ s \in Slots /\ n \in Nat /\ n + 1 <= Stack[i]
      /\ v[s].item = i \/ (v[s].item = "NIL" /\ n = 0)
  BY GivenSlot
<1>2. giveItem(v, i) = w
  BY DEF giveItem
<1> HIDE DEF s
<1>3. Stack[i] \in Nat /\ i # "NIL" /\ v[s].stacks = n
  BY StackFacts
<1> HIDE DEF n
<1>4. more \in Slot /\ more.item = i /\ more.stacks = n + 1
  <2>1. n + 1 \in 1 .. Stack[i]
    BY <1>1, <1>3
  <2>2. QED
    BY <2>1, StackIsSlot
<1> HIDE DEF more
<1>5. w \in Inventories /\ w[s] = more /\ \A t \in Slots : t # s => w[t] = v[t]
  BY <1>1, <1>4 DEF Inventories
<1> HIDE DEF w
<1>6. Units(w, i) = Units(v, i) \cup {<<s, n + 1>>} /\ <<s, n + 1>> \notin Units(v, i)
  <2>1. n + 1 \in 1 .. Stack[i]
    BY <1>1, <1>3
  <2>2. <<s, n + 1>> \in Units(w, i)
    BY <1>1, <1>4, <1>5, <2>1 DEF Units, SlotsWith
  <2>3. <<s, n + 1>> \notin Units(v, i)
    BY <1>1, <1>3 DEF Units, SlotsWith
  <2>4. ASSUME NEW t \in Slots, NEW k \in 1 .. Stack[i]
        PROVE  (w[t].item = i /\ k <= w[t].stacks)
                 <=> ((v[t].item = i /\ k <= v[t].stacks) \/ <<t, k>> = <<s, n + 1>>)
    <3>1. CASE t # s
      BY <1>5, <3>1
    <3>2. CASE t = s /\ v[s].item = i
      BY <1>1, <1>3, <1>4, <1>5, <3>2
    <3>3. CASE t = s /\ v[s].item = "NIL" /\ n = 0
      BY <1>1, <1>3, <1>4, <1>5, <3>3
    <3>4. QED
      BY <1>1, <3>1, <3>2, <3>3
  <2>5. QED
    BY <1>1, <2>1, <2>2, <2>3, <2>4 DEF Units, SlotsWith
<1>7. Held(w, i) = Held(v, i) + 1
  <2>1. Cardinality(Units(v, i) \cup {<<s, n + 1>>}) = Cardinality(Units(v, i)) + 1
    BY <1>6, UnitsAreFinite, FS_AddElement
  <2>2. QED
    BY <1>5, <1>6, <2>1, UnitsAreFinite
<1>8. ASSUME NEW j \in Items, j # i
      PROVE  Held(w, j) = Held(v, j)
  <2>1. \A t \in Slots : (w[t].item = j => t # s) /\ (v[t].item = j => t # s)
    BY <1>1, <1>4, <1>5, <1>8, StackFacts
  <2>2. SlotsWith(w, j) = SlotsWith(v, j)
    BY <1>5, <2>1 DEF SlotsWith
  <2>3. \A t \in SlotsWith(v, j) : w[t] = v[t]
    BY <1>5, <2>1 DEF SlotsWith
  <2>4. Units(w, j) = Units(v, j)
    BY <2>2, <2>3 DEF Units
  <2>5. QED
    BY <1>5, <2>4, UnitsAreFinite
<1>9. QED
  BY <1>2, <1>5, <1>7, <1>8

\* Taking an item changes one slot, which it empties when one item fills it.
LEMMA SlotTaken ==
  ASSUME NEW v \in Inventories, NEW i \in Items, Has(v, i)
  PROVE  \E s \in Slots :
           /\ v[s].item = i /\ takeItem(v, i)[s].item \in {i, "NIL"}
           /\ Stack[i] = 1 => takeItem(v, i)[s].item = "NIL"
           /\ \A t \in Slots : t # s => takeItem(v, i)[t] = v[t]
<1> DEFINE s == Min(SlotsWith(v, i))
           rest == IF v[s].stacks > 1 THEN [v[s] EXCEPT !.stacks = v[s].stacks - 1] ELSE NoItem
<1>1. s \in Slots /\ v[s].item = i /\ v[s].stacks \in 1 .. Stack[i]
                  /\ v[s] = [item |-> i, stacks |-> v[s].stacks]
  BY TakenSlot
<1>2. takeItem(v, i) = [v EXCEPT ![s] = rest]
  BY DEF takeItem
<1> HIDE DEF s
<1>3. rest.item \in {i, "NIL"} /\ (Stack[i] = 1 => rest.item = "NIL")
  BY <1>1 DEF NoItem
<1> HIDE DEF rest
<1>4. QED
  BY <1>1, <1>2, <1>3 DEF Inventories

\* Giving an item changes one slot, which was empty when one item fills it.
LEMMA SlotGiven ==
  ASSUME NEW v \in Inventories, NEW i \in Items, Accepts(v, i)
  PROVE  \E s \in Slots :
           /\ v[s].item \in {i, "NIL"} /\ giveItem(v, i)[s].item = i
           /\ Stack[i] = 1 => v[s].item = "NIL"
           /\ \A t \in Slots : t # s => giveItem(v, i)[t] = v[t]
<1> DEFINE s == Min(IF Growing(v, i) # {} THEN Growing(v, i) ELSE SlotsWith(v, "NIL"))
           more == [item |-> i, stacks |-> v[s].stacks + 1]
<1>1. /\ s \in Slots /\ v[s].stacks \in Nat /\ v[s].stacks + 1 <= Stack[i]
      /\ v[s].item = i \/ (v[s].item = "NIL" /\ v[s].stacks = 0)
  BY GivenSlot
<1>2. giveItem(v, i) = [v EXCEPT ![s] = more] /\ more.item = i
  BY DEF giveItem
<1> HIDE DEF s, more
<1>3. Stack[i] = 1 => v[s].item = "NIL"
  <2> SUFFICES ASSUME Stack[i] = 1, v[s].item = i PROVE FALSE
    BY <1>1
  <2>1. v[s] \in Slot /\ i # "NIL"
    BY <1>1, StackFacts DEF Inventories
  <2>2. v[s].stacks \in 1 .. Stack[i]
    BY <2>1, SlotFacts DEF NoItem
  <2>3. QED
    BY <1>1, <2>2
<1>4. QED
  BY <1>1, <1>2, <1>3 DEF Inventories

-----------------------------------------------------------------------------
(* Doors.                                                                  *)

\* The doors and their traits, written out.
LEMMA DoorTable ==
  /\ Door =
      {"WALL", "EXIT", "DOORWAY",
       "KEEPER_EGRESS_KEYED", "KEEPER_EGRESS_KEYLESS", "KEEPER_INGRESS_KEYED", "KEEPER_INGRESS_KEYLESS",
       "JAILER_EGRESS_KEYED", "JAILER_EGRESS_KEYLESS", "JAILER_INGRESS_KEYED", "JAILER_INGRESS_KEYLESS",
       "LATCH_EGRESS_CLOSED", "LATCH_EGRESS_OPEN", "LATCH_INGRESS_CLOSED", "LATCH_INGRESS_OPEN",
       "SHARER_KEYED", "SHARER_KEYLESS",
       "SHIFTER_EGRESS_KEYED", "SHIFTER_EGRESS_KEYLESS", "SHIFTER_INGRESS_KEYED", "SHIFTER_INGRESS_KEYLESS",
       "TOGGLER_ORANGE_CLOSED", "TOGGLER_ORANGE_OPEN", "TOGGLER_BLUE_CLOSED", "TOGGLER_BLUE_OPEN",
       "COVENANT_OPEN", "COVENANT_CLOSED",
       "LIGHTNING_ROD_AWAKENED", "LIGHTNING_ROD_DORMANT", "LIGHTNING_ROD_EMPTY",
       "TIME_GATE_AWAKENED", "TIME_GATE_DORMANT", "TIME_GATE_EMPTY",
       "POLE_1_BOTTOM", "POLE_1_TOP", "LADDER_1_BOTTOM", "LADDER_1_TOP"}
  /\ DoorTraits["WALL"] = {"IS_DOOR_BLOCKING"} /\ DoorTraits["EXIT"] = {"IS_DOORWAY"}
  /\ DoorTraits["DOORWAY"] = Way({})
  /\ DoorTraits["KEEPER_EGRESS_KEYED"] = Way({"KEEPER", "KEYED", "EGRESS"})
  /\ DoorTraits["KEEPER_EGRESS_KEYLESS"] = Barred({"KEEPER", "EGRESS"})
  /\ DoorTraits["KEEPER_INGRESS_KEYED"] = Way({"KEEPER", "KEYED", "INGRESS"})
  /\ DoorTraits["KEEPER_INGRESS_KEYLESS"] = Barred({"KEEPER", "INGRESS"})
  /\ DoorTraits["JAILER_EGRESS_KEYED"] = Way({"JAILER", "KEYED", "EGRESS"})
  /\ DoorTraits["JAILER_EGRESS_KEYLESS"] = Barred({"JAILER", "EGRESS"})
  /\ DoorTraits["JAILER_INGRESS_KEYED"] = Way({"JAILER", "KEYED", "INGRESS"})
  /\ DoorTraits["JAILER_INGRESS_KEYLESS"] = Barred({"JAILER", "INGRESS"})
  /\ DoorTraits["LATCH_EGRESS_CLOSED"] = Barred({"LATCH", "EGRESS"})
  /\ DoorTraits["LATCH_EGRESS_OPEN"] = Way({"LATCH", "OPEN", "EGRESS"})
  /\ DoorTraits["LATCH_INGRESS_CLOSED"] = Barred({"LATCH", "INGRESS"})
  /\ DoorTraits["LATCH_INGRESS_OPEN"] = Way({"LATCH", "OPEN", "INGRESS"})
  /\ DoorTraits["SHARER_KEYED"] = Way({"SHARER", "KEYED"})
  /\ DoorTraits["SHARER_KEYLESS"] = Barred({"SHARER"})
  /\ DoorTraits["SHIFTER_EGRESS_KEYED"] = Way({"SHIFTER", "KEYED", "EGRESS"})
  /\ DoorTraits["SHIFTER_EGRESS_KEYLESS"] = Barred({"SHIFTER", "EGRESS"})
  /\ DoorTraits["SHIFTER_INGRESS_KEYED"] = Way({"SHIFTER", "KEYED", "INGRESS"})
  /\ DoorTraits["SHIFTER_INGRESS_KEYLESS"] = Barred({"SHIFTER", "INGRESS"})
  /\ DoorTraits["TOGGLER_ORANGE_CLOSED"] = Barred({}) /\ DoorTraits["TOGGLER_ORANGE_OPEN"] = Way({})
  /\ DoorTraits["TOGGLER_BLUE_CLOSED"] = Barred({}) /\ DoorTraits["TOGGLER_BLUE_OPEN"] = Way({})
  /\ DoorTraits["COVENANT_OPEN"] = Way({"COVENANT", "OPEN"})
  /\ DoorTraits["COVENANT_CLOSED"] = Barred({"COVENANT"})
  /\ \A d \in {"LIGHTNING_ROD_AWAKENED", "LIGHTNING_ROD_DORMANT", "LIGHTNING_ROD_EMPTY"} :
       DoorTraits[d] = {}
  /\ \A d \in {"TIME_GATE_AWAKENED", "TIME_GATE_DORMANT", "TIME_GATE_EMPTY"} :
       DoorTraits[d] = {"IS_DOOR_BLOCKING"}
  /\ DoorTraits["POLE_1_BOTTOM"] = {"IS_DOOR_BLOCKING", "IS_DOORWAY"}
  /\ \A d \in {"POLE_1_TOP", "LADDER_1_BOTTOM", "LADDER_1_TOP"} : DoorTraits[d] = {"IS_DOORWAY"}
BY DEF Door, DoorTraits

\* The traits that rules turn on and off, and the doors that have a lock.
LockTraits == {"IS_DOOR_BLOCKING", "KEYED", "OPEN"}
Lasting(door) == DoorTraits[door] \ LockTraits
HasLock(door) == DoorTraits[door] \cap Families # {}

Rods == {"LIGHTNING_ROD_AWAKENED", "LIGHTNING_ROD_DORMANT", "LIGHTNING_ROD_EMPTY"}
Shafts == {"POLE_1_TOP", "POLE_1_BOTTOM", "LADDER_1_TOP", "LADDER_1_BOTTOM"}
Blue == {"TOGGLER_BLUE_CLOSED", "TOGGLER_BLUE_OPEN"}
Orange == {"TOGGLER_ORANGE_CLOSED", "TOGGLER_ORANGE_OPEN"}
Fixed == {"WALL", "EXIT", "DOORWAY"} \cup Shafts
Covenants == {"COVENANT_OPEN", "COVENANT_CLOSED"}

\* Every door has a lock, or is of one of the kinds that the code tells by name.
LEMMA KindsOfDoors ==
  /\ \A d \in Door : HasLock(d) \/ d \in Fixed \cup Togglers \cup TimeGates \cup Rods
  /\ \A d \in Fixed \cup Togglers \cup TimeGates \cup Rods : d \in Door /\ ~ HasLock(d)
  /\ \A d \in TimeGates \cup Rods \cup Shafts : ~ isSharedDoorway(d)
  /\ \A d \in Togglers : isSharedDoorway(d) /\ DoorTraits[d] \cap {"INGRESS", "EGRESS"} = {}
  /\ \A d \in Door : HasLock(d) => isSharedDoorway(d)
BY DoorTable DEF HasLock, Fixed, Togglers, TimeGates, Rods, Shafts, Families, KeyFamilies, Way, Barred,
   isSharedDoorway

\* The covenant doors.
LEMMA CovenantDoors ==
  /\ \A d \in Door : "COVENANT" \in DoorTraits[d] => d \in Covenants
  /\ \A d \in Covenants : d \in Door /\ HasLock(d) /\ DoorTraits[d] \cap Families = {"COVENANT"}
                                     /\ "KEYED" \notin DoorTraits[d]
  /\ DoorTraits["COVENANT_OPEN"] = Way({"COVENANT", "OPEN"})
  /\ DoorTraits["COVENANT_CLOSED"] = Barred({"COVENANT"})
BY DoorTable DEF Covenants, HasLock, Families, KeyFamilies, Way, Barred

-----------------------------------------------------------------------------
(* Rules.                                                                  *)

\* A rule bars a door or opens it, and what it does with a key is what it does with
\* the trait KEYED.  Only the covenant's rule looks at other walls.
Opening(rule) == "IS_DOOR_BLOCKING" \in rule.clear
Barring(rule) == "IS_DOOR_BLOCKING" \in rule.set /\ (rule.clearance \/ "COVENANT" \in rule.match)
Shutting(rule) ==
  \/ rule.all = {} /\ ("COVENANT" \in rule.match => "IS_DOOR_BLOCKING" \in rule.set)
  \/ /\ rule.all = {"COVENANT"} /\ {"COVENANT", "IS_DOOR_BLOCKING"} \subseteq rule.match
     /\ rule.set = {"OPEN"} /\ rule.clear = {"IS_DOOR_BLOCKING"}
Takes(rule) ==
  /\ rule.takes # {} /\ rule.gives = {} /\ rule.match \cap KeyFamilies # {}
  /\ "KEYED" \in rule.unless /\ "KEYED" \in rule.set
Gives(rule) ==
  /\ rule.takes = {} /\ rule.gives # {} /\ rule.match \cap KeyFamilies # {}
  /\ "KEYED" \in rule.match /\ "KEYED" \in rule.clear
Keyless(rule) == rule.takes = {} /\ rule.gives = {} /\ "KEYED" \notin rule.set \cup rule.clear

IsRule(rule) ==
  /\ rule.match \cap Families # {}
  /\ rule.set \subseteq LockTraits /\ rule.clear \subseteq LockTraits /\ rule.set \cap rule.clear = {}
  /\ Opening(rule) \/ Barring(rule)
  /\ Shutting(rule)
  /\ Takes(rule) \/ Gives(rule) \/ Keyless(rule)

\* All the rules are such rules.
LEMMA RulesAreRules == \A i \in DOMAIN Rules : IsRule(Rules[i])
<1> USE DEF IsRule, Opening, Barring, Shutting, Takes, Gives, Keyless, LockTraits, Families, KeyFamilies
<1>1. ASSUME NEW match, match \cap KeyFamilies # {}, "KEYED" \in match, "COVENANT" \notin match
      PROVE  IsRule(KeyIn(match))
  BY <1>1 DEF KeyIn
<1>2. ASSUME NEW match, NEW clearance, match \cap KeyFamilies # {}, "COVENANT" \notin match
      PROVE  IsRule(KeyOut(match, clearance))
  BY <1>2 DEF KeyOut
<1>3. ASSUME NEW actor
      PROVE  /\ IsRule(Opens({"COVENANT", "IS_DOOR_BLOCKING"}, actor, {"COVENANT"}))
             /\ IsRule(Opens({"LATCH", "INGRESS", "IS_DOOR_BLOCKING"}, actor, {}))
             /\ IsRule(Shuts({"COVENANT", "OPEN"}, actor, FALSE))
             /\ IsRule(Shuts({"LATCH", "INGRESS", "OPEN"}, actor, TRUE))
  BY DEF Opens, Shuts
<1> HIDE DEF IsRule
<1>4. DOMAIN Rules = 1 .. 11
  BY DEF Rules
<1>5. /\ IsRule(Rules[1]) /\ IsRule(Rules[2]) /\ IsRule(Rules[6]) /\ IsRule(Rules[7])
  BY <1>3 DEF Rules
<1>6. IsRule(Rules[3]) /\ IsRule(Rules[8]) /\ IsRule(Rules[10])
  BY <1>1 DEF Rules
<1>7. IsRule(Rules[4]) /\ IsRule(Rules[5]) /\ IsRule(Rules[9]) /\ IsRule(Rules[11])
  BY <1>2 DEF Rules
<1>8. QED
  BY <1>4, <1>5, <1>6, <1>7

\* A door whose lock runs the rules has one, which matches it.
LEMMA TheRuleFacts ==
  ASSUME NEW door \in RuleDoors
  PROVE  IsRule(TheRule(door)) /\ TheRule(door).match \subseteq DoorTraits[door]
<1>1. DOMAIN Rules = 1 .. 11
  BY DEF Rules
<1>2. /\ Rules[1].match = {"COVENANT", "IS_DOOR_BLOCKING"}
      /\ Rules[3].match = {"KEEPER", "KEYED", "INGRESS"} /\ Rules[4].match = {"KEEPER", "INGRESS"}
      /\ Rules[5].match = {"JAILER", "INGRESS"}
      /\ Rules[6].match = {"LATCH", "INGRESS", "IS_DOOR_BLOCKING"}
      /\ Rules[7].match = {"LATCH", "INGRESS", "OPEN"}
      /\ Rules[9].match = {"SHARER"}
      /\ Rules[10].match = {"SHIFTER", "KEYED", "EGRESS"} /\ Rules[11].match = {"SHIFTER", "INGRESS"}
  BY DEF Rules, Opens, Shuts, KeyIn, KeyOut
<1>3. \E i \in 1 .. 11 : Rules[i].match \subseteq DoorTraits[door]
  BY <1>2, DoorTable DEF RuleDoors, Way, Barred
<1>4. Matching(door) \in SUBSET Nat /\ Matching(door) # {}
  BY <1>1, <1>3 DEF Matching
<1>5. Min(Matching(door)) \in Matching(door)
  BY <1>4, MinIsMember
<1>6. QED
  BY <1>5, RulesAreRules DEF TheRule, Matching

\* The doors whose lock runs the rules have a lock and a door on the other side.
LEMMA RuleDoorFacts == \A d \in RuleDoors : d \in Door /\ HasLock(d) /\ isSharedDoorway(d)
BY DoorTable DEF RuleDoors, HasLock, Families, KeyFamilies, Way, Barred, isSharedDoorway

\* The door sought by its traits has them.
LEMMA FoundDoor ==
  ASSUME NEW traits, HasDoor(traits)
  PROVE  findByTraits(traits) \in Door /\ DoorTraits[findByTraits(traits)] = traits
BY DEF HasDoor, findByTraits

-----------------------------------------------------------------------------
(* What becomes of a door.                                                 *)

\* A door stays of its kind.
SameKind(old, new) ==
  \/ new = old
  \/ HasLock(old) /\ HasLock(new) /\ Lasting(new) = Lasting(old)
  \/ \E kind \in {Blue, Orange, TimeGates, Rods} : {old, new} \subseteq kind

\* What all doors of a kind have in common.
LEMMA KindFacts ==
  ASSUME NEW old \in Door, NEW new \in Door, SameKind(old, new)
  PROVE  /\ isSharedDoorway(new) <=> isSharedDoorway(old)
         /\ HasLock(new) <=> HasLock(old)
         /\ \A kind \in {Blue, Orange, TimeGates, Rods} : new \in kind <=> old \in kind
         /\ old \in Fixed \/ new \in Fixed => new = old
<1>1. CASE HasLock(old) /\ HasLock(new)
  BY <1>1, KindsOfDoors DEF Fixed, Togglers, Blue, Orange
<1>2. CASE \E kind \in {Blue, Orange, TimeGates, Rods} : {old, new} \subseteq kind
  BY <1>2, KindsOfDoors DEF Fixed, Shafts, Togglers, Blue, Orange, TimeGates, Rods
<1>3. QED
  BY <1>1, <1>2 DEF SameKind

\* Kinds are classes.
LEMMA KindsAreClasses ==
  ASSUME NEW x \in Door, NEW y \in Door, NEW z \in Door, SameKind(x, y), SameKind(y, z)
  PROVE  SameKind(x, z)
<1>1. CASE z = y
  BY <1>1
<1>2. CASE HasLock(y) /\ HasLock(z) /\ Lasting(z) = Lasting(y)
  <2>1. HasLock(x)
    BY <1>2, KindFacts
  <2>2. x \notin Fixed \cup Togglers \cup TimeGates \cup Rods
    BY <2>1, KindsOfDoors
  <2>3. Lasting(x) = Lasting(y)
    BY <2>2 DEF SameKind, Togglers, Blue, Orange
  <2>4. QED
    BY <1>2, <2>1, <2>3 DEF SameKind
<1>3. ASSUME NEW kind \in {Blue, Orange, TimeGates, Rods}, y \in kind, z \in kind
      PROVE  SameKind(x, z)
  <2>1. x \in kind
    BY <1>3, KindFacts
  <2>2. QED
    BY <1>3, <2>1 DEF SameKind
<1>4. QED
  BY <1>1, <1>2, <1>3 DEF SameKind

\* What a rule makes of a door with a lock.
LEMMA RuledDoor ==
  ASSUME NEW rule, IsRule(rule), NEW door \in Door, HasLock(door), HasDoor(Becomes(rule, door))
  PROVE  LET new == findByTraits(Becomes(rule, door))
         IN  /\ new \in Door /\ DoorTraits[new] = Becomes(rule, door)
             /\ SameKind(door, new)
             /\ DoorTraits[new] \cap Families = DoorTraits[door] \cap Families
<1> DEFINE new == findByTraits(Becomes(rule, door))
<1>1. new \in Door /\ DoorTraits[new] = Becomes(rule, door)
  BY FoundDoor
<1> HIDE DEF new
<1>2. rule.set \subseteq LockTraits /\ rule.clear \subseteq LockTraits
  BY DEF IsRule
<1>3. Families \cap LockTraits = {}
  BY DEF Families, KeyFamilies, LockTraits
<1>4. Lasting(new) = Lasting(door)
  BY <1>1, <1>2 DEF Lasting, Becomes
<1>5. DoorTraits[new] \cap Families = DoorTraits[door] \cap Families
  BY <1>1, <1>2, <1>3 DEF Becomes
<1>6. QED
  BY <1>1, <1>4, <1>5 DEF SameKind, HasLock, new

\* A rule that shuts a family shuts the covenant doors and no others.
LEMMA ShutDoor ==
  ASSUME NEW rule, IsRule(rule), NEW door \in Door
  PROVE  LET shut == ShutWithAll(rule, door)
         IN  /\ shut \in Door /\ SameKind(door, shut)
             /\ rule.all = {} \/ door \notin Covenants => shut = door
             /\ rule.all # {} /\ door \in Covenants => shut = "COVENANT_CLOSED"
<1> DEFINE traits == (DoorTraits[door] \cup {"IS_DOOR_BLOCKING"}) \ {"OPEN"}
<1>1. rule.all = {} \/ rule.all = {"COVENANT"}
  BY DEF IsRule, Shutting
<1>2. CASE rule.all = {} \/ door \notin Covenants
  BY <1>1, <1>2, CovenantDoors DEF ShutWithAll, SameKind
<1>3. CASE rule.all = {"COVENANT"} /\ door \in Covenants
  <2>1. traits = Barred({"COVENANT"}) /\ "COVENANT" \in DoorTraits[door]
    BY <1>3, CovenantDoors DEF Covenants, Way, Barred
  <2>2. HasDoor(traits)
    BY <2>1, CovenantDoors DEF HasDoor, Covenants
  <2>3. ShutWithAll(rule, door) = findByTraits(traits)
    BY <1>3, <2>1, <2>2 DEF ShutWithAll
  <2> DEFINE shut == findByTraits(traits)
  <2>4. shut \in Door /\ DoorTraits[shut] = Barred({"COVENANT"})
    BY <2>1, <2>2, FoundDoor
  <2> HIDE DEF shut, traits
  <2>5. shut \in Covenants /\ shut # "COVENANT_OPEN"
    BY <2>4, CovenantDoors DEF Way, Barred
  <2>6. HasLock(door) /\ HasLock(shut) /\ Lasting(door) = Lasting(shut)
    BY <1>3, <2>5, CovenantDoors DEF Covenants, Lasting, LockTraits, Way, Barred
  <2>7. QED
    BY <1>3, <2>3, <2>4, <2>5, <2>6 DEF Covenants, SameKind, shut
<1>4. QED
  BY <1>1, <1>2, <1>3

-----------------------------------------------------------------------------
(* Walls.                                                                  *)

\* The far side of the far side is the near side.
LEMMA FlipFacts == \A d \in Dirs : Flip(d) \in Dirs /\ Flip(d) # d /\ Flip(Flip(d)) = d
BY DEF Dirs, Flip

\* The doors are where they were, each of its kind.
DoorsStay ==
  /\ dungeon \in Dungeons
  /\ doors \in [Rooms -> [Dirs -> Door]]
  /\ isBlueOpen \in BOOLEAN
  /\ \A r \in Rooms, d \in Dirs : SameKind(dungeon.doors[r][d], doors[r][d])

DoorInv == DoorsStay /\ DoorsAgree

\* The grid.
LEMMA GridFacts ==
  ASSUME dungeon \in Dungeons
  PROVE  /\ RoomZero \in Rooms /\ NoRoom \notin Rooms
         /\ Adjacent \in [Rooms -> [Dirs -> Rooms \cup {NoRoom}]]
         /\ Above \in [Rooms -> Rooms \cup {NoRoom}] /\ Below \in [Rooms -> Rooms \cup {NoRoom}]
         /\ \A r, n \in Rooms :
              /\ \A d \in Dirs : Adjacent[r][d] = n => Adjacent[n][Flip(d)] = r
              /\ Above[r] = n <=> Below[n] = r
BY DungeonAssumption DEF IsDungeon, IsGrid, Rooms, RoomZero, Adjacent, Above, Below

\* The doors as the match starts.
LEMMA FirstDoors ==
  ASSUME dungeon \in Dungeons
  PROVE  /\ dungeon.doors \in [Rooms -> [Dirs -> Door \ Later]]
         /\ \A r \in Rooms, d \in Dirs :
              LET door == dungeon.doors[r][d]
                  back == dungeon.doors[Adjacent[r][d]][Flip(d)]
              IN  /\ isSharedDoorway(door) => Adjacent[r][d] \in Rooms /\ Mates(door, back)
                  /\ door \in Togglers => back = door
                  /\ door \in DOMAIN Foot => Below[r] \in Rooms /\ dungeon.doors[Below[r]][d] = Foot[door]
                  /\ door = "LADDER_1_BOTTOM" =>
                       Above[r] \in Rooms /\ dungeon.doors[Above[r]][d] = "LADDER_1_TOP"
         /\ DOMAIN GateTo \subseteq Rooms
         /\ \A r \in DOMAIN GateTo : GateTo[r] \in DOMAIN GateTo /\ dungeon.doors[r][North] \in TimeGates
BY DungeonAssumption DEF IsDungeon, IsFurnished, Rooms, Adjacent, Above, Below, GateTo

\* Shared doorways keep two sides.
LEMMA TwoSides ==
  ASSUME DoorsStay, NEW r \in Rooms, NEW d \in Dirs, isSharedDoorway(doors[r][d])
  PROVE  LET n == Adjacent[r][d]
         IN  /\ n \in Rooms /\ Adjacent[n][Flip(d)] = r /\ Opposite(n, Flip(d)) = <<r, d>>
             /\ <<n, Flip(d)>> # <<r, d>>
             /\ isSharedDoorway(doors[n][Flip(d)])
             /\ \A kind \in {Blue, Orange} : doors[r][d] \in kind => doors[n][Flip(d)] \in kind
<1> DEFINE n == Adjacent[r][d]
           first == dungeon.doors[r][d]
           back == dungeon.doors[n][Flip(d)]
<1>1. first \in Door /\ doors[r][d] \in Door /\ SameKind(first, doors[r][d])
  BY FirstDoors DEF DoorsStay
<1>2. /\ isSharedDoorway(first)
      /\ \A kind \in {Blue, Orange} : doors[r][d] \in kind => first \in kind
  BY <1>1, KindFacts
<1>3. n \in Rooms /\ Mates(first, back) /\ (first \in Togglers => back = first)
  BY <1>2, FirstDoors DEF DoorsStay
<1>4. Flip(d) \in Dirs /\ Flip(d) # d /\ Flip(Flip(d)) = d
  BY FlipFacts
<1>5. Adjacent[n][Flip(d)] = r
  BY <1>3, GridFacts DEF DoorsStay
<1>6. back \in Door /\ doors[n][Flip(d)] \in Door /\ SameKind(back, doors[n][Flip(d)])
  BY <1>3, <1>4, FirstDoors DEF DoorsStay
<1>7. isSharedDoorway(back)
  BY <1>2, <1>3 DEF Mates, isSharedDoorway
<1>8. isSharedDoorway(doors[n][Flip(d)])
  BY <1>6, <1>7, KindFacts
<1>9. ASSUME NEW kind \in {Blue, Orange}, doors[r][d] \in kind
      PROVE  doors[n][Flip(d)] \in kind
  <2>1. first \in kind /\ first \in Togglers
    BY <1>2, <1>9 DEF Blue, Orange, Togglers
  <2>2. back \in kind
    BY <1>3, <2>1
  <2>3. QED
    BY <1>6, <2>2, KindFacts
<1>10. QED
  BY <1>3, <1>4, <1>5, <1>8, <1>9 DEF Opposite

\* The doors stay when each turns into one of its kind.
LEMMA DoorsStayPut ==
  ASSUME DoorsStay, UNCHANGED dungeon, isBlueOpen' \in BOOLEAN,
         doors' \in [Rooms -> [Dirs -> Door]],
         \A r \in Rooms, d \in Dirs : SameKind(doors[r][d], doors'[r][d])
  PROVE  DoorsStay'
<1>1. \A r \in Rooms, d \in Dirs : SameKind(dungeon.doors[r][d], doors'[r][d])
  <2> SUFFICES ASSUME NEW r \in Rooms, NEW d \in Dirs
               PROVE  SameKind(dungeon.doors[r][d], doors'[r][d])
    OBVIOUS
  <2>1. dungeon.doors[r][d] \in Door /\ doors[r][d] \in Door /\ doors'[r][d] \in Door
    BY FirstDoors DEF DoorsStay
  <2>2. SameKind(dungeon.doors[r][d], doors[r][d])
    BY DEF DoorsStay
  <2>3. QED
    BY <2>1, <2>2, KindsAreClasses
<1>2. Rooms' = Rooms
  BY DEF Rooms
<1>3. QED
  BY <1>1, <1>2 DEF DoorsStay

-----------------------------------------------------------------------------
(* Turning a lock.                                                         *)

\* Both sides of a shared doorway have the traits that are not a side's.
LEMMA FarSide ==
  ASSUME DoorInv, NEW r \in Rooms, NEW d \in Dirs, isSharedDoorway(doors[r][d])
  PROVE  LET near == doors[r][d]
             far == doors[Adjacent[r][d]][Flip(d)]
         IN  /\ far \in Door /\ isSharedDoorway(far) /\ Mates(near, far)
             /\ HasLock(near) => HasLock(far)
             /\ DoorTraits[near] \cap Families = DoorTraits[far] \cap Families
             /\ \A t \in LockTraits : t \in DoorTraits[near] <=> t \in DoorTraits[far]
<1> DEFINE near == doors[r][d]
           far == doors[Adjacent[r][d]][Flip(d)]
<1>1. far \in Door /\ isSharedDoorway(far)
  BY TwoSides, FlipFacts DEF DoorInv, DoorsStay
<1>2. Mates(near, far)
  BY DEF DoorInv, DoorsAgree, SidesAgree
<1> HIDE DEF near, far
<1>3. /\ DoorTraits[near] \cap Families = DoorTraits[far] \cap Families
      /\ \A t \in LockTraits : t \in DoorTraits[near] <=> t \in DoorTraits[far]
  BY <1>2 DEF Mates, Families, KeyFamilies, LockTraits
<1>4. QED
  BY <1>1, <1>2, <1>3 DEF HasLock, near, far

\* What a lock is when its rule is found, and what the rule makes of the doors.
LEMMA LockTurned ==
  ASSUME DoorInv, NEW r \in Rooms, NEW d \in Dirs, NEW rule,
         doors[r][d] \in RuleDoors, rule = TheRule(doors[r][d]),
         HasDoor(Becomes(rule, doors[r][d])),
         HasDoor(Becomes(rule, doors[Adjacent[r][d]][Flip(d)])),
         doors' = setSharedDoorsByTrait(rule, r, d)
  PROVE  /\ IsRule(rule) /\ isSharedDoorway(doors[r][d])
         /\ doors' \in [Rooms -> [Dirs -> Door]]
         /\ \A q \in Rooms, e \in Dirs : <<q, e>> \in {<<r, d>>, Opposite(r, d)} =>
              /\ rule.match \cap Families \subseteq DoorTraits[doors[q][e]] /\ HasLock(doors[q][e])
              /\ rule.match \cap LockTraits \subseteq DoorTraits[doors[q][e]]
              /\ DoorTraits[doors'[q][e]] = Becomes(rule, doors[q][e])
              /\ DoorTraits[doors'[q][e]] \cap Families = DoorTraits[doors[q][e]] \cap Families
         /\ \A q \in Rooms, e \in Dirs : <<q, e>> \notin {<<r, d>>, Opposite(r, d)} =>
              doors'[q][e] = ShutWithAll(rule, doors[q][e])
         /\ \A q \in Rooms, e \in Dirs : SameKind(doors[q][e], doors'[q][e])
<1> DEFINE near == doors[r][d]
           n == Adjacent[r][d]
           far == doors[n][Flip(d)]
           cells == {<<r, d>>, Opposite(r, d)}
<1>1. /\ IsRule(rule) /\ rule.match \subseteq DoorTraits[near]
      /\ near \in Door /\ HasLock(near) /\ isSharedDoorway(near)
  BY TheRuleFacts, RuleDoorFacts
<1>2. n \in Rooms /\ Opposite(r, d) = <<n, Flip(d)>> /\ Flip(d) \in Dirs
  BY <1>1, TwoSides, FlipFacts DEF DoorInv, Opposite
<1>3. ASSUME NEW q \in Rooms, NEW e \in Dirs, <<q, e>> \in cells
      PROVE  /\ doors[q][e] \in Door /\ HasLock(doors[q][e])
             /\ rule.match \cap Families \subseteq DoorTraits[doors[q][e]]
             /\ rule.match \cap LockTraits \subseteq DoorTraits[doors[q][e]]
             /\ HasDoor(Becomes(rule, doors[q][e]))
  <2>1. CASE q = r /\ e = d
    BY <1>1, <2>1
  <2>2. CASE q = n /\ e = Flip(d)
    BY <1>1, <1>2, <2>2, FarSide
  <2>3. QED
    BY <1>2, <1>3, <2>1, <2>2
<1>4. ASSUME NEW q \in Rooms, NEW e \in Dirs, <<q, e>> \in cells
      PROVE  ShutWithAll(rule, doors[q][e]) = doors[q][e]
  <2>1. CASE rule.all = {}
    BY <1>1, <1>3, <1>4, <2>1, ShutDoor
  <2>2. CASE rule.all = {"COVENANT"} /\ {"COVENANT", "IS_DOOR_BLOCKING"} \subseteq rule.match
    <3>1. "COVENANT" \in DoorTraits[doors[q][e]] /\ "IS_DOOR_BLOCKING" \in DoorTraits[doors[q][e]]
      BY <1>3, <1>4, <2>2 DEF Families, LockTraits
    <3>2. doors[q][e] = "COVENANT_CLOSED"
      BY <1>3, <1>4, <3>1, CovenantDoors DEF Covenants, Way
    <3>3. QED
      BY <1>1, <1>3, <1>4, <2>2, <3>2, ShutDoor DEF Covenants
  <2>3. QED
    BY <1>1, <2>1, <2>2 DEF IsRule, Shutting
<1>5. \A q \in Rooms, e \in Dirs :
        doors'[q][e] = IF <<q, e>> \in cells
                         THEN findByTraits(Becomes(rule, ShutWithAll(rule, doors[q][e])))
                         ELSE ShutWithAll(rule, doors[q][e])
  BY DEF setSharedDoorsByTrait
<1>6. ASSUME NEW q \in Rooms, NEW e \in Dirs, <<q, e>> \in cells
      PROVE  /\ doors'[q][e] = findByTraits(Becomes(rule, doors[q][e]))
             /\ doors'[q][e] \in Door /\ DoorTraits[doors'[q][e]] = Becomes(rule, doors[q][e])
             /\ SameKind(doors[q][e], doors'[q][e])
             /\ DoorTraits[doors'[q][e]] \cap Families = DoorTraits[doors[q][e]] \cap Families
  <2>1. doors'[q][e] = findByTraits(Becomes(rule, doors[q][e]))
    BY <1>4, <1>5, <1>6
  <2>2. QED
    BY <1>1, <1>3, <1>6, <2>1, RuledDoor
<1>7. ASSUME NEW q \in Rooms, NEW e \in Dirs, <<q, e>> \notin cells
      PROVE  /\ doors'[q][e] = ShutWithAll(rule, doors[q][e])
             /\ doors'[q][e] \in Door /\ SameKind(doors[q][e], doors'[q][e])
  <2>1. doors'[q][e] = ShutWithAll(rule, doors[q][e]) /\ doors[q][e] \in Door
    BY <1>5, <1>7 DEF DoorInv, DoorsStay
  <2>2. QED
    BY <1>1, <2>1, ShutDoor
<1>8. doors' \in [Rooms -> [Dirs -> Door]]
  <2>1. \A q \in Rooms, e \in Dirs : doors'[q][e] \in Door
    BY <1>6, <1>7
  <2> DEFINE D(q, e) == doors'[q][e]
  <2>2. doors' = [q \in Rooms |-> [e \in Dirs |-> D(q, e)]]
    BY DEF setSharedDoorsByTrait
  <2>3. \A q \in Rooms, e \in Dirs : D(q, e) \in Door
    BY <2>1
  <2> HIDE DEF D
  <2>4. QED
    BY <2>2, <2>3
<1>9. QED
  BY <1>1, <1>3, <1>6, <1>7, <1>8

\* The opposite walls, which a dungeon keeps.
LEMMA SameWalls ==
  ASSUME UNCHANGED dungeon
  PROVE  /\ Rooms' = Rooms /\ Adjacent' = Adjacent /\ Above' = Above /\ Below' = Below
         /\ GateTo' = GateTo /\ Characters' = Characters /\ Players' = Players /\ RoomZero' = RoomZero
         /\ Floors' = Floors /\ Switches' = Switches /\ Actions' = Actions /\ Moves' = Moves
         /\ \A r, d : Opposite(r, d)' = Opposite(r, d)
BY DEF Rooms, Adjacent, Above, Below, GateTo, Characters, FirstLocation, Players, Bag, RoomZero, Opposite,
   Floors, Switches, Actions, Moves

\* A rule makes mates of mates, for it treats both alike.
LEMMA RuledMates ==
  ASSUME NEW rule, IsRule(rule), NEW x, NEW y, NEW newX, NEW newY, Mates(x, y),
         DoorTraits[newX] = Becomes(rule, x), DoorTraits[newY] = Becomes(rule, y)
  PROVE  Mates(newX, newY)
BY DEF Mates, Becomes, IsRule, LockTraits

\* Doors that are covenant's or not both at once stay mates when all are shut.
LEMMA ShutMates ==
  ASSUME NEW rule, IsRule(rule), NEW x \in Door, NEW y \in Door, Mates(x, y)
  PROVE  Mates(ShutWithAll(rule, x), ShutWithAll(rule, y))
<1>1. x \in Covenants <=> y \in Covenants
  BY CovenantDoors DEF Mates
<1>2. CASE rule.all # {} /\ x \in Covenants
  <2>1. ShutWithAll(rule, x) = "COVENANT_CLOSED" /\ ShutWithAll(rule, y) = "COVENANT_CLOSED"
    BY <1>1, <1>2, ShutDoor
  <2>2. QED
    BY <2>1, CovenantDoors DEF Mates, Way, Barred
<1>3. CASE rule.all = {} \/ x \notin Covenants
  BY <1>1, <1>3, ShutDoor
<1>4. QED
  BY <1>2, <1>3

\* A lock turns the doors of one wall, and shuts other covenant doors, so that the
\* doors agree as before.
LEMMA LockKeepsDoors ==
  ASSUME DoorInv, UNCHANGED <<dungeon, isBlueOpen>>, NEW r \in Rooms, NEW d \in Dirs, NEW rule,
         doors[r][d] \in RuleDoors, rule = TheRule(doors[r][d]),
         HasDoor(Becomes(rule, doors[r][d])),
         HasDoor(Becomes(rule, doors[Adjacent[r][d]][Flip(d)])),
         doors' = setSharedDoorsByTrait(rule, r, d)
  PROVE  DoorInv'
<1> DEFINE cells == {<<r, d>>, Opposite(r, d)}
<1>1. /\ IsRule(rule) /\ isSharedDoorway(doors[r][d])
      /\ doors' \in [Rooms -> [Dirs -> Door]]
      /\ \A q \in Rooms, e \in Dirs : <<q, e>> \in cells =>
           /\ rule.match \cap Families \subseteq DoorTraits[doors[q][e]] /\ HasLock(doors[q][e])
           /\ DoorTraits[doors'[q][e]] = Becomes(rule, doors[q][e])
           /\ DoorTraits[doors'[q][e]] \cap Families = DoorTraits[doors[q][e]] \cap Families
      /\ \A q \in Rooms, e \in Dirs : <<q, e>> \notin cells =>
           doors'[q][e] = ShutWithAll(rule, doors[q][e])
      /\ \A q \in Rooms, e \in Dirs : SameKind(doors[q][e], doors'[q][e])
  BY LockTurned
<1>2. DoorsStay'
  BY <1>1, DoorsStayPut DEF DoorInv, DoorsStay
<1>3. /\ \A q \in Rooms, e \in Dirs : doors[q][e] \in Door /\ doors'[q][e] \in Door
      /\ Rooms' = Rooms /\ Adjacent' = Adjacent /\ \A q, e : Opposite(q, e)' = Opposite(q, e)
  BY <1>1, SameWalls DEF DoorInv, DoorsStay
<1>4. Opposite(r, d)[1] \in Rooms /\ Opposite(r, d)[2] \in Dirs
      /\ Opposite(Opposite(r, d)[1], Opposite(r, d)[2]) = <<r, d>>
  BY <1>1, TwoSides, FlipFacts DEF DoorInv, Opposite
<1>5. SidesAgree'
  <2> SUFFICES ASSUME NEW q \in Rooms, NEW e \in Dirs, isSharedDoorway(doors'[q][e])
               PROVE  Mates(doors'[q][e], doors'[Adjacent[q][e]][Flip(e)])
    BY <1>3 DEF SidesAgree
  <2> DEFINE m == Adjacent[q][e]
             f == Flip(e)
  <2>1. isSharedDoorway(doors[q][e])
    BY <1>1, <1>3, KindFacts
  <2>2. /\ m \in Rooms /\ f \in Dirs /\ Opposite(m, f) = <<q, e>> /\ Opposite(q, e) = <<m, f>>
        /\ Mates(doors[q][e], doors[m][f])
    BY <2>1, TwoSides, FarSide, FlipFacts DEF DoorInv, Opposite
  <2> HIDE DEF m, f
  <2>3. <<q, e>> \in cells <=> <<m, f>> \in cells
    <3>1. <<q, e>> = <<r, d>> => <<m, f>> = Opposite(r, d)
      BY <2>2
    <3>2. <<q, e>> = Opposite(r, d) => <<m, f>> = <<r, d>>
      BY <1>4, <2>2
    <3>3. <<m, f>> = <<r, d>> => <<q, e>> = Opposite(r, d)
      BY <2>2
    <3>4. <<m, f>> = Opposite(r, d) => <<q, e>> = <<r, d>>
      BY <1>4, <2>2
    <3>5. QED
      BY <3>1, <3>2, <3>3, <3>4
  <2>4. CASE <<q, e>> \in cells
    BY <1>1, <2>2, <2>3, <2>4, RuledMates DEF m, f
  <2>5. CASE <<q, e>> \notin cells
    BY <1>1, <1>3, <2>2, <2>3, <2>5, ShutMates DEF m, f
  <2>6. QED
    BY <2>4, <2>5
<1>6. OneCovenantAtATime'
  <2>1. CASE rule.all = {}
    <3>1. ASSUME NEW q \in Rooms, NEW e \in Dirs, <<q, e>> \in cells
          PROVE  doors'[q][e] # "COVENANT_OPEN"
      <4>1. rule.match \cap Families # {}
        BY <1>1 DEF IsRule
      <4>2. CASE "COVENANT" \in rule.match
        <5>1. "IS_DOOR_BLOCKING" \in rule.set /\ rule.set \cap rule.clear = {}
          BY <1>1, <2>1, <4>2 DEF IsRule, Shutting
        <5>2. "IS_DOOR_BLOCKING" \in DoorTraits[doors'[q][e]]
          BY <1>1, <3>1, <5>1 DEF Becomes
        <5>3. QED
          BY <5>2, CovenantDoors DEF Way
      <4>3. CASE "COVENANT" \notin rule.match
        <5>1. DoorTraits[doors'[q][e]] \cap Families # {"COVENANT"}
          BY <1>1, <3>1, <4>1, <4>3
        <5>2. QED
          BY <5>1, CovenantDoors DEF Covenants
      <4>4. QED
        BY <4>2, <4>3
    <3>2. \A q \in Rooms, e \in Dirs : doors'[q][e] = "COVENANT_OPEN" => doors[q][e] = "COVENANT_OPEN"
      BY <1>1, <1>3, <2>1, <3>1, ShutDoor
    <3>3. QED
      BY <1>3, <3>2 DEF OneCovenantAtATime, DoorInv, DoorsAgree
  <2>2. CASE rule.all # {}
    <3>1. \A q \in Rooms, e \in Dirs : doors'[q][e] = "COVENANT_OPEN" => <<q, e>> \in cells
      BY <1>1, <1>3, <2>2, ShutDoor DEF Covenants
    <3>2. ASSUME NEW q \in Rooms, NEW e \in Dirs, NEW q2 \in Rooms, NEW e2 \in Dirs,
                 <<q, e>> \in cells, <<q2, e2>> \in cells
          PROVE  <<q2, e2>> \in {<<q, e>>, Opposite(q, e)}
      BY <1>4, <3>2
    <3>3. QED
      BY <1>3, <3>1, <3>2 DEF OneCovenantAtATime
  <2>3. QED
    BY <2>1, <2>2
<1>7. ColoursFollowThePhase'
  <2>1. \A q \in Rooms, e \in Dirs : doors'[q][e] \in Togglers => doors'[q][e] = doors[q][e]
    <3> SUFFICES ASSUME NEW q \in Rooms, NEW e \in Dirs, doors'[q][e] \in Togglers
                 PROVE  doors'[q][e] = doors[q][e]
      OBVIOUS
    <3>1. ~ HasLock(doors[q][e])
      BY <1>1, <1>3, KindFacts, KindsOfDoors
    <3>2. doors'[q][e] = ShutWithAll(rule, doors[q][e])
      BY <1>1, <3>1
    <3>3. QED
      BY <1>1, <1>3, <3>1, <3>2, CovenantDoors, ShutDoor
  <2>2. QED
    BY <1>3, <2>1 DEF ColoursFollowThePhase, Togglers, DoorInv, DoorsAgree
<1>8. QED
  BY <1>2, <1>5, <1>6, <1>7 DEF DoorInv, DoorsAgree

-----------------------------------------------------------------------------
(* Other steps that change doors.                                          *)

\* The same door on both sides of a blue or orange doorway.
LEMMA SameColourMates ==
  /\ \A x, y \in {"TOGGLER_BLUE_CLOSED", "TOGGLER_ORANGE_CLOSED"} : Mates(x, y)
  /\ \A x, y \in {"TOGGLER_BLUE_OPEN", "TOGGLER_ORANGE_OPEN"} : Mates(x, y)
BY DoorTable DEF Mates, Way, Barred

\* A switch turns all doors of both colours with the phase.
LEMMA SwitchKeepsDoors ==
  ASSUME DoorInv, UNCHANGED dungeon, isBlueOpen' = ~ isBlueOpen, doors' = toggleDoors(~ isBlueOpen)
  PROVE  DoorInv'
<1>1. /\ \A r \in Rooms, d \in Dirs : doors[r][d] \in Door
      /\ Rooms' = Rooms /\ Adjacent' = Adjacent /\ \A q, e : Opposite(q, e)' = Opposite(q, e)
      /\ isBlueOpen \in BOOLEAN /\ isBlueOpen' \in BOOLEAN
  BY SameWalls DEF DoorInv, DoorsStay
<1>2. \A r \in Rooms, d \in Dirs :
        /\ doors[r][d] \in Blue =>
             doors'[r][d] = IF isBlueOpen' THEN "TOGGLER_BLUE_OPEN" ELSE "TOGGLER_BLUE_CLOSED"
        /\ doors[r][d] \in Orange =>
             doors'[r][d] = IF isBlueOpen' THEN "TOGGLER_ORANGE_CLOSED" ELSE "TOGGLER_ORANGE_OPEN"
        /\ doors[r][d] \notin Blue \cup Orange => doors'[r][d] = doors[r][d]
  BY DEF toggleDoors, Blue, Orange
<1>3. \A r \in Rooms, d \in Dirs :
        /\ doors'[r][d] \in Blue <=> doors[r][d] \in Blue
        /\ doors'[r][d] \in Orange <=> doors[r][d] \in Orange
        /\ doors'[r][d] \in Door /\ SameKind(doors[r][d], doors'[r][d])
  <2> SUFFICES ASSUME NEW r \in Rooms, NEW d \in Dirs
               PROVE  /\ doors'[r][d] \in Blue <=> doors[r][d] \in Blue
                      /\ doors'[r][d] \in Orange <=> doors[r][d] \in Orange
                      /\ doors'[r][d] \in Door /\ SameKind(doors[r][d], doors'[r][d])
    OBVIOUS
  <2>1. CASE doors[r][d] \in Blue
    BY <1>1, <1>2, <2>1, DoorTable DEF Blue, Orange, SameKind
  <2>2. CASE doors[r][d] \in Orange
    BY <1>1, <1>2, <2>2, DoorTable DEF Blue, Orange, SameKind
  <2>3. CASE doors[r][d] \notin Blue \cup Orange
    BY <1>1, <1>2, <2>3 DEF SameKind
  <2>4. QED
    BY <2>1, <2>2, <2>3
<1>4. DoorsStay'
  <2>1. doors' \in [Rooms -> [Dirs -> Door]]
    <3> DEFINE D(r, d) == doors'[r][d]
    <3>1. doors' = [r \in Rooms |-> [d \in Dirs |-> D(r, d)]]
      BY DEF toggleDoors
    <3>2. \A r \in Rooms, d \in Dirs : D(r, d) \in Door
      BY <1>3
    <3> HIDE DEF D
    <3>3. QED
      BY <3>1, <3>2
  <2>2. QED
    BY <1>1, <1>3, <2>1, DoorsStayPut DEF DoorInv
<1>5. SidesAgree'
  <2> SUFFICES ASSUME NEW r \in Rooms, NEW d \in Dirs, isSharedDoorway(doors'[r][d])
               PROVE  Mates(doors'[r][d], doors'[Adjacent[r][d]][Flip(d)])
    BY <1>1 DEF SidesAgree
  <2> DEFINE n == Adjacent[r][d]
             f == Flip(d)
  <2>1. isSharedDoorway(doors[r][d])
    BY <1>1, <1>3, KindFacts
  <2>2. /\ n \in Rooms /\ f \in Dirs /\ Opposite(n, f) = <<r, d>> /\ isSharedDoorway(doors[n][f])
        /\ \A kind \in {Blue, Orange} : doors[r][d] \in kind => doors[n][f] \in kind
        /\ Adjacent[n][f] = r /\ Flip(f) = d
    BY <2>1, TwoSides, FlipFacts DEF DoorInv
  <2>3. \A kind \in {Blue, Orange} : doors[n][f] \in kind => doors[r][d] \in kind
    BY <2>2, TwoSides DEF DoorInv
  <2> HIDE DEF n, f
  <2>4. CASE doors[r][d] \in Blue
    BY <1>2, <2>2, <2>4, SameColourMates DEF n, f
  <2>5. CASE doors[r][d] \in Orange
    BY <1>2, <2>2, <2>5, SameColourMates DEF n, f
  <2>6. CASE doors[r][d] \notin Blue \cup Orange
    <3>1. doors'[r][d] = doors[r][d] /\ doors'[n][f] = doors[n][f]
      BY <1>2, <2>2, <2>3, <2>6
    <3>2. QED
      BY <2>1, <3>1, FarSide DEF n, f
  <2>7. QED
    BY <2>4, <2>5, <2>6
<1>6. OneCovenantAtATime'
  <2>1. \A r \in Rooms, d \in Dirs : doors'[r][d] = "COVENANT_OPEN" => doors[r][d] = "COVENANT_OPEN"
    BY <1>2, <1>3 DEF Blue, Orange
  <2>2. QED
    BY <1>1, <2>1 DEF OneCovenantAtATime, DoorInv, DoorsAgree
<1>7. ColoursFollowThePhase'
  BY <1>1, <1>2, <1>3 DEF ColoursFollowThePhase, Blue, Orange
<1>8. QED
  BY <1>4, <1>5, <1>6, <1>7 DEF DoorInv, DoorsAgree

\* Time gates and rods stand alone: turning some of them into others of their kind
\* concerns no other door.
LEMMA AloneKeepsDoors ==
  ASSUME DoorInv, UNCHANGED <<dungeon, isBlueOpen>>, doors' \in [Rooms -> [Dirs -> Door]],
         \A r \in Rooms, d \in Dirs :
           \/ doors'[r][d] = doors[r][d]
           \/ \E kind \in {TimeGates, Rods} : doors[r][d] \in kind /\ doors'[r][d] \in kind
  PROVE  DoorInv'
<1>1. /\ \A r \in Rooms, d \in Dirs : doors[r][d] \in Door /\ doors'[r][d] \in Door
      /\ Rooms' = Rooms /\ Adjacent' = Adjacent /\ \A q, e : Opposite(q, e)' = Opposite(q, e)
  BY SameWalls DEF DoorInv, DoorsStay
<1>2. \A r \in Rooms, d \in Dirs :
        doors'[r][d] \in Covenants \cup Togglers \/ isSharedDoorway(doors[r][d])
          \/ isSharedDoorway(doors'[r][d]) => doors'[r][d] = doors[r][d]
  BY <1>1, KindsOfDoors DEF Covenants, Togglers, TimeGates, Rods
<1>3. DoorsStay'
  BY <1>1, DoorsStayPut DEF DoorInv, DoorsStay, SameKind
<1>4. SidesAgree'
  <2> SUFFICES ASSUME NEW r \in Rooms, NEW d \in Dirs, isSharedDoorway(doors'[r][d])
               PROVE  Mates(doors'[r][d], doors'[Adjacent[r][d]][Flip(d)])
    BY <1>1 DEF SidesAgree
  <2>1. doors'[r][d] = doors[r][d]
    BY <1>2
  <2>2. /\ Adjacent[r][d] \in Rooms /\ Flip(d) \in Dirs
        /\ isSharedDoorway(doors[Adjacent[r][d]][Flip(d)])
        /\ Mates(doors[r][d], doors[Adjacent[r][d]][Flip(d)])
    BY <2>1, TwoSides, FarSide, FlipFacts DEF DoorInv
  <2>3. QED
    BY <1>2, <2>1, <2>2
<1>5. OneCovenantAtATime' /\ ColoursFollowThePhase'
  BY <1>1, <1>2 DEF OneCovenantAtATime, ColoursFollowThePhase, Covenants, Togglers, DoorInv, DoorsAgree
<1>6. QED
  BY <1>3, <1>4, <1>5 DEF DoorInv, DoorsAgree

\* As the match starts, doors come in pairs and nothing is open that a lock or a
\* switch opens later.
LEMMA FirstDoorsAgree == Init => DoorInv
<1> SUFFICES ASSUME Init PROVE DoorInv
  OBVIOUS
<1>1. dungeon \in Dungeons /\ doors = dungeon.doors /\ isBlueOpen = FALSE
  BY DEF Init
<1>2. doors \in [Rooms -> [Dirs -> Door \ Later]]
  BY <1>1, FirstDoors
<1>3. \A r \in Rooms, d \in Dirs : doors[r][d] \in Door /\ doors[r][d] \notin Later
  BY <1>2
<1>4. doors \in [Rooms -> [Dirs -> Door]]
  BY <1>2
<1>5. DoorsStay
  BY <1>1, <1>4 DEF DoorsStay, SameKind
<1>6. SidesAgree
  BY <1>1, FirstDoors DEF SidesAgree
<1>7. OneCovenantAtATime /\ ColoursFollowThePhase
  BY <1>1, <1>3 DEF OneCovenantAtATime, ColoursFollowThePhase, Later
<1>8. QED
  BY <1>5, <1>6, <1>7 DEF DoorInv, DoorsAgree

\* What an exchange of cubes does: a gate or a rod takes or gives a cube.
LEMMA ExchangeFacts ==
  ASSUME NEW v \in Inventories, NEW door, NEW x \in Exchange(door, v)
  PROVE  /\ x.bag \in Inventories /\ Held(x.bag, "KEY") = Held(v, "KEY")
         /\ \E kind \in {TimeGates, Rods} : door \in kind /\ x.door \in kind
<1>1. \A i \in {"CUBE_AWAKENED", "CUBE_DORMANT"} : i \in Items /\ i # "KEY"
  BY DEF Items, Stack
<1>2. "KEY" \in Items
  BY DEF Items, Stack
<1>3. \E i \in {"CUBE_AWAKENED", "CUBE_DORMANT"}, to \in TimeGates \cup Rods :
        \/ Accepts(v, i) /\ x = Drain(v, i, to)
        \/ Has(v, i) /\ x = Fill(v, i, to)
  BY DEF Exchange, TimeGates, Rods
<1>4. \E kind \in {TimeGates, Rods} : door \in kind /\ x.door \in kind
  BY DEF Exchange, TimeGates, Rods, Drain, Fill
<1>5. PICK i \in {"CUBE_AWAKENED", "CUBE_DORMANT"} :
        \/ Accepts(v, i) /\ x.bag = giveItem(v, i)
        \/ Has(v, i) /\ x.bag = takeItem(v, i)
  BY <1>3 DEF Drain, Fill
<1>6. CASE Accepts(v, i) /\ x.bag = giveItem(v, i)
  BY <1>1, <1>2, <1>4, <1>6, GiveFacts
<1>7. CASE Has(v, i) /\ x.bag = takeItem(v, i)
  BY <1>1, <1>2, <1>4, <1>7, TakeFacts
<1>8. QED
  BY <1>5, <1>6, <1>7

\* A lock that is used leaves the doors agreed.
LEMMA UseLockDoors ==
  ASSUME DoorInv, UNCHANGED dungeon, NEW p \in Players, NEW c \in Characters, NEW r \in Rooms,
         NEW d \in Dirs, UseLock(p, c, r, d)
  PROVE  DoorInv'
BY LockKeepsDoors DEF UseLock

\* So does a cube put in or taken out.
LEMMA UseCubeDoors ==
  ASSUME DoorInv, UNCHANGED dungeon, bags \in [Players -> Inventories],
         NEW p \in Players, NEW c \in Characters, NEW r \in Rooms, NEW d \in Dirs, UseCube(p, c, r, d)
  PROVE  DoorInv'
<1>1. PICK x \in Exchange(doors[r][d], bags[p]) :
        doors' = [doors EXCEPT ![r][d] = x.door] /\ UNCHANGED isBlueOpen
  BY DEF UseCube
<1>2. PICK kind \in {TimeGates, Rods} : doors[r][d] \in kind /\ x.door \in kind
  BY ExchangeFacts
<1>3. x.door \in Door /\ doors \in [Rooms -> [Dirs -> Door]]
  BY <1>2, KindsOfDoors DEF DoorInv, DoorsStay
<1>4. doors' \in [Rooms -> [Dirs -> Door]]
  BY <1>1, <1>3
<1>5. \A q \in Rooms, e \in Dirs :
        doors'[q][e] = IF q = r /\ e = d THEN x.door ELSE doors[q][e]
  BY <1>1, <1>3
<1>6. QED
  BY <1>1, <1>2, <1>4, <1>5, AloneKeepsDoors

\* So does a passage through a time gate, which leaves both gates dormant.
LEMMA UseTimeGateDoors ==
  ASSUME DoorInv, UNCHANGED dungeon, NEW c \in Characters, NEW r \in Rooms, UseTimeGate(c, r)
  PROVE  /\ DoorInv'
         /\ GateTo[r] \in DOMAIN GateTo /\ GateTo[r] \in Rooms
         /\ \A q \in Rooms, e \in Dirs :
              IF q \in {r, GateTo[r]} /\ e = North
                THEN doors'[q][e] = "TIME_GATE_DORMANT" /\ doors[q][e] \in TimeGates
                ELSE doors'[q][e] = doors[q][e]
<1>1. /\ r \in DOMAIN GateTo /\ UNCHANGED isBlueOpen
      /\ doors' = [doors EXCEPT ![r][North] = "TIME_GATE_DORMANT",
                                ![GateTo[r]][North] = "TIME_GATE_DORMANT"]
  BY DEF UseTimeGate
<1>2. DoorsStay /\ doors \in [Rooms -> [Dirs -> Door]]
  BY DEF DoorInv, DoorsStay
<1>3. ASSUME NEW q \in DOMAIN GateTo
      PROVE  q \in Rooms /\ GateTo[q] \in DOMAIN GateTo /\ doors[q][North] \in TimeGates
  <2>1. q \in Rooms /\ GateTo[q] \in DOMAIN GateTo /\ dungeon.doors[q][North] \in TimeGates
    BY <1>2, FirstDoors DEF DoorsStay
  <2>2. SameKind(dungeon.doors[q][North], doors[q][North]) /\ doors[q][North] \in Door
        /\ dungeon.doors[q][North] \in Door
    BY <1>2, <2>1, FirstDoors DEF DoorsStay, North, Dirs
  <2>3. QED
    BY <2>1, <2>2, KindFacts
<1>4. /\ GateTo[r] \in Rooms /\ GateTo[r] \in DOMAIN GateTo
      /\ doors[r][North] \in TimeGates /\ doors[GateTo[r]][North] \in TimeGates
  BY <1>1, <1>3
<1>5. North \in Dirs /\ "TIME_GATE_DORMANT" \in Door /\ "TIME_GATE_DORMANT" \in TimeGates
  BY KindsOfDoors DEF North, Dirs, TimeGates
<1> DEFINE g == GateTo[r]
<1> HIDE DEF g
<1>6. doors' \in [Rooms -> [Dirs -> Door]]
  BY <1>1, <1>2, <1>4, <1>5 DEF g
<1>7. \A q \in Rooms, e \in Dirs :
        doors'[q][e] = IF q \in {r, g} /\ e = North THEN "TIME_GATE_DORMANT" ELSE doors[q][e]
  <2>1. doors' = [doors EXCEPT ![r][North] = "TIME_GATE_DORMANT", ![g][North] = "TIME_GATE_DORMANT"]
    BY <1>1 DEF g
  <2>2. QED
    BY <1>2, <1>4, <1>5, <2>1 DEF g
<1>8. DoorInv'
  BY <1>1, <1>4, <1>5, <1>6, <1>7, AloneKeepsDoors DEF g
<1>9. QED
  BY <1>4, <1>7, <1>8 DEF g

-----------------------------------------------------------------------------
(* Who stands where.                                                       *)

\* A door that a lock or a latch bars and opens.
IsGuarded(door) == DoorTraits[door] \cap (KeyFamilies \cup {"LATCH"}) # {}

\* Who is in a shared doorway is on both its sides.
Standing ==
  \A c \in Characters : \A cell \in DoorCells(loc[c]) :
    /\ cell \in Rooms \X Dirs
    /\ isSharedDoorway(doors[cell[1]][cell[2]]) => Opposite(cell[1], cell[2]) \in DoorCells(loc[c])

\* Where everybody stands is a place, and a safe one.
StandInv ==
  /\ loc \in [Characters -> Location]
  /\ Standing /\ NobodyInABarredDoorway /\ OneCharacterPerCell

\* The cells of a location are where they were.
LEMMA SameCells ==
  ASSUME UNCHANGED dungeon
  PROVE  /\ \A l : DoorCells(l)' = DoorCells(l)
         /\ Location' = Location
BY SameWalls DEF DoorCells, Location, Rooms, Floors, RoomZero, Opposite, Adjacent, Above, Below

\* Who stays put is as safe as before when no door turns into one of another kind and
\* no guarded door on anybody is barred.
LEMMA StandingKept ==
  ASSUME DoorsStay, StandInv, UNCHANGED <<dungeon, loc>>, doors' \in [Rooms -> [Dirs -> Door]],
         \A q \in Rooms, e \in Dirs : SameKind(doors[q][e], doors'[q][e]),
         \A c \in Characters, q \in Rooms, e \in Dirs :
           <<q, e>> \in DoorCells(loc[c]) /\ IsGuarded(doors'[q][e]) =>
             isWalkable(doors'[q][e]) \/ doors'[q][e] = doors[q][e]
  PROVE  StandInv'
<1>1. /\ Rooms' = Rooms /\ Characters' = Characters /\ GateTo' = GateTo /\ Location' = Location
      /\ \A l : DoorCells(l)' = DoorCells(l)
      /\ \A q, e : Opposite(q, e)' = Opposite(q, e)
  BY SameWalls, SameCells
<1>2. ASSUME NEW c \in Characters, NEW cell \in DoorCells(loc[c])
      PROVE  /\ cell \in Rooms \X Dirs
             /\ isSharedDoorway(doors'[cell[1]][cell[2]]) =>
                  Opposite(cell[1], cell[2]) \in DoorCells(loc[c])
             /\ IsGuarded(doors'[cell[1]][cell[2]]) => isWalkable(doors'[cell[1]][cell[2]])
  <2>1. PICK q \in Rooms, e \in Dirs : cell = <<q, e>>
    BY <1>2 DEF StandInv, Standing
  <2>2. doors[q][e] \in Door /\ doors'[q][e] \in Door
    BY DEF DoorsStay
  <2>3. isSharedDoorway(doors'[q][e]) => isSharedDoorway(doors[q][e])
    BY <2>2, KindFacts
  <2>4. isSharedDoorway(doors[q][e]) => Opposite(q, e) \in DoorCells(loc[c])
    BY <1>2, <2>1 DEF StandInv, Standing
  <2>5. IsGuarded(doors[q][e]) => isWalkable(doors[q][e])
    BY <1>2, <2>1 DEF StandInv, NobodyInABarredDoorway, IsGuarded
  <2>6. IsGuarded(doors'[q][e]) => isWalkable(doors'[q][e])
    BY <1>2, <2>1, <2>5
  <2>7. QED
    BY <2>1, <2>3, <2>4, <2>6
<1>3. Standing'
  BY <1>1, <1>2 DEF Standing
<1>4. NobodyInABarredDoorway'
  BY <1>1, <1>2 DEF NobodyInABarredDoorway, IsGuarded
<1>5. OneCharacterPerCell'
  BY <1>1 DEF StandInv, OneCharacterPerCell
<1>6. QED
  BY <1>1, <1>3, <1>4, <1>5 DEF StandInv

\* Who moves to a place of its own, barred by no guarded door, is safe there.
LEMMA Moved ==
  ASSUME StandInv, UNCHANGED dungeon, DoorsStay, doors' \in [Rooms -> [Dirs -> Door]],
         NEW c \in Characters, NEW l \in Location, loc' = [loc EXCEPT ![c] = l],
         \A q \in Rooms, e \in Dirs : doors'[q][e] = doors[q][e] \/ {doors[q][e], doors'[q][e]} \subseteq TimeGates,
         \A cell \in DoorCells(l) :
           /\ cell \in Rooms \X Dirs
           /\ isSharedDoorway(doors[cell[1]][cell[2]]) => Opposite(cell[1], cell[2]) \in DoorCells(l)
           /\ IsGuarded(doors[cell[1]][cell[2]]) => isWalkable(doors[cell[1]][cell[2]])
           /\ \A e \in Characters : cell \in DoorCells(loc[e]) => cell[1] \in DOMAIN GateTo /\ cell[2] = North,
         l.type = "FLOOR" => \A e \in Characters : loc[e] # l
  PROVE  StandInv'
<1>1. /\ Rooms' = Rooms /\ Characters' = Characters /\ GateTo' = GateTo /\ Location' = Location
      /\ \A k : DoorCells(k)' = DoorCells(k)
      /\ \A q, e : Opposite(q, e)' = Opposite(q, e)
  BY SameWalls, SameCells
<1>2. loc' \in [Characters -> Location] /\ loc'[c] = l /\ \A e \in Characters : e # c => loc'[e] = loc[e]
  BY DEF StandInv
<1>3. \A q \in Rooms, e \in Dirs :
        /\ isSharedDoorway(doors'[q][e]) <=> isSharedDoorway(doors[q][e])
        /\ IsGuarded(doors'[q][e]) => doors'[q][e] = doors[q][e]
  <2>1. \A d \in TimeGates : ~ isSharedDoorway(d) /\ ~ IsGuarded(d)
    BY KindsOfDoors DEF IsGuarded, HasLock, Families
  <2>2. QED
    BY <2>1
<1>4. ASSUME NEW k \in Characters, NEW cell \in DoorCells(loc'[k])
      PROVE  /\ cell \in Rooms \X Dirs
             /\ isSharedDoorway(doors[cell[1]][cell[2]]) => Opposite(cell[1], cell[2]) \in DoorCells(loc'[k])
             /\ IsGuarded(doors[cell[1]][cell[2]]) => isWalkable(doors[cell[1]][cell[2]])
  <2>1. CASE k = c
    BY <1>2, <1>4, <2>1
  <2>2. CASE k # c
    <3>1. cell \in DoorCells(loc[k]) /\ loc'[k] = loc[k]
      BY <1>2, <1>4, <2>2
    <3>2. QED
      BY <3>1 DEF StandInv, Standing, NobodyInABarredDoorway, IsGuarded
  <2>3. QED
    BY <2>1, <2>2
<1>5. Standing'
  <2>1. ASSUME NEW k \in Characters, NEW cell \in DoorCells(loc'[k])
        PROVE  /\ cell \in Rooms \X Dirs
               /\ isSharedDoorway(doors'[cell[1]][cell[2]]) =>
                    Opposite(cell[1], cell[2]) \in DoorCells(loc'[k])
    BY <1>3, <1>4, <2>1
  <2>2. QED
    BY <1>1, <2>1 DEF Standing
<1>6. NobodyInABarredDoorway'
  <2>1. ASSUME NEW k \in Characters, NEW cell \in DoorCells(loc'[k])
        PROVE  IsGuarded(doors'[cell[1]][cell[2]]) => isWalkable(doors'[cell[1]][cell[2]])
    BY <1>3, <1>4, <2>1
  <2>2. QED
    BY <1>1, <2>1 DEF NobodyInABarredDoorway, IsGuarded
<1>7. OneCharacterPerCell'
  <2>1. ASSUME NEW k \in Characters, NEW e \in Characters, k # e
        PROVE  /\ loc'[k].type = "FLOOR" => loc'[k] # loc'[e]
               /\ \A cell \in DoorCells(loc'[k]) \cap DoorCells(loc'[e]) :
                    cell[1] \in DOMAIN GateTo /\ cell[2] = North
    <3>1. CASE k # c /\ e # c
      BY <1>2, <2>1, <3>1 DEF StandInv, OneCharacterPerCell
    <3>2. CASE k = c
      BY <1>2, <2>1, <3>2
    <3>3. CASE e = c
      BY <1>2, <2>1, <3>3
    <3>4. QED
      BY <3>1, <3>2, <3>3
  <2>2. QED
    BY <1>1, <2>1 DEF OneCharacterPerCell
<1>8. QED
  BY <1>1, <1>2, <1>5, <1>6, <1>7 DEF StandInv

\* A floor cell that is taken is nobody else's.
LEMMA MoveToFloorStands ==
  ASSUME DoorInv, StandInv, UNCHANGED dungeon, NEW c \in Characters, NEW r \in Rooms, NEW f \in Floors,
         MoveToFloor(c, r, f)
  PROVE  StandInv'
<1> DEFINE l == At("FLOOR", r, f)
<1>1. /\ l \in Location /\ l.type = "FLOOR" /\ DoorCells(l) = {}
      /\ \A e \in Characters : loc[e] # l
      /\ loc' = [loc EXCEPT ![c] = l] /\ UNCHANGED doors
  BY DEF MoveToFloor, isFloorOccupied, updateCharacterLocation, At, Location, DoorCells
<1> HIDE DEF l
<1>2. QED
  BY <1>1, Moved DEF DoorInv, DoorsStay

\* Who leaves the dungeon is nowhere in anybody's way.
LEMMA ExitDungeonStands ==
  ASSUME DoorInv, StandInv, UNCHANGED dungeon, NEW p \in Players, NEW c \in Characters, NEW r \in Rooms,
         NEW d \in Dirs, ExitDungeon(p, c, r, d)
  PROVE  StandInv'
<1> DEFINE l == At("EXITED_DUNGEON", RoomZero, 0)
<1>1. /\ l \in Location /\ l.type # "FLOOR" /\ DoorCells(l) = {}
      /\ loc' = [loc EXCEPT ![c] = l] /\ UNCHANGED doors
  BY DEF ExitDungeon, updateCharacterLocation, At, Location, DoorCells
<1> HIDE DEF l
<1>2. QED
  BY <1>1, Moved DEF DoorInv, DoorsStay

\* Only the near cell of a shared doorway is looked at, but who is on the far side
\* is on the near side, too; and where the near side is open the far one is.
LEMMA MoveToDoorStands ==
  ASSUME DoorInv, StandInv, UNCHANGED dungeon, NEW c \in Characters, NEW r \in Rooms, NEW d \in Dirs,
         MoveToDoor(c, r, d)
  PROVE  StandInv'
<1> DEFINE n == Adjacent[r][d]
           f == Flip(d)
           isShared == n \in Rooms /\ isSharedDoorway(doors[n][f])
<1>1. f \in Dirs /\ Flip(f) = d /\ Opposite(r, d) = <<n, f>>
  BY FlipFacts DEF Opposite
<1>2. /\ isWalkable(doors[r][d]) /\ UNCHANGED doors
      /\ \A e \in Characters : <<r, d>> \notin DoorCells(loc[e])
      /\ loc' = [loc EXCEPT ![c] = IF isShared THEN At("DOOR_SHARED", n, f) ELSE At("DOOR", r, d)]
  BY DEF MoveToDoor, isDoorOccupied, updateCharacterLocation
<1> HIDE DEF n, f
<1>3. CASE isShared
  <2> DEFINE l == At("DOOR_SHARED", n, f)
  <2>1. /\ Adjacent[n][f] = r /\ Opposite(n, f) = <<r, d>>
        /\ isSharedDoorway(doors[r][d])
        /\ doors[n][f] \in Door
    <3>1. Adjacent[n][f] = r
      BY <1>3, GridFacts DEF DoorInv, DoorsStay, n, f
    <3>2. isSharedDoorway(doors[Adjacent[n][f]][Flip(f)])
      BY <1>1, <1>3, TwoSides DEF DoorInv
    <3>3. QED
      BY <1>1, <1>3, <3>1, <3>2 DEF Opposite, DoorInv, DoorsStay
  <2>2. isWalkable(doors[n][f])
    BY <1>2, <2>1, FarSide DEF isWalkable, LockTraits, n, f
  <2>3. l \in Location /\ l.type # "FLOOR" /\ DoorCells(l) = {<<n, f>>, <<r, d>>}
    BY <1>1, <1>3, <2>1 DEF At, Location, DoorCells
  <2>4. \A e \in Characters : <<n, f>> \notin DoorCells(loc[e])
    <3> SUFFICES ASSUME NEW e \in Characters, <<n, f>> \in DoorCells(loc[e]) PROVE FALSE
      OBVIOUS
    <3>1. Opposite(n, f) \in DoorCells(loc[e])
      BY <1>3 DEF StandInv, Standing
    <3>2. QED
      BY <1>2, <2>1, <3>1
  <2>5. loc' = [loc EXCEPT ![c] = l]
    BY <1>2, <1>3
  <2> HIDE DEF l
  <2>6. \A cell \in DoorCells(l) :
          /\ cell \in Rooms \X Dirs
          /\ isSharedDoorway(doors[cell[1]][cell[2]]) => Opposite(cell[1], cell[2]) \in DoorCells(l)
          /\ IsGuarded(doors[cell[1]][cell[2]]) => isWalkable(doors[cell[1]][cell[2]])
          /\ \A e \in Characters : cell \notin DoorCells(loc[e])
    BY <1>1, <1>2, <1>3, <2>1, <2>2, <2>3, <2>4
  <2>7. QED
    BY <1>2, <2>3, <2>5, <2>6, Moved DEF DoorInv, DoorsStay
<1>4. CASE ~ isShared
  <2> DEFINE l == At("DOOR", r, d)
  <2>1. ~ isSharedDoorway(doors[r][d])
    BY <1>4, TwoSides DEF DoorInv, n, f
  <2>2. l \in Location /\ l.type # "FLOOR" /\ DoorCells(l) = {<<r, d>>}
    BY DEF At, Location, DoorCells
  <2>3. loc' = [loc EXCEPT ![c] = l]
    BY <1>2, <1>4
  <2> HIDE DEF l
  <2>4. \A cell \in DoorCells(l) :
          /\ cell \in Rooms \X Dirs
          /\ isSharedDoorway(doors[cell[1]][cell[2]]) => Opposite(cell[1], cell[2]) \in DoorCells(l)
          /\ IsGuarded(doors[cell[1]][cell[2]]) => isWalkable(doors[cell[1]][cell[2]])
          /\ \A e \in Characters : cell \notin DoorCells(loc[e])
    BY <1>2, <2>1, <2>2
  <2>5. QED
    BY <1>2, <2>2, <2>3, <2>4, Moved DEF DoorInv, DoorsStay
<1>5. QED
  BY <1>3, <1>4

\* The ends of a shaft are where the match began, one above the other.
LEMMA ShaftFacts ==
  ASSUME DoorsStay, NEW r \in Rooms, NEW d \in Dirs
  PROVE  /\ doors[r][d] \in {"POLE_1_TOP", "LADDER_1_TOP"} =>
              Below[r] \in Rooms /\ Above[Below[r]] = r /\ doors[Below[r]][d] \in Shafts
         /\ doors[r][d] = "LADDER_1_BOTTOM" =>
              Above[r] \in Rooms /\ Below[Above[r]] = r /\ doors[Above[r]][d] \in Shafts
<1>1. \A q \in Rooms, e \in Dirs :
        doors[q][e] \in Shafts \/ dungeon.doors[q][e] \in Shafts => doors[q][e] = dungeon.doors[q][e]
  <2> SUFFICES ASSUME NEW q \in Rooms, NEW e \in Dirs,
                      doors[q][e] \in Shafts \/ dungeon.doors[q][e] \in Shafts
               PROVE  doors[q][e] = dungeon.doors[q][e]
    OBVIOUS
  <2>1. doors[q][e] \in Door /\ dungeon.doors[q][e] \in Door /\ SameKind(dungeon.doors[q][e], doors[q][e])
    BY FirstDoors DEF DoorsStay
  <2>2. QED
    BY <2>1, KindFacts DEF Fixed
<1>2. /\ \A q \in Rooms, e \in Dirs :
           /\ dungeon.doors[q][e] \in {"POLE_1_TOP", "LADDER_1_TOP"} =>
                Below[q] \in Rooms /\ dungeon.doors[Below[q]][e] \in Shafts
           /\ dungeon.doors[q][e] = "LADDER_1_BOTTOM" =>
                Above[q] \in Rooms /\ dungeon.doors[Above[q]][e] \in Shafts
      /\ \A q, n \in Rooms : Above[q] = n <=> Below[n] = q
  BY FirstDoors, GridFacts DEF DoorsStay, Foot, Shafts
<1>3. QED
  BY <1>1, <1>2 DEF Shafts

\* A shaft is climbed when both its ends are free.
LEMMA UseShaftStands ==
  ASSUME DoorInv, StandInv, UNCHANGED dungeon, NEW c \in Characters, NEW r \in Rooms, NEW d \in Dirs,
         UseShaft(c, r, d)
  PROVE  StandInv'
<1>1. PICK down \in BOOLEAN :
        LET n == IF down THEN Below[r] ELSE Above[r]
        IN  /\ doors[r][d] \in IF down THEN {"POLE_1_TOP", "LADDER_1_TOP"} ELSE {"LADDER_1_BOTTOM"}
            /\ n \in Rooms
            /\ ~ isDoorOccupied(r, d) /\ ~ isDoorOccupied(n, d)
            /\ loc' = [loc EXCEPT ![c] = At(IF down THEN "SHAFT_BOTTOM" ELSE "SHAFT_TOP", n, d)]
            /\ UNCHANGED doors
  BY DEF UseShaft, updateCharacterLocation
<1> DEFINE n == IF down THEN Below[r] ELSE Above[r]
           l == At(IF down THEN "SHAFT_BOTTOM" ELSE "SHAFT_TOP", n, d)
<1>2. /\ n \in Rooms /\ doors[r][d] \in Shafts /\ doors[n][d] \in Shafts
      /\ down => Above[n] = r
      /\ ~ down => Below[n] = r
  BY <1>1, ShaftFacts DEF DoorInv, Shafts
<1>3. loc' = [loc EXCEPT ![c] = l] /\ UNCHANGED doors
  BY <1>1
<1>4. \A e \in Characters : <<r, d>> \notin DoorCells(loc[e]) /\ <<n, d>> \notin DoorCells(loc[e])
  BY <1>1 DEF isDoorOccupied
<1> HIDE DEF n
<1>5. l \in Location /\ l.type # "FLOOR" /\ DoorCells(l) = {<<n, d>>, <<r, d>>}
  <2>1. CASE down
    BY <1>2, <2>1 DEF At, Location, DoorCells
  <2>2. CASE ~ down
    BY <1>2, <2>2 DEF At, Location, DoorCells
  <2>3. QED
    BY <2>1, <2>2
<1> HIDE DEF l
<1>6. \A s \in Shafts : ~ isSharedDoorway(s) /\ ~ IsGuarded(s)
  BY KindsOfDoors DEF IsGuarded, HasLock, Families, Fixed
<1>7. \A cell \in DoorCells(l) :
        /\ cell \in Rooms \X Dirs
        /\ ~ isSharedDoorway(doors[cell[1]][cell[2]]) /\ ~ IsGuarded(doors[cell[1]][cell[2]])
        /\ \A e \in Characters : cell \notin DoorCells(loc[e])
  BY <1>2, <1>4, <1>5, <1>6
<1>8. QED
  BY <1>3, <1>5, <1>7, Moved DEF DoorInv, DoorsStay

\* Through a time gate: its other end may be somebody's.
LEMMA UseTimeGateStands ==
  ASSUME DoorInv, StandInv, UNCHANGED dungeon, NEW c \in Characters, NEW r \in Rooms, UseTimeGate(c, r)
  PROVE  StandInv'
<1> DEFINE g == GateTo[r]
           l == At("DOOR", g, North)
<1>1. /\ g \in DOMAIN GateTo /\ g \in Rooms /\ doors[g][North] \in TimeGates
      /\ \A q \in Rooms, e \in Dirs :
           doors'[q][e] = doors[q][e] \/ {doors[q][e], doors'[q][e]} \subseteq TimeGates
  <2>1. "TIME_GATE_DORMANT" \in TimeGates /\ North \in Dirs
    BY DEF TimeGates, North, Dirs
  <2>2. QED
    BY <2>1, UseTimeGateDoors
<1>2. loc' = [loc EXCEPT ![c] = l]
  BY DEF UseTimeGate, updateCharacterLocation
<1>3. doors' \in [Rooms -> [Dirs -> Door]]
  BY UseTimeGateDoors, SameWalls DEF DoorInv, DoorsStay
<1> HIDE DEF g
<1>4. l \in Location /\ l.type # "FLOOR" /\ DoorCells(l) = {<<g, North>>} /\ North \in Dirs
  BY <1>1 DEF At, Location, DoorCells, North, Dirs
<1> HIDE DEF l
<1>5. \A d \in TimeGates : ~ isSharedDoorway(d) /\ ~ IsGuarded(d)
  BY KindsOfDoors DEF IsGuarded, HasLock, Families
<1>6. \A cell \in DoorCells(l) :
        /\ cell \in Rooms \X Dirs
        /\ ~ isSharedDoorway(doors[cell[1]][cell[2]]) /\ ~ IsGuarded(doors[cell[1]][cell[2]])
        /\ cell[1] \in DOMAIN GateTo /\ cell[2] = North
  BY <1>1, <1>4, <1>5
<1>7. QED
  BY <1>1, <1>2, <1>3, <1>4, <1>6, Moved DEF DoorInv

\* Doors that are of the first doors' kinds are of each other's.
LEMMA KindsKept ==
  ASSUME DoorsStay, DoorsStay', UNCHANGED dungeon
  PROVE  /\ doors' \in [Rooms -> [Dirs -> Door]]
         /\ \A r \in Rooms, d \in Dirs : SameKind(doors[r][d], doors'[r][d])
<1>1. Rooms' = Rooms
  BY SameWalls
<1>2. doors' \in [Rooms -> [Dirs -> Door]]
  BY <1>1 DEF DoorsStay
<1>3. ASSUME NEW r \in Rooms, NEW d \in Dirs
      PROVE  SameKind(doors[r][d], doors'[r][d])
  <2>1. dungeon.doors[r][d] \in Door /\ doors[r][d] \in Door /\ doors'[r][d] \in Door
    BY <1>2, FirstDoors DEF DoorsStay
  <2>2. SameKind(dungeon.doors[r][d], doors[r][d]) /\ SameKind(dungeon.doors[r][d], doors'[r][d])
    BY <1>1 DEF DoorsStay
  <2>3. SameKind(doors[r][d], dungeon.doors[r][d])
    BY <2>2 DEF SameKind
  <2>4. QED
    BY <2>1, <2>2, <2>3, KindsAreClasses
<1>4. QED
  BY <1>2, <1>3

\* A lock bars a guarded doorway only when nobody is in it.
LEMMA UseLockStands ==
  ASSUME DoorInv, DoorInv', StandInv, UNCHANGED dungeon, NEW p \in Players, NEW c \in Characters,
         NEW r \in Rooms, NEW d \in Dirs, UseLock(p, c, r, d)
  PROVE  StandInv'
<1> DEFINE rule == TheRule(doors[r][d])
           cells == {<<r, d>>, Opposite(r, d)}
<1>1. /\ doors[r][d] \in RuleDoors /\ UNCHANGED loc
      /\ rule.clearance => validateSharedDoorNotOccupied(r, d)
      /\ HasDoor(Becomes(rule, doors[r][d]))
      /\ HasDoor(Becomes(rule, doors[Adjacent[r][d]][Flip(d)]))
      /\ doors' = setSharedDoorsByTrait(rule, r, d)
  BY DEF UseLock
<1> HIDE DEF rule
<1>2. /\ IsRule(rule)
      /\ \A q \in Rooms, e \in Dirs : <<q, e>> \in cells =>
           /\ rule.match \cap Families \subseteq DoorTraits[doors[q][e]]
           /\ DoorTraits[doors'[q][e]] = Becomes(rule, doors[q][e])
           /\ DoorTraits[doors'[q][e]] \cap Families = DoorTraits[doors[q][e]] \cap Families
      /\ \A q \in Rooms, e \in Dirs : <<q, e>> \notin cells =>
           doors'[q][e] = ShutWithAll(rule, doors[q][e])
  BY <1>1, LockTurned DEF rule
<1>3. /\ \A q \in Rooms, e \in Dirs : doors[q][e] \in Door
      /\ doors' \in [Rooms -> [Dirs -> Door]]
      /\ \A q \in Rooms, e \in Dirs : SameKind(doors[q][e], doors'[q][e])
  BY KindsKept DEF DoorInv, DoorsStay
<1>4. \A x \in Covenants : ~ IsGuarded(x)
  BY CovenantDoors DEF IsGuarded, Families, KeyFamilies
<1>5. ASSUME NEW k \in Characters, NEW q \in Rooms, NEW e \in Dirs, <<q, e>> \in DoorCells(loc[k]),
             IsGuarded(doors'[q][e])
      PROVE  isWalkable(doors'[q][e]) \/ doors'[q][e] = doors[q][e]
  <2>1. CASE <<q, e>> \notin cells
    <3>1. doors'[q][e] = ShutWithAll(rule, doors[q][e]) /\ doors[q][e] \in Door
      BY <1>2, <1>3, <2>1
    <3>2. doors'[q][e] = doors[q][e] \/ doors'[q][e] = "COVENANT_CLOSED"
      BY <1>2, <3>1, ShutDoor
    <3>3. QED
      BY <1>4, <1>5, <3>2 DEF Covenants
  <2>2. CASE <<q, e>> \in cells
    <3>1. ~ rule.clearance
      BY <1>1, <1>5, <2>2 DEF validateSharedDoorNotOccupied, isDoorOccupied, Opposite
    <3>2. CASE Opening(rule)
      BY <1>2, <2>2, <3>2 DEF Opening, Becomes, isWalkable
    <3>3. CASE "COVENANT" \in rule.match
      <4>1. "COVENANT" \in DoorTraits[doors[q][e]]
        BY <1>2, <2>2, <3>3 DEF Families
      <4>2. DoorTraits[doors'[q][e]] \cap Families = {"COVENANT"}
        BY <1>2, <1>3, <2>2, <4>1, CovenantDoors
      <4>3. QED
        BY <1>5, <4>2 DEF IsGuarded, Families, KeyFamilies
    <3>4. QED
      BY <1>2, <3>1, <3>2, <3>3 DEF IsRule, Barring
  <2>3. QED
    BY <2>1, <2>2
<1>6. QED
  BY <1>1, <1>3, <1>5, StandingKept DEF DoorInv

\* Cubes are put into gates and rods, where no door is guarded.
LEMMA UseCubeStands ==
  ASSUME DoorInv, DoorInv', StandInv, UNCHANGED dungeon, bags \in [Players -> Inventories],
         NEW p \in Players, NEW c \in Characters, NEW r \in Rooms, NEW d \in Dirs, UseCube(p, c, r, d)
  PROVE  StandInv'
<1>1. PICK x \in Exchange(doors[r][d], bags[p]) :
        doors' = [doors EXCEPT ![r][d] = x.door] /\ UNCHANGED loc
  BY DEF UseCube
<1>2. PICK kind \in {TimeGates, Rods} : x.door \in kind
  BY ExchangeFacts
<1>3. ~ IsGuarded(x.door)
  BY <1>2, KindsOfDoors DEF IsGuarded, HasLock, Families
<1>4. \A q \in Rooms, e \in Dirs : doors'[q][e] = IF q = r /\ e = d THEN x.door ELSE doors[q][e]
  BY <1>1 DEF DoorInv, DoorsStay
<1>5. \A q \in Rooms, e \in Dirs : IsGuarded(doors'[q][e]) => doors'[q][e] = doors[q][e]
  BY <1>3, <1>4
<1>6. QED
  BY <1>1, <1>5, KindsKept, StandingKept DEF DoorInv

\* Switches turn doors that are not guarded.
LEMMA UseSwitchStands ==
  ASSUME DoorInv, DoorInv', StandInv, UNCHANGED dungeon, NEW s \in Switches, NEW c \in Characters,
         NEW r \in Rooms, UseSwitch(s, c, r)
  PROVE  StandInv'
<1>1. UNCHANGED loc /\ doors' = toggleDoors(~ isBlueOpen)
  BY DEF UseSwitch
<1>2. \A q \in Rooms, e \in Dirs : doors'[q][e] \in Togglers \/ doors'[q][e] = doors[q][e]
  BY <1>1 DEF toggleDoors, Togglers
<1>3. \A x \in Togglers : ~ IsGuarded(x)
  BY KindsOfDoors DEF IsGuarded, HasLock, Families
<1>4. \A q \in Rooms, e \in Dirs : IsGuarded(doors'[q][e]) => doors'[q][e] = doors[q][e]
  BY <1>2, <1>3
<1>5. QED
  BY <1>1, <1>4, KindsKept, StandingKept DEF DoorInv

\* Steps that touch neither doors nor locations.
LEMMA StutterStands ==
  ASSUME DoorInv, StandInv, UNCHANGED <<dungeon, doors, loc, isBlueOpen>>
  PROVE  DoorInv' /\ StandInv'
<1>1. DoorInv'
  BY AloneKeepsDoors DEF DoorInv, DoorsStay
<1>2. StandInv'
  BY StandingKept DEF DoorInv, DoorsStay, SameKind
<1>3. QED
  BY <1>1, <1>2

\* Steps that touch no doors.
LEMMA SameDoors ==
  ASSUME DoorInv, UNCHANGED <<dungeon, doors, isBlueOpen>>
  PROVE  DoorInv'
BY AloneKeepsDoors DEF DoorInv, DoorsStay

-----------------------------------------------------------------------------
(* What characters spend and players carry.                                *)

\* What is spent is within the limits; bags are bags.
CountsInv ==
  /\ spent \in [Characters -> [actions : Nat, moves : Nat]]
  /\ \A c \in Characters : spent[c] \in [actions : 0 .. Actions[c], moves : 0 .. Moves[c]]
  /\ bags \in [Players -> Inventories]
  /\ pious \in SUBSET Characters
  /\ switch \in [Switches -> {"BLUE", "ORANGE"}]

\* The limits of a character.
LEMMA LimitFacts ==
  ASSUME dungeon \in Dungeons, NEW c \in Characters
  PROVE  Actions[c] \in Nat /\ Moves[c] \in Nat
BY DungeonAssumption DEF IsDungeon, Characters, FirstLocation, Actions, Moves

\* A move or an action is spent within the limit.
LEMMA SpentFacts ==
  ASSUME CountsInv, dungeon \in Dungeons, NEW c \in Characters, takeMove(c) \/ takeCharacterAction(c)
  PROVE  /\ spent' \in [Characters -> [actions : Nat, moves : Nat]]
         /\ \A e \in Characters : spent'[e] \in [actions : 0 .. Actions[e], moves : 0 .. Moves[e]]
<1>1. /\ spent[c] \in [actions : Nat, moves : Nat] /\ spent[c] \in [actions : 0 .. Actions[c], moves : 0 .. Moves[c]]
      /\ Actions[c] \in Nat /\ Moves[c] \in Nat
  BY LimitFacts DEF CountsInv
<1>2. PICK x \in [actions : Nat, moves : Nat] :
        x \in [actions : 0 .. Actions[c], moves : 0 .. Moves[c]] /\ spent' = [spent EXCEPT ![c] = x]
  <2>1. CASE takeMove(c)
    <3> DEFINE x == [spent[c] EXCEPT !.moves = @ + 1]
    <3>1. spent' = [spent EXCEPT ![c] = x] /\ spent[c].moves < Moves[c]
      BY <2>1 DEF takeMove
    <3>2. x \in [actions : Nat, moves : Nat] /\ x \in [actions : 0 .. Actions[c], moves : 0 .. Moves[c]]
      BY <1>1, <3>1
    <3>3. QED
      BY <3>1, <3>2
  <2>2. CASE takeCharacterAction(c)
    <3> DEFINE x == [spent[c] EXCEPT !.actions = @ + 1]
    <3>1. spent' = [spent EXCEPT ![c] = x] /\ spent[c].actions < Actions[c]
      BY <2>2 DEF takeCharacterAction
    <3>2. x \in [actions : Nat, moves : Nat] /\ x \in [actions : 0 .. Actions[c], moves : 0 .. Moves[c]]
      BY <1>1, <3>1
    <3>3. QED
      BY <3>1, <3>2
  <2>3. QED
    BY <2>1, <2>2
<1>3. QED
  BY <1>1, <1>2 DEF CountsInv

\* What is paid into a lock or comes out of one.
LEMMA KeyPaidFacts ==
  ASSUME NEW v \in Inventories, NEW rule, IsRule(rule),
         rule.takes # {} => Has(v, "KEY"), rule.gives # {} => Accepts(v, "KEY")
  PROVE  /\ KeyPaid(rule, v) \in Inventories
         /\ Takes(rule) => Held(v, "KEY") > 0 /\ Held(KeyPaid(rule, v), "KEY") = Held(v, "KEY") - 1
         /\ Gives(rule) => Held(KeyPaid(rule, v), "KEY") = Held(v, "KEY") + 1
         /\ Keyless(rule) => KeyPaid(rule, v) = v
<1>1. "KEY" \in Items
  BY DEF Items, Stack
<1>2. CASE Takes(rule)
  <2>1. KeyPaid(rule, v) = takeItem(v, "KEY") /\ Has(v, "KEY") /\ ~ Gives(rule) /\ ~ Keyless(rule)
    BY <1>2 DEF Takes, Gives, Keyless, KeyPaid
  <2>2. QED
    BY <1>1, <2>1, TakeFacts
<1>3. CASE Gives(rule)
  <2>1. KeyPaid(rule, v) = giveItem(v, "KEY") /\ Accepts(v, "KEY") /\ ~ Takes(rule) /\ ~ Keyless(rule)
    BY <1>3 DEF Takes, Gives, Keyless, KeyPaid
  <2>2. QED
    BY <1>1, <2>1, GiveFacts
<1>4. CASE Keyless(rule)
  BY <1>4 DEF Takes, Gives, Keyless, KeyPaid
<1>5. QED
  BY <1>2, <1>3, <1>4 DEF IsRule

-----------------------------------------------------------------------------
(* The invariant.                                                          *)

\* The inductive invariant.
IInv == DoorInv /\ StandInv /\ CountsInv

\* It holds as the match starts.
LEMMA FirstIsSafe == Init => IInv
<1> SUFFICES ASSUME Init PROVE IInv
  OBVIOUS
<1>1. DoorInv
  BY FirstDoorsAgree
<1>2. /\ loc = FirstLocation /\ bags = Bag /\ pious = {} /\ switch \in [Switches -> {"BLUE", "ORANGE"}]
      /\ spent = [c \in Characters |-> [actions |-> 0, moves |-> 0]]
      /\ dungeon \in Dungeons
  BY DEF Init
<1>3. /\ Bag \in [Players -> Inventories]
      /\ FirstLocation \in [Characters -> [type : {"FLOOR"}, room : Rooms, data : Floors]]
      /\ \A c, e \in Characters : c # e => FirstLocation[c] # FirstLocation[e]
  BY <1>2, DungeonAssumption
     DEF IsDungeon, Bag, Players, FirstLocation, Characters, Rooms, Floors
<1>4. loc \in [Characters -> Location]
  BY <1>2, <1>3 DEF Location
<1>5. \A c \in Characters : loc[c].type = "FLOOR" /\ DoorCells(loc[c]) = {}
  BY <1>2, <1>3 DEF DoorCells
<1>6. StandInv
  BY <1>2, <1>3, <1>4, <1>5 DEF StandInv, Standing, NobodyInABarredDoorway, OneCharacterPerCell
<1>7. CountsInv
  <2>1. \A c \in Characters : Actions[c] \in Nat /\ Moves[c] \in Nat
    BY <1>2, LimitFacts
  <2>2. QED
    BY <1>2, <1>3, <2>1 DEF CountsInv
<1>8. QED
  BY <1>1, <1>6, <1>7 DEF IInv

\* What the bags hold stays of its type.
LEMMA CountsKept ==
  ASSUME IInv, UNCHANGED dungeon, pious' \in SUBSET Characters,
         switch' \in [Switches -> {"BLUE", "ORANGE"}], bags' \in [Players -> Inventories],
         \/ \E c \in Characters : takeMove(c) \/ takeCharacterAction(c)
         \/ /\ spent' \in [Characters -> [actions : Nat, moves : Nat]]
            /\ \A c \in Characters : spent'[c] \in [actions : 0 .. Actions[c], moves : 0 .. Moves[c]]
  PROVE  CountsInv'
<1>1. /\ Characters' = Characters /\ Players' = Players /\ Switches' = Switches
      /\ Actions' = Actions /\ Moves' = Moves
  BY SameWalls
<1>2. /\ spent' \in [Characters -> [actions : Nat, moves : Nat]]
      /\ \A c \in Characters : spent'[c] \in [actions : 0 .. Actions[c], moves : 0 .. Moves[c]]
  BY SpentFacts DEF IInv, DoorInv, DoorsStay
<1>3. QED
  BY <1>1, <1>2 DEF CountsInv

\* A lock moves at most a key.
LEMMA UseLockCounts ==
  ASSUME IInv, UNCHANGED dungeon, NEW p \in Players, NEW c \in Characters, NEW r \in Rooms, NEW d \in Dirs,
         UseLock(p, c, r, d)
  PROVE  CountsInv'
<1> DEFINE rule == TheRule(doors[r][d])
<1>1. /\ doors[r][d] \in RuleDoors /\ takeCharacterAction(c)
      /\ rule.takes # {} => Has(bags[p], "KEY")
      /\ rule.gives # {} => Accepts(bags[p], "KEY")
      /\ bags' = [bags EXCEPT ![p] = KeyPaid(rule, bags[p])]
      /\ UNCHANGED <<pious, switch>>
  BY DEF UseLock
<1>2. IsRule(rule)
  BY <1>1, TheRuleFacts
<1> HIDE DEF rule
<1>3. bags \in [Players -> Inventories]
  BY DEF IInv, CountsInv
<1>4. KeyPaid(rule, bags[p]) \in Inventories
  BY <1>1, <1>2, <1>3, KeyPaidFacts
<1>5. bags' \in [Players -> Inventories]
  BY <1>1, <1>3, <1>4
<1>6. QED
  BY <1>1, <1>5, CountsKept DEF IInv, CountsInv

\* Every step keeps the invariant.
LEMMA StepIsSafe == IInv /\ [Next]_vars => IInv'
<1> SUFFICES ASSUME IInv, [Next]_vars PROVE IInv'
  OBVIOUS
<1> USE DEF IInv
<1>1. ASSUME UNCHANGED dungeon, NEW c \in Characters, NEW r \in Rooms, NEW f \in Floors, MoveToFloor(c, r, f)
      PROVE  IInv'
  <2>1. takeMove(c) /\ UNCHANGED <<doors, bags, pious, isBlueOpen, switch>>
    BY <1>1 DEF MoveToFloor
  <2>2. DoorInv' /\ StandInv'
    BY <1>1, <2>1, SameDoors, MoveToFloorStands
  <2>3. CountsInv'
    BY <1>1, <2>1, CountsKept DEF CountsInv
  <2>4. QED
    BY <2>2, <2>3
<1>2. ASSUME UNCHANGED dungeon, NEW c \in Characters, NEW r \in Rooms, UseTimeGate(c, r)
      PROVE  IInv'
  <2>1. takeMove(c) /\ UNCHANGED <<bags, pious, isBlueOpen, switch>>
    BY <1>2 DEF UseTimeGate
  <2>2. DoorInv' /\ StandInv'
    BY <1>2, UseTimeGateDoors, UseTimeGateStands
  <2>3. CountsInv'
    BY <1>2, <2>1, CountsKept DEF CountsInv
  <2>4. QED
    BY <2>2, <2>3
<1>3. ASSUME UNCHANGED dungeon, NEW c \in Characters, NEW r \in Rooms, NEW s \in Switches, UseSwitch(s, c, r)
      PROVE  IInv'
  <2>1. /\ takeCharacterAction(c) /\ UNCHANGED <<bags, pious>>
        /\ switch' \in [Switches -> {"BLUE", "ORANGE"}]
        /\ isBlueOpen' = ~ isBlueOpen /\ doors' = toggleDoors(~ isBlueOpen)
    BY <1>3 DEF UseSwitch, Used
  <2>2. DoorInv'
    BY <1>3, <2>1, SwitchKeepsDoors
  <2>3. StandInv'
    BY <1>3, <2>2, UseSwitchStands
  <2>4. CountsInv'
    BY <1>3, <2>1, CountsKept DEF CountsInv
  <2>5. QED
    BY <2>2, <2>3, <2>4
<1>4. ASSUME UNCHANGED dungeon, NEW c \in Characters, NEW r \in Rooms, NEW s \in Sacraments, UseSacrament(s, c, r)
      PROVE  IInv'
  <2>1. /\ takeCharacterAction(c) /\ UNCHANGED <<doors, loc, bags, isBlueOpen, switch>>
        /\ pious' = pious \cup {c}
    BY <1>4 DEF UseSacrament, Used
  <2>2. DoorInv' /\ StandInv'
    BY <1>4, <2>1, StutterStands
  <2>3. CountsInv'
    BY <1>4, <2>1, CountsKept DEF CountsInv
  <2>4. QED
    BY <2>2, <2>3
<1>5. ASSUME UNCHANGED dungeon, NEW c \in Characters, NEW r \in Rooms, NEW d \in Dirs, MoveToDoor(c, r, d)
      PROVE  IInv'
  <2>1. takeMove(c) /\ UNCHANGED <<doors, bags, pious, isBlueOpen, switch>>
    BY <1>5 DEF MoveToDoor
  <2>2. DoorInv' /\ StandInv'
    BY <1>5, <2>1, SameDoors, MoveToDoorStands
  <2>3. CountsInv'
    BY <1>5, <2>1, CountsKept DEF CountsInv
  <2>4. QED
    BY <2>2, <2>3
<1>6. ASSUME UNCHANGED dungeon, NEW c \in Characters, NEW r \in Rooms, NEW d \in Dirs, UseShaft(c, r, d)
      PROVE  IInv'
  <2>1. takeMove(c) /\ UNCHANGED <<doors, bags, pious, isBlueOpen, switch>>
    BY <1>6 DEF UseShaft
  <2>2. DoorInv' /\ StandInv'
    BY <1>6, <2>1, SameDoors, UseShaftStands
  <2>3. CountsInv'
    BY <1>6, <2>1, CountsKept DEF CountsInv
  <2>4. QED
    BY <2>2, <2>3
<1>7. ASSUME UNCHANGED dungeon, NEW c \in Characters, NEW r \in Rooms, NEW d \in Dirs, NEW p \in Players,
             ExitDungeon(p, c, r, d)
      PROVE  IInv'
  <2>1. takeMove(c) /\ UNCHANGED <<doors, bags, pious, isBlueOpen, switch>>
    BY <1>7 DEF ExitDungeon
  <2>2. DoorInv' /\ StandInv'
    BY <1>7, <2>1, SameDoors, ExitDungeonStands
  <2>3. CountsInv'
    BY <1>7, <2>1, CountsKept DEF CountsInv
  <2>4. QED
    BY <2>2, <2>3
<1>8. ASSUME UNCHANGED dungeon, NEW c \in Characters, NEW r \in Rooms, NEW d \in Dirs, NEW p \in Players,
             UseLock(p, c, r, d)
      PROVE  IInv'
  <2>1. DoorInv'
    BY <1>8, UseLockDoors
  <2>2. QED
    BY <1>8, <2>1, UseLockStands, UseLockCounts
<1>9. ASSUME UNCHANGED dungeon, NEW c \in Characters, NEW r \in Rooms, NEW d \in Dirs, NEW p \in Players,
             UseCube(p, c, r, d)
      PROVE  IInv'
  <2>1. bags \in [Players -> Inventories]
    BY DEF CountsInv
  <2>2. DoorInv'
    BY <1>9, <2>1, UseCubeDoors
  <2>3. StandInv'
    BY <1>9, <2>1, <2>2, UseCubeStands
  <2>4. PICK x \in Exchange(doors[r][d], bags[p]) :
          takeCharacterAction(c) /\ bags' = [bags EXCEPT ![p] = x.bag] /\ UNCHANGED <<pious, switch>>
    BY <1>9 DEF UseCube
  <2>5. bags' \in [Players -> Inventories]
    BY <2>1, <2>4, ExchangeFacts
  <2>6. CountsInv'
    BY <1>9, <2>4, <2>5, CountsKept DEF CountsInv
  <2>7. QED
    BY <2>2, <2>3, <2>6
<1>10. ASSUME UNCHANGED dungeon, NEW side \in Sides, StartTurn(side)
       PROVE  IInv'
  <2>1. /\ UNCHANGED <<doors, loc, bags, pious, isBlueOpen, switch>>
        /\ spent' = [c \in Characters |-> IF c \in side THEN [actions |-> 0, moves |-> 0] ELSE spent[c]]
    BY <1>10 DEF StartTurn
  <2>2. DoorInv' /\ StandInv'
    BY <1>10, <2>1, StutterStands
  <2>3. \A c \in Characters : Actions[c] \in Nat /\ Moves[c] \in Nat
    BY LimitFacts DEF DoorInv, DoorsStay
  <2>4. /\ spent' \in [Characters -> [actions : Nat, moves : Nat]]
        /\ \A c \in Characters : spent'[c] \in [actions : 0 .. Actions[c], moves : 0 .. Moves[c]]
    BY <2>1, <2>3 DEF CountsInv
  <2>5. CountsInv'
    BY <1>10, <2>1, <2>4, CountsKept DEF CountsInv
  <2>6. QED
    BY <2>2, <2>5
<1>11. CASE UNCHANGED vars
  <2>1. UNCHANGED <<dungeon, doors, loc, bags, spent, pious, isBlueOpen, switch>>
    BY <1>11 DEF vars
  <2>2. DoorInv' /\ StandInv'
    BY <2>1, StutterStands
  <2>3. CountsInv'
    BY <2>1, CountsKept DEF CountsInv
  <2>4. QED
    BY <2>2, <2>3
<1>12. QED
  BY <1>1, <1>2, <1>3, <1>4, <1>5, <1>6, <1>7, <1>8, <1>9, <1>10, <1>11 DEF Next

\* The invariant holds throughout.
THEOREM DoorwaysInvariant == Spec => []IInv
BY FirstIsSafe, StepIsSafe, PTL DEF Spec

\* What a lock, a switch or a covenant does to one side of a wall it does to the
\* other, to the whole family and to the whole colour (DoorController, Match::setSharedDoorsByTrait,
\* Match::toggleDoors).
THEOREM DoorsAlwaysAgree == Spec => []DoorsAgree
<1>1. IInv => DoorsAgree
  BY DEF IInv, DoorInv
<1>2. QED
  BY <1>1, DoorwaysInvariant, PTL

\* No lock is turned on anybody, and doorways keep apart who stands in them, but where
\* a time gate ends.
THEOREM DoorwaysStaySafe == Spec => []DoorwaysAreSafe
<1>1. IInv => DoorwaysAreSafe
  BY DEF IInv, DoorInv, DoorsStay, StandInv, CountsInv, DoorwaysAreSafe, TypeOK
<1>2. QED
  BY <1>1, DoorwaysInvariant, PTL

-----------------------------------------------------------------------------
(* Keys.                                                                   *)

IsKeyed(door) == DoorTraits[door] \cap KeyFamilies # {} /\ "KEYED" \in DoorTraits[door]
Wall(cell) == {cell, Opposite(cell[1], cell[2])}

\* A key turns both sides of a wall, which is one lock.
LEMMA BothKeyed ==
  ASSUME DoorInv, NEW q \in Rooms, NEW e \in Dirs, <<q, e>> \in Keyed
  PROVE  Opposite(q, e) \in Keyed /\ Wall(<<q, e>>) = {<<q, e>>, Opposite(q, e)}
<1>1. doors[q][e] \in Door /\ IsKeyed(doors[q][e])
  BY DEF Keyed, IsKeyed, DoorInv, DoorsStay
<1>2. HasLock(doors[q][e]) /\ isSharedDoorway(doors[q][e])
  BY <1>1, KindsOfDoors DEF IsKeyed, HasLock, Families
<1>3. Adjacent[q][e] \in Rooms /\ Flip(e) \in Dirs
  BY <1>2, TwoSides, FlipFacts DEF DoorInv
<1>4. IsKeyed(doors[Adjacent[q][e]][Flip(e)])
  BY <1>1, <1>2, FarSide DEF IsKeyed, LockTraits, Families
<1>5. QED
  BY <1>3, <1>4 DEF Keyed, IsKeyed, Opposite, Wall

\* A wall with a key in one of its cells is no other wall.
LEMMA OneLock ==
  ASSUME DoorInv, NEW r \in Rooms, NEW d \in Dirs, isSharedDoorway(doors[r][d]), NEW cell \in Keyed
  PROVE  /\ Wall(cell) = Wall(<<r, d>>) <=> cell \in {<<r, d>>, Opposite(r, d)}
         /\ Wall(cell) = Wall(<<r, d>>) => <<r, d>> \in Keyed
<1>1. PICK q \in Rooms, e \in Dirs : cell = <<q, e>>
  BY DEF Keyed
<1>2. Opposite(q, e) \in Keyed /\ Wall(cell) = {<<q, e>>, Opposite(q, e)}
  BY <1>1, BothKeyed
<1>3. Wall(<<r, d>>) = {<<r, d>>, Opposite(r, d)}
  BY DEF Wall
<1>4. Opposite(r, d) = <<Adjacent[r][d], Flip(d)>> /\ Opposite(Adjacent[r][d], Flip(d)) = <<r, d>>
  BY TwoSides DEF DoorInv, Opposite
<1>5. cell = Opposite(r, d) => Opposite(q, e) = <<r, d>>
  BY <1>1, <1>4
<1>6. QED
  BY <1>1, <1>2, <1>3, <1>5

\* A lock that is used is a turn of the ledger's or leaves it as it is.
LEMMA UseLockLedger ==
  ASSUME IInv, UNCHANGED dungeon, NEW p \in Players, NEW c \in Characters, NEW r \in Rooms, NEW d \in Dirs,
         UseLock(p, c, r, d)
  PROVE  [Ledger!Next]_(Ledger!vars)
<1> DEFINE rule == TheRule(doors[r][d])
           cells == {<<r, d>>, Opposite(r, d)}
           near == doors[r][d]
           held == [o \in Players |-> Held(bags[o], "KEY")]
           heldNext == [o \in Players |-> Held(bags'[o], "KEY")]
           walls == {Wall(cell) : cell \in Keyed}
           wallsNext == {Wall(cell) : cell \in Keyed'}
<1>1. /\ near \in RuleDoors
      /\ rule.unless \cap DoorTraits[near] = {}
      /\ rule.takes # {} => Has(bags[p], "KEY")
      /\ rule.gives # {} => Accepts(bags[p], "KEY")
      /\ HasDoor(Becomes(rule, near))
      /\ HasDoor(Becomes(rule, doors[Adjacent[r][d]][Flip(d)]))
      /\ doors' = setSharedDoorsByTrait(rule, r, d)
      /\ bags' = [bags EXCEPT ![p] = KeyPaid(rule, bags[p])]
  BY DEF UseLock
<1>2. DoorInv /\ bags \in [Players -> Inventories]
  BY DEF IInv, CountsInv
<1>3. /\ IsRule(rule) /\ isSharedDoorway(near)
      /\ \A q \in Rooms, e \in Dirs : <<q, e>> \in cells =>
           /\ rule.match \cap Families \subseteq DoorTraits[doors[q][e]]
           /\ rule.match \cap LockTraits \subseteq DoorTraits[doors[q][e]]
           /\ DoorTraits[doors'[q][e]] = Becomes(rule, doors[q][e])
           /\ DoorTraits[doors'[q][e]] \cap Families = DoorTraits[doors[q][e]] \cap Families
      /\ \A q \in Rooms, e \in Dirs : <<q, e>> \notin cells =>
           doors'[q][e] = ShutWithAll(rule, doors[q][e])
  BY <1>1, <1>2, LockTurned
<1> HIDE DEF rule
<1>4. /\ Adjacent[r][d] \in Rooms /\ Flip(d) \in Dirs /\ Opposite(r, d) = <<Adjacent[r][d], Flip(d)>>
      /\ cells \subseteq Rooms \X Dirs
      /\ "KEYED" \in DoorTraits[near] <=> "KEYED" \in DoorTraits[doors[Adjacent[r][d]][Flip(d)]]
  BY <1>2, <1>3, TwoSides, FarSide, FlipFacts DEF DoorInv, Opposite, LockTraits
<1>5. /\ Rooms' = Rooms /\ Players' = Players /\ \A q, e : Opposite(q, e)' = Opposite(q, e)
      /\ Keyed = {cell \in Rooms \X Dirs : IsKeyed(doors[cell[1]][cell[2]])}
      /\ Keyed' = {cell \in Rooms \X Dirs : IsKeyed(doors'[cell[1]][cell[2]])}
  BY SameWalls DEF Keyed, IsKeyed
<1>6. \A cell \in Rooms \X Dirs : cell \notin cells => (cell \in Keyed' <=> cell \in Keyed)
  <2> SUFFICES ASSUME NEW q \in Rooms, NEW e \in Dirs, <<q, e>> \notin cells
               PROVE  IsKeyed(doors'[q][e]) <=> IsKeyed(doors[q][e])
    BY <1>5
  <2>1. doors'[q][e] = ShutWithAll(rule, doors[q][e]) /\ doors[q][e] \in Door
    BY <1>2, <1>3 DEF DoorInv, DoorsStay
  <2>2. doors'[q][e] = doors[q][e] \/ (doors[q][e] \in Covenants /\ doors'[q][e] \in Covenants)
    BY <1>3, <2>1, ShutDoor DEF Covenants
  <2>3. \A x \in Covenants : ~ IsKeyed(x)
    BY CovenantDoors DEF IsKeyed
  <2>4. QED
    BY <2>2, <2>3
<1>7. KeyPaid(rule, bags[p]) \in Inventories
  BY <1>1, <1>2, <1>3, KeyPaidFacts
<1>8. held \in [Players -> Nat] /\ heldNext = [held EXCEPT ![p] = Held(KeyPaid(rule, bags[p]), "KEY")]
  <2>1. \A o \in Players : Held(bags[o], "KEY") \in Nat
    BY <1>2, UnitsAreFinite DEF Items, Stack
  <2>2. \A o \in Players : bags'[o] = IF o = p THEN KeyPaid(rule, bags[p]) ELSE bags[o]
    BY <1>1, <1>2
  <2>3. QED
    BY <2>1, <2>2
<1> DEFINE NextLedger ==
      \E o \in Players :
        \/ \E wall \in wallsNext \ walls :
             /\ held[o] > 0 /\ heldNext = [held EXCEPT ![o] = held[o] - 1]
             /\ wall \notin walls /\ wallsNext = walls \cup {wall}
        \/ \E wall \in walls \ wallsNext :
             /\ wall \in walls /\ wallsNext = walls \ {wall}
             /\ heldNext = [held EXCEPT ![o] = held[o] + 1]
<1>9. NextLedger \/ (heldNext = held /\ wallsNext = walls)
  <2>1. held[p] = Held(bags[p], "KEY")
    OBVIOUS
  <2>2. \A q \in Rooms, e \in Dirs : <<q, e>> \in cells => DoorTraits[doors'[q][e]] = Becomes(rule, doors[q][e])
    BY <1>3
  <2>3. bags[p] \in Inventories
    BY <1>2
  <2>4. rule.set \cap rule.clear = {}
    BY <1>3 DEF IsRule
  <2> HIDE DEF held, heldNext
  <2>5. CASE Takes(rule)
    <3>0. /\ Held(bags[p], "KEY") > 0
          /\ Held(KeyPaid(rule, bags[p]), "KEY") = Held(bags[p], "KEY") - 1
      BY <1>1, <1>3, <2>3, <2>5, KeyPaidFacts
    <3>1. heldNext = [held EXCEPT ![p] = held[p] - 1]
      BY <1>8, <2>1, <3>0
    <3>2. "KEYED" \notin DoorTraits[near]
      BY <1>1, <2>5 DEF Takes
    <3>3. \A cell \in cells : cell \notin Keyed
      BY <1>4, <1>5, <3>2 DEF IsKeyed
    <3>4. \A cell \in cells : cell \in Keyed'
      <4> SUFFICES ASSUME NEW q \in Rooms, NEW e \in Dirs, <<q, e>> \in cells
                   PROVE  IsKeyed(doors'[q][e])
        BY <1>4, <1>5
      <4>1. DoorTraits[doors'[q][e]] \cap KeyFamilies # {}
        BY <1>3, <2>5 DEF Takes, Families
      <4>2. "KEYED" \in DoorTraits[doors'[q][e]]
        BY <2>2, <2>4, <2>5 DEF Takes, Becomes
      <4>3. QED
        BY <4>1, <4>2 DEF IsKeyed
    <3>5. Keyed' = Keyed \cup cells
      BY <1>4, <1>5, <1>6, <3>4
    <3>6. Wall(<<r, d>>) \notin walls
      BY <1>2, <1>3, <3>3, OneLock
    <3>7. Wall(Opposite(r, d)) = Wall(<<r, d>>)
      BY <1>2, <1>3, <1>4, TwoSides DEF DoorInv, Wall
    <3>8. wallsNext = walls \cup {Wall(<<r, d>>)}
      BY <3>5, <3>7
    <3>9. QED
      BY <2>1, <3>0, <3>1, <3>6, <3>8
  <2>6. CASE Gives(rule)
    <3>0. Held(KeyPaid(rule, bags[p]), "KEY") = Held(bags[p], "KEY") + 1
      BY <1>1, <1>3, <2>3, <2>6, KeyPaidFacts
    <3>1. heldNext = [held EXCEPT ![p] = held[p] + 1]
      BY <1>8, <2>1, <3>0
    <3>2. \A cell \in cells : cell \in Keyed
      <4> SUFFICES ASSUME NEW q \in Rooms, NEW e \in Dirs, <<q, e>> \in cells
                   PROVE  IsKeyed(doors[q][e])
        BY <1>4, <1>5
      <4>1. QED
        BY <1>3, <2>6 DEF Gives, Families, LockTraits, IsKeyed
    <3>3. \A cell \in cells : cell \notin Keyed'
      <4> SUFFICES ASSUME NEW q \in Rooms, NEW e \in Dirs, <<q, e>> \in cells
                   PROVE  ~ IsKeyed(doors'[q][e])
        BY <1>4, <1>5
      <4>1. QED
        BY <2>2, <2>6 DEF Gives, Becomes, IsKeyed
    <3>4. Keyed' = Keyed \ cells
      BY <1>4, <1>5, <1>6, <3>3
    <3>5. \A cell \in Keyed : Wall(cell) = Wall(<<r, d>>) <=> cell \in cells
      BY <1>2, <1>3, OneLock
    <3>6. wallsNext = walls \ {Wall(<<r, d>>)} /\ Wall(<<r, d>>) \in walls
      BY <3>2, <3>4, <3>5
    <3>7. QED
      BY <3>1, <3>6
  <2>7. CASE Keyless(rule)
    <3>1. heldNext = held
      BY <1>1, <1>3, <1>8, <2>1, <2>3, <2>7, KeyPaidFacts
    <3>2. \A q \in Rooms, e \in Dirs : <<q, e>> \in cells => (IsKeyed(doors'[q][e]) <=> IsKeyed(doors[q][e]))
      BY <1>3, <2>2, <2>7 DEF Keyless, Becomes, IsKeyed, Families
    <3>3. Keyed' = Keyed
      BY <1>4, <1>5, <1>6, <3>2
    <3>4. QED
      BY <3>1, <3>3
  <2>8. QED
    BY <1>3, <2>5, <2>6, <2>7 DEF IsRule
<1>10. KeysHeld = held /\ KeysHeld' = heldNext /\ KeyedWalls = walls /\ KeyedWalls' = wallsNext
  BY <1>5 DEF KeysHeld, KeyedWalls, Wall
<1> HIDE DEF held, heldNext, walls, wallsNext
<1>11. DOMAIN KeysHeld = Players
  BY DEF KeysHeld
<1>12. CASE NextLedger
  BY <1>10, <1>11, <1>12 DEF Ledger!Next, Ledger!Turn, Ledger!Return
<1>13. QED
  BY <1>9, <1>10, <1>12 DEF Ledger!vars

\* The steps that touch doors or bags.
LEMMA DoorSteps ==
  ASSUME [Next]_vars
  PROVE  /\ UNCHANGED dungeon
         /\ \/ UNCHANGED <<doors, bags>>
            \/ \E c \in Characters, r \in Rooms :
                 \/ UseTimeGate(c, r)
                 \/ \E s \in Switches : UseSwitch(s, c, r)
                 \/ \E d \in Dirs, p \in Players : UseLock(p, c, r, d) \/ UseCube(p, c, r, d)
<1>1. CASE UNCHANGED vars
  BY <1>1 DEF vars
<1>2. CASE Next
  <2>1. /\ \A c, r, f : MoveToFloor(c, r, f) => UNCHANGED <<doors, bags>>
        /\ \A s, c, r : UseSacrament(s, c, r) => UNCHANGED <<doors, bags>>
        /\ \A c, r, d : MoveToDoor(c, r, d) => UNCHANGED <<doors, bags>>
        /\ \A c, r, d : UseShaft(c, r, d) => UNCHANGED <<doors, bags>>
        /\ \A p, c, r, d : ExitDungeon(p, c, r, d) => UNCHANGED <<doors, bags>>
        /\ \A side : StartTurn(side) => UNCHANGED <<doors, bags>>
    BY DEF MoveToFloor, UseSacrament, MoveToDoor, UseShaft, ExitDungeon, StartTurn
  <2>2. QED
    BY <1>2, <2>1 DEF Next
<1>3. QED
  BY <1>1, <1>2

\* The ledger stands still when no lock gets or loses a key and no bag does.
LEMMA KeysStay ==
  ASSUME UNCHANGED dungeon,
         \A q \in Rooms, e \in Dirs : IsKeyed(doors'[q][e]) <=> IsKeyed(doors[q][e]),
         \A o \in Players : Held(bags'[o], "KEY") = Held(bags[o], "KEY")
  PROVE  UNCHANGED Ledger!vars
<1>1. Rooms' = Rooms /\ Players' = Players /\ \A q, e : Opposite(q, e)' = Opposite(q, e)
  BY SameWalls
<1>2. KeysHeld' = KeysHeld
  BY <1>1 DEF KeysHeld
<1>3. Keyed' = Keyed
  BY <1>1 DEF Keyed, IsKeyed
<1>4. KeyedWalls' = KeyedWalls
  BY <1>1, <1>3 DEF KeyedWalls
<1>5. QED
  BY <1>2, <1>4 DEF Ledger!vars

\* Every step is one of the ledger's or leaves it as it is.
LEMMA StepIsLedgers == IInv /\ [Next]_vars => [Ledger!Next]_(Ledger!vars)
<1> SUFFICES ASSUME IInv, [Next]_vars PROVE [Ledger!Next]_(Ledger!vars)
  OBVIOUS
<1>1. /\ UNCHANGED dungeon /\ DoorInv /\ bags \in [Players -> Inventories]
      /\ \A q \in Rooms, e \in Dirs : doors[q][e] \in Door
  BY DoorSteps DEF IInv, CountsInv, DoorInv, DoorsStay
<1>2. \A x \in Fixed \cup Togglers \cup TimeGates \cup Rods : ~ IsKeyed(x)
  BY KindsOfDoors DEF IsKeyed, HasLock, Families
<1>3. CASE UNCHANGED <<doors, bags>>
  BY <1>1, <1>3, KeysStay
<1>4. ASSUME NEW c \in Characters, NEW r \in Rooms, UseTimeGate(c, r)
      PROVE  UNCHANGED Ledger!vars
  <2>1. \A q \in Rooms, e \in Dirs :
          doors'[q][e] = doors[q][e] \/ {doors[q][e], doors'[q][e]} \subseteq TimeGates
    BY <1>1, <1>4, UseTimeGateDoors DEF TimeGates
  <2>2. UNCHANGED bags
    BY <1>4 DEF UseTimeGate
  <2>3. \A q \in Rooms, e \in Dirs : IsKeyed(doors'[q][e]) <=> IsKeyed(doors[q][e])
    BY <1>2, <2>1
  <2>4. QED
    BY <1>1, <2>2, <2>3, KeysStay
<1>5. ASSUME NEW s \in Switches, NEW c \in Characters, NEW r \in Rooms, UseSwitch(s, c, r)
      PROVE  UNCHANGED Ledger!vars
  <2>1. UNCHANGED bags /\ doors' = toggleDoors(~ isBlueOpen)
    BY <1>5 DEF UseSwitch
  <2>2. \A q \in Rooms, e \in Dirs :
          doors'[q][e] = doors[q][e] \/ {doors[q][e], doors'[q][e]} \subseteq Togglers
    BY <2>1 DEF toggleDoors, Togglers
  <2>3. \A q \in Rooms, e \in Dirs : IsKeyed(doors'[q][e]) <=> IsKeyed(doors[q][e])
    BY <1>2, <2>2
  <2>4. QED
    BY <1>1, <2>1, <2>3, KeysStay
<1>6. ASSUME NEW c \in Characters, NEW r \in Rooms, NEW d \in Dirs, NEW p \in Players, UseCube(p, c, r, d)
      PROVE  UNCHANGED Ledger!vars
  <2>1. PICK x \in Exchange(doors[r][d], bags[p]) :
          doors' = [doors EXCEPT ![r][d] = x.door] /\ bags' = [bags EXCEPT ![p] = x.bag]
    BY <1>6 DEF UseCube
  <2>2. /\ Held(x.bag, "KEY") = Held(bags[p], "KEY")
        /\ \E kind \in {TimeGates, Rods} : doors[r][d] \in kind /\ x.door \in kind
    BY <1>1, ExchangeFacts
  <2>3. /\ \A q \in Rooms, e \in Dirs : doors'[q][e] = IF q = r /\ e = d THEN x.door ELSE doors[q][e]
        /\ \A o \in Players : bags'[o] = IF o = p THEN x.bag ELSE bags[o]
    BY <1>1, <2>1 DEF DoorInv, DoorsStay
  <2>4. \A q \in Rooms, e \in Dirs : IsKeyed(doors'[q][e]) <=> IsKeyed(doors[q][e])
    BY <1>2, <2>2, <2>3
  <2>5. \A o \in Players : Held(bags'[o], "KEY") = Held(bags[o], "KEY")
    BY <2>2, <2>3
  <2>6. QED
    BY <1>1, <2>4, <2>5, KeysStay
<1>7. QED
  BY <1>1, <1>3, <1>4, <1>5, <1>6, UseLockLedger, DoorSteps

-----------------------------------------------------------------------------
(* Cubes.                                                                  *)

\* What a sacrament takes and gives back.
CubeItems == {"CUBE_AWAKENED", "CUBE_DORMANT"}

\* An exchange moves one cube between a slot and the wall.
LEMMA ExchangedCube ==
  ASSUME NEW v \in Inventories, NEW door, NEW x \in Exchange(door, v)
  PROVE  \E s \in Slots :
           /\ \A t \in Slots : t # s => x.bag[t] = v[t]
           /\ \/ /\ v[s].item \in CubeItems /\ x.bag[s].item \notin CubeItems
                 /\ door \notin CubeDoors /\ x.door \in CubeDoors
              \/ /\ v[s].item \notin CubeItems /\ x.bag[s].item \in CubeItems
                 /\ door \in CubeDoors /\ x.door \notin CubeDoors
<1>1. \A i \in CubeItems : i \in Items /\ Stack[i] = 1
  BY DEF CubeItems, Items, Stack
<1>2. PICK i \in CubeItems :
        \/ Accepts(v, i) /\ x.bag = giveItem(v, i) /\ door \in CubeDoors /\ x.door \notin CubeDoors
        \/ Has(v, i) /\ x.bag = takeItem(v, i) /\ door \notin CubeDoors /\ x.door \in CubeDoors
  BY DEF Exchange, Drain, Fill, CubeItems, CubeDoors
<1>3. CASE Accepts(v, i) /\ x.bag = giveItem(v, i) /\ door \in CubeDoors /\ x.door \notin CubeDoors
  BY <1>1, <1>3, SlotGiven DEF CubeItems
<1>4. CASE Has(v, i) /\ x.bag = takeItem(v, i) /\ door \notin CubeDoors /\ x.door \in CubeDoors
  BY <1>1, <1>4, SlotTaken DEF CubeItems
<1>5. QED
  BY <1>2, <1>3, <1>4

\* A key that is paid or given back takes no cube's slot.
LEMMA KeysAreNoCubes ==
  ASSUME NEW v \in Inventories, NEW rule, IsRule(rule),
         rule.takes # {} => Has(v, "KEY"), rule.gives # {} => Accepts(v, "KEY"), NEW t \in Slots
  PROVE  KeyPaid(rule, v)[t].item \in CubeItems <=> v[t].item \in CubeItems
<1>1. "KEY" \in Items
  BY DEF Items, Stack
<1>2. CASE rule.takes # {}
  <2>1. KeyPaid(rule, v) = takeItem(v, "KEY") /\ Has(v, "KEY")
    BY <1>2 DEF KeyPaid
  <2>2. QED
    BY <1>1, <2>1, SlotTaken DEF CubeItems
<1>3. CASE rule.takes = {} /\ rule.gives # {}
  <2>1. KeyPaid(rule, v) = giveItem(v, "KEY") /\ Accepts(v, "KEY")
    BY <1>3 DEF KeyPaid
  <2>2. QED
    BY <1>1, <2>1, SlotGiven DEF CubeItems
<1>4. CASE rule.takes = {} /\ rule.gives = {}
  BY <1>4 DEF KeyPaid
<1>5. QED
  BY <1>2, <1>3, <1>4

\* There are finitely many cubes.
LEMMA CubesAreFinite == dungeon \in Dungeons => IsFiniteSet(CarriedCubes) /\ IsFiniteSet(PlacedCubes)
<1> SUFFICES ASSUME dungeon \in Dungeons PROVE IsFiniteSet(CarriedCubes) /\ IsFiniteSet(PlacedCubes)
  OBVIOUS
<1>1. IsFiniteSet(Players) /\ IsFiniteSet(Slots) /\ IsFiniteSet(Rooms) /\ IsFiniteSet(Dirs)
  <2>1. 0 \in Int /\ 1 \in Int /\ 3 \in Int /\ SlotCount \in Int
    BY InventoryAssumption
  <2>2. IsFiniteSet(1 .. SlotCount) /\ IsFiniteSet(0 .. 3)
    BY <2>1, FS_Interval
  <2>3. QED
    BY <2>2, DungeonAssumption DEF IsDungeon, Players, Bag, Rooms, Slots, Dirs
<1>2. IsFiniteSet(Players \X Slots) /\ IsFiniteSet(Rooms \X Dirs)
  BY <1>1, FS_Product
<1>3. CarriedCubes \in SUBSET (Players \X Slots) /\ PlacedCubes \in SUBSET (Rooms \X Dirs)
  BY DEF CarriedCubes, PlacedCubes
<1>4. QED
  BY <1>2, <1>3, FS_Subset

\* Cubes are counted by where they are.
LEMMA CubesCounted ==
  ASSUME dungeon \in Dungeons, UNCHANGED dungeon,
         \/ CarriedCubes' = CarriedCubes /\ PlacedCubes \subseteq PlacedCubes'
         \/ \E x \in CarriedCubes : \E y : y \notin PlacedCubes /\
              CarriedCubes' = CarriedCubes \ {x} /\ PlacedCubes' = PlacedCubes \cup {y}
         \/ \E y \in PlacedCubes : \E x : x \notin CarriedCubes /\
              CarriedCubes' = CarriedCubes \cup {x} /\ PlacedCubes' = PlacedCubes \ {y}
  PROVE  Cubes' >= Cubes
<1>1. IsFiniteSet(CarriedCubes) /\ IsFiniteSet(PlacedCubes)
  BY CubesAreFinite
<1>2. IsFiniteSet(CarriedCubes)' /\ IsFiniteSet(PlacedCubes)'
  <2>1. (dungeon \in Dungeons => IsFiniteSet(CarriedCubes) /\ IsFiniteSet(PlacedCubes))'
    BY CubesAreFinite, PTL
  <2>2. QED
    BY <2>1
<1> DEFINE a == Cardinality(CarriedCubes)
           b == Cardinality(PlacedCubes)
<1>3. a \in Nat /\ b \in Nat
  BY <1>1, FS_CardinalityType
<1>4. CASE CarriedCubes' = CarriedCubes /\ PlacedCubes \subseteq PlacedCubes'
  <2>1. Cardinality(PlacedCubes') \in Nat /\ b <= Cardinality(PlacedCubes')
    BY <1>2, <1>4, FS_Subset, FS_CardinalityType
  <2>2. Cardinality(CarriedCubes') = a
    BY <1>4
  <2> HIDE DEF a, b
  <2>3. QED
    BY <1>3, <2>1, <2>2 DEF Cubes, a, b
<1>5. ASSUME NEW x \in CarriedCubes, NEW y, y \notin PlacedCubes,
             CarriedCubes' = CarriedCubes \ {x}, PlacedCubes' = PlacedCubes \cup {y}
      PROVE  Cubes' >= Cubes
  <2>1. Cardinality(CarriedCubes') = a - 1 /\ Cardinality(PlacedCubes') = b + 1
    BY <1>1, <1>5, FS_AddElement, FS_RemoveElement
  <2> HIDE DEF a, b
  <2>2. QED
    BY <1>3, <2>1 DEF Cubes, a, b
<1>6. ASSUME NEW x, x \notin CarriedCubes, NEW y \in PlacedCubes,
             CarriedCubes' = CarriedCubes \cup {x}, PlacedCubes' = PlacedCubes \ {y}
      PROVE  Cubes' >= Cubes
  <2>1. Cardinality(CarriedCubes') = a + 1 /\ Cardinality(PlacedCubes') = b - 1
    BY <1>1, <1>6, FS_AddElement, FS_RemoveElement
  <2> HIDE DEF a, b
  <2>2. QED
    BY <1>3, <2>1 DEF Cubes, a, b
<1>7. QED
  BY <1>4, <1>5, <1>6

\* No step loses a cube.
LEMMA StepKeepsCubes == IInv /\ [Next]_vars => Cubes' >= Cubes
<1> SUFFICES ASSUME IInv, [Next]_vars PROVE Cubes' >= Cubes
  OBVIOUS
<1>1. /\ UNCHANGED dungeon /\ dungeon \in Dungeons /\ DoorInv /\ bags \in [Players -> Inventories]
      /\ \A q \in Rooms, e \in Dirs : doors[q][e] \in Door
  BY DoorSteps DEF IInv, CountsInv, DoorInv, DoorsStay
<1>2. /\ Rooms' = Rooms /\ Players' = Players
      /\ CarriedCubes = {slot \in Players \X Slots : bags[slot[1]][slot[2]].item \in CubeItems}
      /\ CarriedCubes' = {slot \in Players \X Slots : bags'[slot[1]][slot[2]].item \in CubeItems}
      /\ PlacedCubes = {cell \in Rooms \X Dirs : doors[cell[1]][cell[2]] \in CubeDoors}
      /\ PlacedCubes' = {cell \in Rooms \X Dirs : doors'[cell[1]][cell[2]] \in CubeDoors}
  BY <1>1, SameWalls DEF CarriedCubes, PlacedCubes, CubeItems
<1>3. CASE UNCHANGED <<doors, bags>>
  <2>1. CarriedCubes' = CarriedCubes /\ PlacedCubes' = PlacedCubes
    BY <1>2, <1>3
  <2>2. QED
    BY <1>1, <2>1, CubesCounted
<1>4. ASSUME NEW c \in Characters, NEW r \in Rooms, UseTimeGate(c, r)
      PROVE  Cubes' >= Cubes
  <2>1. \A q \in Rooms, e \in Dirs : doors'[q][e] = doors[q][e] \/ doors'[q][e] \in CubeDoors
    BY <1>1, <1>4, UseTimeGateDoors DEF CubeDoors
  <2>2. UNCHANGED bags
    BY <1>4 DEF UseTimeGate
  <2>3. CarriedCubes' = CarriedCubes /\ PlacedCubes \subseteq PlacedCubes'
    BY <1>2, <2>1, <2>2
  <2>4. QED
    BY <1>1, <2>3, CubesCounted
<1>5. ASSUME NEW s \in Switches, NEW c \in Characters, NEW r \in Rooms, UseSwitch(s, c, r)
      PROVE  Cubes' >= Cubes
  <2>1. UNCHANGED bags /\ doors' = toggleDoors(~ isBlueOpen)
    BY <1>5 DEF UseSwitch
  <2>2. \A q \in Rooms, e \in Dirs :
          doors'[q][e] = doors[q][e] \/ {doors[q][e], doors'[q][e]} \subseteq Togglers
    BY <2>1 DEF toggleDoors, Togglers
  <2>3. \A q \in Rooms, e \in Dirs : doors'[q][e] \in CubeDoors <=> doors[q][e] \in CubeDoors
    BY <2>2 DEF Togglers, CubeDoors
  <2>4. CarriedCubes' = CarriedCubes /\ PlacedCubes' = PlacedCubes
    BY <1>2, <2>1, <2>3
  <2>5. QED
    BY <1>1, <2>4, CubesCounted
<1>6. ASSUME NEW c \in Characters, NEW r \in Rooms, NEW d \in Dirs, NEW p \in Players, UseLock(p, c, r, d)
      PROVE  Cubes' >= Cubes
  <2> DEFINE rule == TheRule(doors[r][d])
  <2>1. /\ doors[r][d] \in RuleDoors
        /\ rule.takes # {} => Has(bags[p], "KEY")
        /\ rule.gives # {} => Accepts(bags[p], "KEY")
        /\ HasDoor(Becomes(rule, doors[r][d]))
        /\ HasDoor(Becomes(rule, doors[Adjacent[r][d]][Flip(d)]))
        /\ doors' = setSharedDoorsByTrait(rule, r, d)
        /\ bags' = [bags EXCEPT ![p] = KeyPaid(rule, bags[p])]
    BY <1>6 DEF UseLock
  <2>2. /\ IsRule(rule) /\ \A q \in Rooms, e \in Dirs : SameKind(doors[q][e], doors'[q][e])
        /\ doors' \in [Rooms -> [Dirs -> Door]]
        /\ \A q \in Rooms, e \in Dirs :
             HasLock(doors[q][e]) \/ doors'[q][e] = ShutWithAll(rule, doors[q][e])
    BY <1>1, <2>1, LockTurned
  <2> HIDE DEF rule
  <2>3. \A x \in CubeDoors : x \in TimeGates \cup Rods
    BY DEF CubeDoors, TimeGates, Rods
  <2>4. ASSUME NEW q \in Rooms, NEW e \in Dirs
        PROVE  doors'[q][e] \in CubeDoors <=> doors[q][e] \in CubeDoors
    <3>1. doors[q][e] \in Door /\ doors'[q][e] \in Door /\ SameKind(doors[q][e], doors'[q][e])
      BY <1>1, <2>2
    <3>2. CASE HasLock(doors[q][e])
      BY <2>3, <3>1, <3>2, KindFacts, KindsOfDoors
    <3>3. CASE ~ HasLock(doors[q][e])
      <4>1. doors[q][e] \notin Covenants
        BY <3>3, CovenantDoors
      <4>2. doors'[q][e] = doors[q][e]
        BY <2>2, <3>1, <3>3, <4>1, ShutDoor
      <4>3. QED
        BY <4>2
    <3>4. QED
      BY <3>2, <3>3
  <2>5. \A t \in Slots : KeyPaid(rule, bags[p])[t].item \in CubeItems <=> bags[p][t].item \in CubeItems
    BY <1>1, <2>1, <2>2, KeysAreNoCubes
  <2>6. \A o \in Players : bags'[o] = IF o = p THEN KeyPaid(rule, bags[p]) ELSE bags[o]
    BY <1>1, <2>1
  <2>7. PlacedCubes' = PlacedCubes
    BY <1>2, <2>4
  <2>8. CarriedCubes' = CarriedCubes
    BY <1>2, <2>5, <2>6
  <2>9. QED
    BY <1>1, <2>7, <2>8, CubesCounted
<1>7. ASSUME NEW c \in Characters, NEW r \in Rooms, NEW d \in Dirs, NEW p \in Players, UseCube(p, c, r, d)
      PROVE  Cubes' >= Cubes
  <2>1. PICK x \in Exchange(doors[r][d], bags[p]) :
          doors' = [doors EXCEPT ![r][d] = x.door] /\ bags' = [bags EXCEPT ![p] = x.bag]
    BY <1>7 DEF UseCube
  <2>2. PICK s \in Slots :
          /\ \A t \in Slots : t # s => x.bag[t] = bags[p][t]
          /\ \/ /\ bags[p][s].item \in CubeItems /\ x.bag[s].item \notin CubeItems
                /\ doors[r][d] \notin CubeDoors /\ x.door \in CubeDoors
             \/ /\ bags[p][s].item \notin CubeItems /\ x.bag[s].item \in CubeItems
                /\ doors[r][d] \in CubeDoors /\ x.door \notin CubeDoors
    BY <1>1, ExchangedCube
  <2>3. /\ \A q \in Rooms, e \in Dirs : doors'[q][e] = IF q = r /\ e = d THEN x.door ELSE doors[q][e]
        /\ \A o \in Players : bags'[o] = IF o = p THEN x.bag ELSE bags[o]
    BY <1>1, <2>1 DEF DoorInv, DoorsStay
  <2>4. CASE bags[p][s].item \in CubeItems /\ x.bag[s].item \notin CubeItems
             /\ doors[r][d] \notin CubeDoors /\ x.door \in CubeDoors
    <3>1. /\ <<p, s>> \in CarriedCubes /\ <<r, d>> \notin PlacedCubes
          /\ CarriedCubes' = CarriedCubes \ {<<p, s>>}
      BY <1>2, <2>2, <2>3, <2>4
    <3>2. PlacedCubes' = PlacedCubes \cup {<<r, d>>}
      BY <1>2, <2>3, <2>4
    <3>3. QED
      BY <1>1, <3>1, <3>2, CubesCounted
  <2>5. CASE bags[p][s].item \notin CubeItems /\ x.bag[s].item \in CubeItems
             /\ doors[r][d] \in CubeDoors /\ x.door \notin CubeDoors
    <3>1. /\ <<p, s>> \notin CarriedCubes /\ <<r, d>> \in PlacedCubes
          /\ CarriedCubes' = CarriedCubes \cup {<<p, s>>}
      BY <1>2, <2>2, <2>3, <2>5
    <3>2. PlacedCubes' = PlacedCubes \ {<<r, d>>}
      BY <1>2, <2>3, <2>5
    <3>3. QED
      BY <1>1, <3>1, <3>2, CubesCounted
  <2>6. QED
    BY <2>2, <2>4, <2>5
<1>8. QED
  BY <1>3, <1>4, <1>5, <1>6, <1>7, DoorSteps

-----------------------------------------------------------------------------

\* Whatever locks give and take, the keys are a ledger's: a key is in a bag or in one
\* wall's lock, and changes hands alone (RuleFlyweight::activate, Inventory::giveItem,
\* Inventory::takeItem).  No exchange with a gate or a rod loses a cube.
THEOREM NothingIsEverLost == Spec => NothingIsLost
<1>1. Init => Ledger!Init
  <2> SUFFICES ASSUME Init PROVE Ledger!Init
    OBVIOUS
  <2>1. bags \in [Players -> Inventories]
    BY FirstIsSafe DEF IInv, CountsInv
  <2>2. KeysHeld \in [Players -> Nat] /\ DOMAIN KeysHeld = Players
    BY <2>1, UnitsAreFinite DEF KeysHeld, Items, Stack
  <2>3. QED
    BY <2>2 DEF Ledger!Init
<1>2. Spec => [][Ledger!Next]_(Ledger!vars)
  BY DoorwaysInvariant, StepIsLedgers, PTL DEF Spec
<1>3. IInv /\ [Next]_vars => [Cubes' >= Cubes]_vars
  BY StepKeepsCubes
<1>4. Spec => [][Cubes' >= Cubes]_vars
  BY <1>3, DoorwaysInvariant, PTL DEF Spec
<1>5. Spec => Ledger!Init
  BY <1>1 DEF Spec
<1>6. QED
  BY <1>2, <1>4, <1>5 DEF NothingIsLost, KeepsALedgerOfKeys, CubesAreNeverLost, Ledger!Spec
=============================================================================
