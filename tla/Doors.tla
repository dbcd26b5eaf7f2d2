-------------------------------- MODULE Doors --------------------------------
(***************************************************************************)
(* The doors a wall can carry, each known by its traits, and the rules     *)
(* that a lock runs.  A rule matches a door by its traits, puts conditions *)
(* on the character and the door, may take or give a key, and changes the  *)
(* traits of the door on both sides of the wall; the door with the new     *)
(* traits takes the old one's place.                                       *)
(***************************************************************************)
EXTENDS Naturals, Sequences, FiniteSetsExt

Way(extra) == {"IS_DOORWAY", "IS_SHARED_DOORWAY"} \cup extra
Barred(extra) == Way({"IS_DOOR_BLOCKING"} \cup extra)

DoorTraits ==
  [ WALL |-> {"IS_DOOR_BLOCKING"}, EXIT |-> {"IS_DOORWAY"}, DOORWAY |-> Way({}),
    KEEPER_EGRESS_KEYED     |-> Way({"KEEPER", "KEYED", "EGRESS"}),
    KEEPER_EGRESS_KEYLESS   |-> Barred({"KEEPER", "EGRESS"}),
    KEEPER_INGRESS_KEYED    |-> Way({"KEEPER", "KEYED", "INGRESS"}),
    KEEPER_INGRESS_KEYLESS  |-> Barred({"KEEPER", "INGRESS"}),
    JAILER_EGRESS_KEYED     |-> Way({"JAILER", "KEYED", "EGRESS"}),
    JAILER_EGRESS_KEYLESS   |-> Barred({"JAILER", "EGRESS"}),
    JAILER_INGRESS_KEYED    |-> Way({"JAILER", "KEYED", "INGRESS"}),
    JAILER_INGRESS_KEYLESS  |-> Barred({"JAILER", "INGRESS"}),
    LATCH_EGRESS_CLOSED     |-> Barred({"LATCH", "EGRESS"}),
    LATCH_EGRESS_OPEN       |-> Way({"LATCH", "OPEN", "EGRESS"}),
    LATCH_INGRESS_CLOSED    |-> Barred({"LATCH", "INGRESS"}),
    LATCH_INGRESS_OPEN      |-> Way({"LATCH", "OPEN", "INGRESS"}),
    SHARER_KEYED            |-> Way({"SHARER", "KEYED"}),
    SHARER_KEYLESS          |-> Barred({"SHARER"}),
    SHIFTER_EGRESS_KEYED    |-> Way({"SHIFTER", "KEYED", "EGRESS"}),
    SHIFTER_EGRESS_KEYLESS  |-> Barred({"SHIFTER", "EGRESS"}),
    SHIFTER_INGRESS_KEYED   |-> Way({"SHIFTER", "KEYED", "INGRESS"}),
    SHIFTER_INGRESS_KEYLESS |-> Barred({"SHIFTER", "INGRESS"}),
    TOGGLER_ORANGE_CLOSED |-> Barred({}), TOGGLER_ORANGE_OPEN |-> Way({}),
    TOGGLER_BLUE_CLOSED   |-> Barred({}), TOGGLER_BLUE_OPEN   |-> Way({}),
    COVENANT_OPEN   |-> Way({"COVENANT", "OPEN"}),
    COVENANT_CLOSED |-> Barred({"COVENANT"}),
    LIGHTNING_ROD_AWAKENED |-> {}, LIGHTNING_ROD_DORMANT |-> {}, LIGHTNING_ROD_EMPTY |-> {},
    TIME_GATE_AWAKENED |-> {"IS_DOOR_BLOCKING"}, TIME_GATE_DORMANT |-> {"IS_DOOR_BLOCKING"},
    TIME_GATE_EMPTY    |-> {"IS_DOOR_BLOCKING"},
    POLE_1_BOTTOM |-> {"IS_DOOR_BLOCKING", "IS_DOORWAY"}, POLE_1_TOP |-> {"IS_DOORWAY"},
    LADDER_1_BOTTOM |-> {"IS_DOORWAY"}, LADDER_1_TOP |-> {"IS_DOORWAY"} ]

Door == DOMAIN DoorTraits

\* The doors whose lock runs the rules.  An open covenant door's does not.
RuleDoors ==
  {"KEEPER_INGRESS_KEYED", "KEEPER_INGRESS_KEYLESS", "JAILER_INGRESS_KEYLESS",
   "LATCH_INGRESS_CLOSED", "LATCH_INGRESS_OPEN", "SHARER_KEYED", "SHARER_KEYLESS",
   "SHIFTER_EGRESS_KEYED", "SHIFTER_INGRESS_KEYLESS", "COVENANT_CLOSED"}

isWalkable(door) == "IS_DOOR_BLOCKING" \notin DoorTraits[door]
isSharedDoorway(door) == "IS_SHARED_DOORWAY" \in DoorTraits[door]

\* The traits of the families below tell their doors apart, so that the first
\* door with the traits sought is the only one.
KeyFamilies == {"KEEPER", "JAILER", "SHARER", "SHIFTER"}
Families == KeyFamilies \cup {"LATCH", "COVENANT"}
HasDoor(traits) == \E d \in Door : DoorTraits[d] = traits
findByTraits(traits) == CHOOSE d \in Door : DoorTraits[d] = traits

-----------------------------------------------------------------------------
(* The rules, in the order in which they are tried.                        *)

\* (mutant) the door is barred without a look at the doorway.
KeyInBlindly(match) ==
  [match |-> match, actor |-> {"ACTOR", "KEYER", "ACTION_READY"}, unless |-> {},
   takes |-> {}, clearance |-> FALSE, gives |-> {"KEY"}, all |-> {},
   set |-> {"IS_DOOR_BLOCKING"}, clear |-> {"KEYED"}]

\* A key comes out of the lock and the door is barred.
KeyIn(match) ==
  [match |-> match, actor |-> {"ACTOR", "KEYER", "ACTION_READY"}, unless |-> {},
   takes |-> {}, clearance |-> TRUE, gives |-> {"KEY"}, all |-> {},
   set |-> {"IS_DOOR_BLOCKING"}, clear |-> {"KEYED"}]

\* A key goes into the lock and the door opens.
KeyOut(match, clearance) ==
  [match |-> match, actor |-> {"ACTOR", "KEYER", "ACTION_READY"}, unless |-> {"KEYED"},
   takes |-> {"KEY"}, clearance |-> clearance, gives |-> {}, all |-> {},
   set |-> {"KEYED"}, clear |-> {"IS_DOOR_BLOCKING"}]

\* A door opens or shuts without a key; opening may first shut a whole family.
Opens(match, actor, all) ==
  [match |-> match, actor |-> actor \cup {"ACTOR", "ACTION_READY"}, unless |-> {},
   takes |-> {}, clearance |-> FALSE, gives |-> {}, all |-> all,
   set |-> {"OPEN"}, clear |-> {"IS_DOOR_BLOCKING"}]
Shuts(match, actor, clearance) ==
  [match |-> match, actor |-> actor \cup {"ACTOR", "ACTION_READY"}, unless |-> {},
   takes |-> {}, clearance |-> clearance, gives |-> {}, all |-> {},
   set |-> {"IS_DOOR_BLOCKING"}, clear |-> {"OPEN"}]

Rules ==
  << Opens({"COVENANT", "IS_DOOR_BLOCKING"}, {"PIETY"}, {"COVENANT"}),
     Shuts({"COVENANT", "OPEN"}, {"PIETY"}, FALSE),
     KeyIn({"KEEPER", "KEYED", "INGRESS"}),   KeyOut({"KEEPER", "INGRESS"}, TRUE),
     KeyOut({"JAILER", "INGRESS"}, FALSE),
     Opens({"LATCH", "INGRESS", "IS_DOOR_BLOCKING"}, {}, {}),
     Shuts({"LATCH", "INGRESS", "OPEN"}, {}, TRUE),
     KeyIn({"SHARER", "KEYED"}),              KeyOut({"SHARER"}, TRUE),
     KeyIn({"SHIFTER", "KEYED", "EGRESS"}),   KeyOut({"SHIFTER", "INGRESS"}, TRUE) >>

Matching(door) == {i \in DOMAIN Rules : Rules[i].match \subseteq DoorTraits[door]}

\* The first rule that matches a door is its rule.
TheRule(door) == Rules[Min(Matching(door))]

\* A door after a rule's change of traits.
Becomes(rule, door) == (DoorTraits[door] \cup rule.set) \ rule.clear

\* A door when a rule shuts all the doors of a family.
ShutWithAll(rule, door) ==
  LET shut == (DoorTraits[door] \cup {"IS_DOOR_BLOCKING"}) \ {"OPEN"}
  IN  IF rule.all # {} /\ rule.all \subseteq DoorTraits[door] /\ HasDoor(shut)
        THEN findByTraits(shut) ELSE door
=============================================================================
