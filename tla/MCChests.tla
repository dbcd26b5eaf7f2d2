------------------------------ MODULE MCChests -------------------------------
(***************************************************************************)
(* Two builders, an oak chest with a cat, a key and a snake, an elm chest  *)
(* with a snake and a sword.  The first builder has a key, the second one  *)
(* armor and no room to spare.  They fence, or are pious, or hard to hurt. *)
(***************************************************************************)
EXTENDS Chests, TLC

Some(item) == [item |-> item, stacks |-> 1]
MCBags == 1 :> <<Some("KEY"), NoItem, NoItem>> @@ 2 :> <<Some("ARMOR"), Some("CUBE_DORMANT"), Some("COIN")>>
oak == 6
elm == 7
MCHolds ==
  oak :> << <<"CRITTER", 3>>, <<"KEY">>, <<"CRITTER", 4>> >> @@ elm :> << <<"CRITTER", 5>>, <<"SWORD">> >>
MCRoleOf == <<"BUILDER", "BUILDER", "CAT", "SNAKE", "SNAKE">>
MCBlows == {{}, {"CRUSH", "COLD"}, {"RANGED", "FIRE", "ELECTRIC"}}

Fencers == <<{"PARRY"}, {"PARRY", "WEAKNESS_PIERCE"}>>
Pilgrims == <<{"PIETY", "DEXTERITY", "POISE"}, {"PIETY", "EXITED_DUNGEON", "RESIST_FIRE"}>>

Shut(o, e) == oak :> o @@ elm :> e
Scene(a, l) == [holds |-> MCHolds, bags |-> MCBags, afflicted |-> a, lock |-> l]

MCScenes ==
  { Scene(Fencers, Shut("NIL", "KEY_KEEPER_CLOSED")),
    Scene(Pilgrims, Shut("KEY_CATALYST_CLOSED", "KEY_JAILER_CLOSED")),
    Scene(Fencers, Shut("COIN_JAILER_CLOSED", "KEY_CONSUMER_CLOSED")) }
=============================================================================
