----------------------------- MODULE MCConducts ------------------------------
(***************************************************************************)
(* Small dungeons for model checking Conducts.                             *)
(***************************************************************************)
EXTENDS Conducts

East == 1
West == 3

\* Rooms 0 .. n - 1 in a row, each with a shared doorway to the next.
Row(n) ==
  [r \in 0 .. n - 1 |-> [d \in Dirs |-> CASE d = East /\ r < n - 1 -> r + 1
                                          [] d = West /\ r > 0 -> r - 1
                                          [] OTHER -> Unset]]
Wall(r) == {<<r, East>>, <<r + 1, West>>}

Holding(item) == [item |-> item, stacks |-> 1]
Bag(items, size) ==
  [i \in Slots |-> IF i <= Len(items) THEN Holding(items[i]) ELSE IF i <= size THEN NoItem ELSE Absent]

On(r, f) == Location("FLOOR", r, f)
Can(actions, moves) == [actions |-> actions, moves |-> moves]

\* A thief two rooms from the stash, which is behind a door that a switch opens,
\* and a builder with something to steal.
ThreeRooms ==
  [ rooms |-> 0 .. 2, floors |-> 0 .. 2, adjacent |-> Row(3), doorways |-> Wall(0), gates |-> Wall(1),
    switchRoom |-> 0, role |-> [b |-> "BUILDER", m |-> "MONKEY", c |-> "CADDY"],
    builders |-> <<"b">>, dwellers |-> <<"m", "c">>, drivers |-> {"b"},
    location |-> [b |-> On(1, 0), m |-> On(0, 0), c |-> On(2, 0)],
    bags |-> [b |-> Bag(<<"KEY", "COIN">>, 2), m |-> Bag(<<>>, 1), c |-> Bag(<<>>, 1)],
    allowed |-> [b |-> Can(1, 1), m |-> Can(2, 1), c |-> Can(0, 0)] ]

\* Two thieves, who watch each other, and a stash with room for one item.
TwoThieves ==
  [ rooms |-> 0 .. 1, floors |-> 0 .. 3, adjacent |-> Row(2), doorways |-> Wall(0), gates |-> {},
    switchRoom |-> 0, role |-> [b |-> "BUILDER", m |-> "MONKEY", n |-> "MONKEY", c |-> "CADDY"],
    builders |-> <<"b">>, dwellers |-> <<"m", "n", "c">>, drivers |-> {"b"},
    location |-> [b |-> On(0, 0), m |-> On(0, 1), n |-> On(0, 2), c |-> On(1, 0)],
    bags |-> [b |-> Bag(<<"COIN", "FOOD">>, 2), m |-> Bag(<<>>, 1), n |-> Bag(<<>>, 1), c |-> Bag(<<>>, 1)],
    allowed |-> [b |-> Can(0, 1), m |-> Can(2, 1), n |-> Can(2, 1), c |-> Can(0, 0)] ]

\* No stash, and a thief that requests order about as well.
NoStash ==
  [ rooms |-> 0 .. 1, floors |-> 0 .. 1, adjacent |-> Row(2), doorways |-> Wall(0), gates |-> {},
    switchRoom |-> 1, role |-> [b |-> "BUILDER", m |-> "MONKEY"],
    builders |-> <<"b">>, dwellers |-> <<"m">>, drivers |-> {"b", "m"},
    location |-> [b |-> On(0, 0), m |-> On(1, 0)],
    bags |-> [b |-> Bag(<<"COIN", "FOOD">>, 2), m |-> Bag(<<>>, 1)],
    allowed |-> [b |-> Can(1, 1), m |-> Can(2, 1)] ]

MCDungeons == {ThreeRooms, TwoThieves, NoStash}
=============================================================================
