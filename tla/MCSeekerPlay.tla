---------------------------- MODULE MCSeekerPlay ----------------------------
(* A person in slot 0 beside one in slot 1; two models of two, two and      *)
(* three neurons: the eager one wagers on what changed over two ticks and   *)
(* closes what is quiet, the wild one has weights of both signs and sizes. *)
(* A third, drawn at random, is only stored.                               *)
EXTENDS Records, TLC

TwoPlayers == 0 :> "ann" @@ 1 :> "bob"
Hands == 0 :> {"BOOST_CPU", "ROTATE_ROUTE", "CONNECT", "REMOVE_SERVER"} @@ 1 :> {"ADD_SERVER"}

Inputs == 23
Weights(given) == [i \in 1 .. Inputs |-> IF i \in DOMAIN given THEN given[i] ELSE 0]

Eager ==
  [hidden1 |-> [w |-> <<Weights(9 :> 256 @@ 10 :> 256), Weights(2 :> 256)>>, b |-> <<0, 0>>],
   hidden2 |-> [w |-> << <<512, 0>>, <<0, 256>> >>, b |-> <<0, 0>>],
   output |-> [w |-> << <<0, -256>>, <<-2048, 64>>, <<2048, 0>> >>, b |-> <<65536, -10000, 0>>]]

Wild ==
  [hidden1 |-> [w |-> <<Weights(3 :> -300 @@ 18 :> 700 @@ 23 :> 5), Weights(20 :> -128 @@ 22 :> 900)>>,
                b |-> <<-7000, 70000>>],
   hidden2 |-> [w |-> << <<-32768, 32767>>, <<300, -20>> >>, b |-> <<1000000, -1000000>>],
   output |-> [w |-> << <<30, 1>>, <<-1, 9>>, <<2, 90>> >>, b |-> <<-256, -300, 100>>]]

Draws == [n \in 1 .. 200 |-> (n * 7919 + 13) % 65521]
Models == [eager |-> Eager, wild |-> Wild, drawn |-> makeRandomSeekerModel(Draws, <<Inputs, 4, 3, 3>>)]
=============================================================================
