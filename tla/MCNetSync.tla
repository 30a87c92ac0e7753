----------------------------- MODULE MCNetSync -----------------------------
(***************************************************************************)
(* An instance of NetSync for TLC: b dials a and c.                        *)
(***************************************************************************)
EXTENDS NetSync, TLC

StarPeers == [a |-> <<"b">>, b |-> <<"a", "c">>, c |-> <<"b">>]
StarDials == {<<"b", "a">>, <<"b", "c">>}

(* c is down and b is behind the LIB of a, which produces another block; the
   connection breaks once and a timer overtakes an answer once. *)
Pair == [head |-> [a |-> 5, b |-> 1, c |-> 1], running |-> {"a", "b"}, producing |-> {"a"},
         blocks |-> 1, cuts |-> 1, slow |-> 1]

(* b is behind the LIB of two peers that have the same chain. *)
Star == [head |-> [a |-> 5, b |-> 1, c |-> 5], running |-> Node, producing |-> {},
         blocks |-> 0, cuts |-> 0, slow |-> 0]

(* All three are within Lag blocks of each other, and c produces once it is at
   the head. *)
Relay == [head |-> [a |-> 5, b |-> 3, c |-> 4], running |-> Node, producing |-> {"c"},
          blocks |-> 1, cuts |-> 0, slow |-> 0]

Networks == {Pair, Star, Relay}
=============================================================================
