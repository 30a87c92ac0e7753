------------------------- MODULE MCTransactionFlow -------------------------
(***************************************************************************)
(* An instance of TransactionFlow for TLC.  Transactions 1 and 2 exclude   *)
(* each other, as do 3 and 4, which are delayed.                           *)
(***************************************************************************)
EXTENDS TransactionFlow, TLC

Expirations == [t \in Trx |-> IF t <= 2 THEN 5 ELSE 3]
Delays      == [t \in Trx |-> IF t <= 2 THEN 0 ELSE 1]
Exclusive   == {{1, 2}, {3, 4}}
Submitted   == [x |-> 1, y |-> 2, z |-> 1, u |-> 3, v |-> 4, w |-> 3]

(* Two transactions on a node with producers whose own block a fork undoes. *)
Forks == [producers |-> TRUE, submissions |-> {"x", "y"}, peer_trx |-> {1},
          budgets |-> {9}, pops |-> 1, blocks |-> 3, time |-> 3]

(* Delayed transactions, one of them submitted twice, with scarce time. *)
Scheduled == [producers |-> TRUE, submissions |-> {"u", "v", "w"}, peer_trx |-> {},
              budgets |-> {1, 9}, pops |-> 0, blocks |-> 3, time |-> 3]

(* A node without producers, up to the expiration of its transactions, one of
   them submitted twice. *)
Api == [producers |-> FALSE, submissions |-> {"x", "y", "z"}, peer_trx |-> {1, 2},
        budgets |-> {0, 9}, pops |-> 0, blocks |-> 2, time |-> 5]

Nodes == {Forks, Scheduled, Api}
=============================================================================
