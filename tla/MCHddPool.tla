----------------------------- MODULE MCHddPool -----------------------------
(***************************************************************************)
(* An instance of HddPool for TLC.  Miners come in steps of 100 GB at rate *)
(* 29: 2900 units of 0.0001 YTA for a GB.                                  *)
(***************************************************************************)
EXTENDS HddPool, TLC

CONSTANTS u1, u2, m1, m2, p1, p2

Deposits == [u \in Users |-> IF u = OldUser THEN 580000 ELSE 0]
Balances == [u \in Users |-> IF u = OldUser THEN 580000 + OldDeposit + PoolFee ELSE 0]
Rate29   == {<<100, 2900>>, <<200, 2900>>}
NoRules  == {}
=============================================================================
