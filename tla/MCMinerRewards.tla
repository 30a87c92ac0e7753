--------------------------- MODULE MCMinerRewards ---------------------------
(***************************************************************************)
(* An instance of MinerRewards for TLC.                                     *)
(***************************************************************************)
EXTENDS MinerRewards, TLC

CONSTANTS u1, m1, m2, m3, p1

Deposits == [u \in Users |-> 1]
Balances == [u \in Users |-> 1 + OldDeposit]
NoRules  == {}
=============================================================================
