---------------------------- MODULE MCHddDeposit ----------------------------
(***************************************************************************)
(* An instance of HddDeposit for TLC.  A lock rule locks everything at     *)
(* first and nothing from time 1 on.                                       *)
(***************************************************************************)
EXTENDS HddDeposit, TLC

CONSTANTS u1, u2, m1

Balances   == (u1 :> OldDeposit) @@ (u2 :> 0)
NoDeposits == [u \in Users |-> 0]
LockAll    == {[t \in Time |-> IF t = 0 THEN 100 ELSE 0]}
=============================================================================
