------------------------------- MODULE Ledger -------------------------------
(***************************************************************************)
(* What a node's chain controller promises to whoever reads its chain      *)
(* (controller::head_block_id and the irreversible_block signal): a chain  *)
(* that may be replaced, but only by one that is at least as good in the   *)
(* (LIB, length) order, above a part that is final and only grows.  A      *)
(* crash may lose some of what is not final.                               *)
(***************************************************************************)
EXTENDS Integers, Sequences, SequencesExt

CONSTANTS
    Block,      \* the chains that exist
    Root,       \* the genesis chain
    irb         \* the LIB of each

VARIABLES
    chain,      \* the node's best chain
    final,      \* its irreversible part
    crashes     \* how often the node went down in the middle of its work

AtLeastAsGood(a, b) ==
    \/ irb[a] > irb[b]
    \/ irb[a] = irb[b] /\ Len(a) >= Len(b)

Init == chain = Root /\ final = Root /\ crashes = 0

Grow ==
    /\ chain' \in Block /\ final' \in Block
    /\ IsPrefix(final, final')
    /\ IsPrefix(final', chain')

Move == Grow /\ AtLeastAsGood(chain', chain) /\ UNCHANGED crashes

Crash == Grow /\ crashes' = crashes + 1

Spec == Init /\ [][Move \/ Crash]_<<chain, final, crashes>>
=============================================================================
