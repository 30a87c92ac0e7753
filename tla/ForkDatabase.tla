---------------------------- MODULE ForkDatabase ----------------------------
(***************************************************************************)
(* libraries/chain/fork_database.cpp as operators on a record              *)
(*                                                                         *)
(*   index      the block states held (fork_database_impl::index)          *)
(*   earlier    pairs of blocks with equal (LIB, number), the first of     *)
(*              which comes first in the by_lib_block_num index            *)
(*   head       fork_database_impl::head                                   *)
(*   current    the blocks with in_current_chain set                       *)
(*   validated  the blocks with validated set                              *)
(*                                                                         *)
(* A block id commits to the whole chain below it, so a block IS its       *)
(* chain: the sequence of the blocks' own contents from the first block    *)
(* on.  Its number is the length and its ancestors are the prefixes.       *)
(* No caller ever feeds add(header_confirmation), so the BFT component of  *)
(* the fork order is zero everywhere and left out.                         *)
(***************************************************************************)
EXTENDS Integers, Sequences, FiniteSets, SequencesExt

CONSTANTS
    Label,      \* what a block adds to its chain
    Block,      \* the blocks that exist
    Root,       \* the genesis block
    irb         \* dpos_irreversible_blocknum of each block's header state

ASSUME BlockAssumption ==
    /\ Block \subseteq Seq(Label)
    /\ Root \in Block /\ Len(Root) > 0
    /\ \A b \in Block : IsPrefix(Root, b) /\ (b # Root => Front(b) \in Block)
ASSUME IrbAssumption == irb \in [Block -> Nat]
(* A header state's LIB is below its number, which HeaderChainProofs shows. *)
ASSUME LibAssumption == \A b \in Block : irb[b] < Len(b)

number(b) == Len(b)
previous(b) == Front(b)
ancestor(b, n) == SubSeq(b, 1, n)

(* The order of by_lib_block_num. *)
better(a, b) ==
    \/ irb[a] > irb[b]
    \/ irb[a] = irb[b] /\ number(a) > number(b)

ties(S) == {t \in S \X S : /\ t[1] # t[2]
                           /\ irb[t[1]] = irb[t[2]]
                           /\ number(t[1]) = number(t[2])}

(* *index.get<by_lib_block_num>().begin() *)
heads(index, earlier) ==
    {h \in index : \A o \in index \ {h} : better(h, o) \/ <<h, o>> \in earlier}

subtree(f, b) == {x \in f.index : IsPrefix(b, x)}

(* remove(): the blocks `gone` leave and the head is looked up again. *)
removed(f, gone) ==
    LET kept == f.index \ gone
    IN  {[index |-> kept, earlier |-> f.earlier \cap ties(kept), head |-> h,
          current |-> f.current \cap kept, validated |-> f.validated \cap kept] :
            h \in heads(kept, f.earlier \cap ties(kept))}

(* add(), up to the choice of the new head: b is last among its equals. *)
inserted(f, b) ==
    LET index   == f.index \cup {b}
        earlier == f.earlier \cup {t \in ties(index) : t[2] = b}
    IN  {[f EXCEPT !.index = index, !.earlier = earlier, !.head = h] :
            h \in heads(index, earlier)}

(* *index.get<by_block_num>().begin(): lowest number, current chain first. *)
oldest(f) ==
    {o \in f.index : \A x \in f.index :
        \/ number(o) < number(x)
        \/ number(o) = number(x) /\ (x \in f.current => o \in f.current)}

(* add() prunes one level when the oldest block is below the head's LIB. *)
must_prune(f, o) == number(o) < irb[f.head]

(* prune(o), after the irreversible signal: o leaves alone, the others of its
   height leave with all that builds on them, and only removing one of those
   looks the head up again. *)
siblings(f, o) == {s \in f.index \ {o} : number(s) = number(o)}

pruned(f, o) ==
    LET others == UNION {subtree(f, s) : s \in siblings(f, o)}
    IN  IF others = {}
        THEN {[f EXCEPT !.index = @ \ {o}, !.earlier = @ \cap ties(f.index \ {o}),
                        !.current = @ \ {o}, !.validated = @ \ {o}]}
        ELSE removed(f, others \cup {o})

mark_in_current_chain(f, branch) == [f EXCEPT !.current = @ \cup branch]
unmark_nothing(f, branch) == f  \* mutant: the old branch stays marked
unmark_in_current_chain(f, branch) == [f EXCEPT !.current = @ \ branch]
set_validity(f, branch) == [f EXCEPT !.validated = @ \cup branch]

(* close() and the constructor: every block comes back with its marks, in the
   order of the file, which is that of a hash index, and so does the head. *)
is_order(order, index) ==
    /\ \A t \in ties(index) : t \in order <=> <<t[2], t[1]>> \notin order
    /\ \A t, u \in order : t[2] = u[1] => <<t[1], u[2]>> \in order

reloaded(f) ==
    {[f EXCEPT !.earlier = order] : order \in {o \in SUBSET ties(f.index) : is_order(o, f.index)}}

(* fetch_branch_from(): the height of the last common block strictly below both
   a and b, and the part of a's chain above it. *)
fork_heights(a, b) ==
    {n \in 1 .. number(a) - 1 :
        /\ n < number(b)
        /\ ancestor(a, n) = ancestor(b, n)
        /\ \/ n + 1 = number(a)
           \/ n + 1 = number(b)
           \/ ancestor(a, n + 1) # ancestor(b, n + 1)}

branch(a, n) == {ancestor(a, k) : k \in n + 1 .. number(a)}
=============================================================================
