-------------------------- MODULE ControllerProofs --------------------------
(***************************************************************************)
(* Proofs about Controller, for every tree of blocks and any number of     *)
(* kills: as long as no fork switch pops the block it forks from, and, in  *)
(* a node that was killed, no replay is refused and no switch reaches      *)
(* below what was replayed, the copies of the chain agree, the fork        *)
(* database is consistent, and the node implements Ledger.                 *)
(***************************************************************************)
EXTENDS Controller, NumberFacts, SequenceTheorems, TLAPS

Chain == Seq(Label)

-----------------------------------------------------------------------------
(* Blocks are chains, and their ancestors are what they start with. *)

LEMMA ChainNumbers ==
    /\ \A b \in Chain : number(b) \in Nat /\ ancestor(b, number(b)) = b
    /\ \A b \in Chain : \A k \in 0 .. number(b) :
          ancestor(b, k) \in Chain /\ number(ancestor(b, k)) = k
<1>1. ASSUME NEW b \in Chain PROVE number(b) \in Nat /\ ancestor(b, number(b)) = b
    BY SubSeqFull, LenProperties DEF Chain, number, ancestor
<1>2. ASSUME NEW b \in Chain, NEW k \in 0 .. number(b)
      PROVE  ancestor(b, k) \in Chain /\ number(ancestor(b, k)) = k
  <2>1. number(b) \in Nat
    BY <1>1
  <2>2. \A i \in 1 .. k : b[i] \in Label
    BY <2>1, ElementOfSeq DEF Chain, number
  <2>3. SubSeq(b, 1, k) \in Seq(Label) /\ Len(SubSeq(b, 1, k)) = IF 1 <= k THEN k - 1 + 1 ELSE 0
    BY <2>1, <2>2, SubSeqProperties
  <2> QED BY <2>1, <2>3 DEF Chain, number, ancestor
<1> QED BY <1>1, <1>2

LEMMA AncestorOfAncestor ==
    ASSUME NEW b \in Chain, NEW j \in 0 .. number(b), NEW k \in 0 .. j
    PROVE  ancestor(ancestor(b, j), k) = ancestor(b, k)
<1>1. number(b) \in Nat /\ ancestor(b, j) \in Chain /\ number(ancestor(b, j)) = j
    BY ChainNumbers
<1>2. CASE k = 0
    BY <1>1, <1>2, SubSeqEmpty DEF ancestor
<1>3. CASE k > 0
  <2>1. j \in 1 .. Len(b) /\ k \in 1 .. j - 1 + 1 /\ 1 \in 1 .. j - 1 + 1 /\ 1 \in 1 .. Len(b)
    BY <1>1, <1>3 DEF number
  <2>2. SubSeq(SubSeq(b, 1, j), 1, k) = SubSeq(b, 1 + 1 - 1, 1 + k - 1)
    BY <2>1, SubSeqOfSubSeq DEF Chain
  <2> QED BY <1>1, <2>1, <2>2 DEF ancestor
<1> QED BY <1>1, <1>2, <1>3

LEMMA PrefixIsAncestor ==
    ASSUME NEW a \in Chain, NEW b \in Chain
    PROVE  IsPrefix(a, b) <=> number(a) <= number(b) /\ ancestor(b, number(a)) = a
BY SubSeqFull DEF IsPrefix, Chain, number, ancestor

(* Chains that agree up to a height agree below it. *)
LEMMA AgreeBelow ==
    ASSUME NEW a \in Chain, NEW b \in Chain, NEW n \in 0 .. number(a), n <= number(b),
           ancestor(a, n) = ancestor(b, n), NEW k \in 0 .. n
    PROVE  ancestor(a, k) = ancestor(b, k)
<1>1. number(b) \in Nat /\ number(a) \in Nat /\ n \in 0 .. number(b)
    BY ChainNumbers
<1>2. ancestor(ancestor(a, n), k) = ancestor(a, k) /\ ancestor(ancestor(b, n), k) = ancestor(b, k)
    BY <1>1, AncestorOfAncestor
<1> QED BY <1>2

LEMMA BlockFacts ==
    /\ Root \in Block /\ Block \subseteq Chain /\ number(Root) \in Nat \ {0}
    /\ \A b \in Block : /\ number(b) \in Nat /\ number(b) >= number(Root)
                        /\ number(b) = number(Root) => b = Root
                        /\ irb[b] \in Nat /\ irb[b] < number(b)
    /\ \A b \in Block \ {Root} : /\ previous(b) \in Block
                                 /\ previous(b) = ancestor(b, number(b) - 1)
                                 /\ number(b) - 1 \in 1 .. number(b)
                                 /\ number(previous(b)) = number(b) - 1
<1>1. Root \in Block /\ Block \subseteq Chain
    BY BlockAssumption DEF Chain
<1>2. number(Root) \in Nat \ {0}
    BY <1>1, BlockAssumption, ChainNumbers DEF number
<1>3. ASSUME NEW b \in Block
      PROVE  /\ number(b) \in Nat /\ number(b) >= number(Root)
             /\ number(b) = number(Root) => b = Root
             /\ irb[b] \in Nat /\ irb[b] < number(b)
  <2>1. number(b) \in Nat /\ ancestor(b, number(b)) = b
    BY <1>1, ChainNumbers
  <2>2. number(Root) <= number(b) /\ ancestor(b, number(Root)) = Root
    BY <1>1, BlockAssumption, PrefixIsAncestor
  <2>3. irb[b] \in Nat /\ irb[b] < number(b)
    BY IrbAssumption, LibAssumption DEF number
  <2> QED BY <1>2, <2>1, <2>2, <2>3
<1>4. ASSUME NEW b \in Block \ {Root}
      PROVE  /\ previous(b) \in Block /\ previous(b) = ancestor(b, number(b) - 1)
             /\ number(b) - 1 \in 1 .. number(b) /\ number(previous(b)) = number(b) - 1
  <2>1. previous(b) \in Block /\ previous(b) = ancestor(b, number(b) - 1)
    BY BlockAssumption DEF previous, Front, ancestor, number
  <2>2. number(b) \in Nat /\ number(b) > number(Root)
    BY <1>2, <1>3
  <2>3. number(b) - 1 \in 1 .. number(b) /\ number(b) - 1 \in 0 .. number(b)
    BY <1>2, <2>2
  <2>4. number(ancestor(b, number(b) - 1)) = number(b) - 1
    BY <1>1, <2>3, ChainNumbers
  <2> QED BY <2>1, <2>3, <2>4
<1> QED BY <1>1, <1>2, <1>3, <1>4

LEMMA AncestorIsPrefix ==
    ASSUME NEW b \in Chain, NEW k \in 0 .. number(b)
    PROVE  IsPrefix(ancestor(b, k), b)
<1>1. ancestor(b, k) \in Chain /\ number(ancestor(b, k)) = k /\ number(b) \in Nat
    BY ChainNumbers
<1>2. k <= number(b)
    BY <1>1
<1> QED BY <1>1, <1>2, PrefixIsAncestor

LEMMA PrefixTransitive ==
    ASSUME NEW a \in Chain, NEW b \in Chain, NEW c \in Chain, IsPrefix(a, b), IsPrefix(b, c)
    PROVE  IsPrefix(a, c)
<1>1. /\ number(a) <= number(b) /\ ancestor(b, number(a)) = a
      /\ number(b) <= number(c) /\ ancestor(c, number(b)) = b
    BY PrefixIsAncestor
<1>2. number(a) \in Nat /\ number(b) \in Nat /\ number(c) \in Nat
    BY ChainNumbers
<1>3. number(b) \in 0 .. number(c) /\ number(a) \in 0 .. number(b) /\ number(a) <= number(c)
    BY <1>1, <1>2
<1>4. ancestor(ancestor(c, number(b)), number(a)) = ancestor(c, number(a))
    BY <1>3, AncestorOfAncestor
<1> QED BY <1>1, <1>3, <1>4, PrefixIsAncestor

(* Two prefixes of one chain are prefixes of each other. *)
LEMMA PrefixesNest ==
    ASSUME NEW a \in Chain, NEW b \in Chain, NEW c \in Chain, IsPrefix(a, c), IsPrefix(b, c),
           number(a) <= number(b)
    PROVE  IsPrefix(a, b)
<1>1. /\ ancestor(c, number(a)) = a
      /\ number(b) <= number(c) /\ ancestor(c, number(b)) = b
    BY PrefixIsAncestor
<1>2. number(a) \in Nat /\ number(b) \in Nat /\ number(c) \in Nat
    BY ChainNumbers
<1>3. number(b) \in 0 .. number(c) /\ number(a) \in 0 .. number(b)
    BY <1>1, <1>2
<1>4. ancestor(ancestor(c, number(b)), number(a)) = ancestor(c, number(a))
    BY <1>3, AncestorOfAncestor
<1> QED BY <1>1, <1>4, PrefixIsAncestor

-----------------------------------------------------------------------------
(* The fork order. *)

Asymmetric(order) == \A x, y : <<x, y>> \in order => <<y, x>> \notin order

(* LIBs do not fall along a chain: what HeaderChainProofs shows while schedules
   keep their size. *)
LibNeverFalls == \A b \in Block \ {Root} : irb[previous(b)] <= irb[b]

LEMMA BetterOrder ==
    ASSUME NEW a \in Block, NEW b \in Block, NEW c \in Block
    PROVE  /\ ~ (better(a, b) /\ better(b, a))
           /\ ~ better(a, b) /\ ~ better(b, c) => ~ better(a, c)
           /\ ~ better(a, a)
<1>1. /\ irb[a] \in Nat /\ irb[b] \in Nat /\ irb[c] \in Nat
      /\ number(a) \in Nat /\ number(b) \in Nat /\ number(c) \in Nat
    BY BlockFacts
<1> QED BY <1>1 DEF better

LEMMA ChildIsBetter ==
    ASSUME LibNeverFalls, NEW b \in Block \ {Root}
    PROVE  better(b, previous(b))
<1>1. /\ irb[b] \in Nat /\ irb[previous(b)] \in Nat /\ number(b) \in Nat
      /\ number(previous(b)) = number(b) - 1
    BY BlockFacts
<1> QED BY <1>1 DEF better, LibNeverFalls

LEMMA TiedNotBetter ==
    ASSUME NEW S, S \subseteq Block, NEW a, NEW b, <<a, b>> \in ties(S)
    PROVE  a \in S /\ b \in S /\ a # b /\ ~ better(a, b) /\ ~ better(b, a)
<1>1. a \in S /\ b \in S /\ a # b /\ irb[a] = irb[b] /\ number(a) = number(b)
    BY DEF ties
<1>2. irb[a] \in Nat /\ number(a) \in Nat
    BY <1>1, BlockFacts
<1> QED BY <1>1, <1>2 DEF better

(* The first block of the order: nothing is better, and it is the only one. *)
LEMMA FirstIsBest ==
    ASSUME NEW S, S \subseteq Block, NEW order, order \subseteq ties(S), NEW h \in heads(S, order)
    PROVE  h \in S /\ \A x \in S : ~ better(x, h)
<1>1. h \in S /\ \A o \in S \ {h} : better(h, o) \/ <<h, o>> \in order
    BY DEF heads
<1>2. ASSUME NEW x \in S PROVE ~ better(x, h)
  <2>1. CASE x = h
    BY <1>1, <2>1, BetterOrder
  <2>2. CASE x # h /\ better(h, x)
    BY <1>1, <2>2, BetterOrder
  <2>3. CASE x # h /\ <<h, x>> \in order
    BY <2>3, TiedNotBetter
  <2> QED BY <1>1, <2>1, <2>2, <2>3
<1> QED BY <1>1, <1>2

LEMMA FirstIsUnique ==
    ASSUME NEW S, S \subseteq Block, NEW order, order \subseteq ties(S), Asymmetric(order),
           NEW g \in heads(S, order), NEW h \in heads(S, order)
    PROVE  g = h
<1> SUFFICES ASSUME g # h PROVE FALSE
    OBVIOUS
<1>1. g \in S /\ h \in S /\ ~ better(g, h) /\ ~ better(h, g)
    BY FirstIsBest
<1>2. (better(h, g) \/ <<h, g>> \in order) /\ (better(g, h) \/ <<g, h>> \in order)
    BY <1>1 DEF heads
<1> QED BY <1>1, <1>2 DEF Asymmetric

LEMMA FirstOfFewer ==
    ASSUME NEW S, NEW T, T \subseteq S, NEW order, order \subseteq ties(S),
           NEW h \in heads(S, order), h \in T
    PROVE  h \in heads(T, order \cap ties(T))
<1>1. \A o \in T \ {h} : better(h, o) \/ <<h, o>> \in order
    BY DEF heads
<1>2. \A o \in T \ {h} : <<h, o>> \in order => <<h, o>> \in ties(T)
    BY DEF ties
<1> QED BY <1>1, <1>2 DEF heads

-----------------------------------------------------------------------------
(* The fork database holds all chains from level m on, above a common part of the
   block log. *)

Rooted(index, m, log) ==
    /\ m \in Nat \ {0} /\ m <= number(log) + 1
    /\ \E x \in index : number(x) = m
    /\ \A b \in index : /\ number(b) >= m /\ ancestor(b, m - 1) = ancestor(log, m - 1)
                        /\ \A k \in m .. number(b) : ancestor(b, k) \in index

LEMMA RootedInsert ==
    ASSUME NEW index, index \subseteq Block, NEW m, NEW log, Rooted(index, m, log),
           NEW b \in Block \ {Root}, previous(b) \in index
    PROVE  Rooted(index \cup {b}, m, log)
<1> DEFINE p == previous(b)
<1>1. /\ b \in Chain /\ number(b) \in Nat /\ p = ancestor(b, number(b) - 1)
      /\ number(b) - 1 \in 1 .. number(b) /\ number(p) = number(b) - 1
    BY BlockFacts
<1>2. /\ m \in Nat \ {0} /\ number(p) >= m /\ ancestor(p, m - 1) = ancestor(log, m - 1)
      /\ \A k \in m .. number(p) : ancestor(p, k) \in index
    BY DEF Rooted
<1> HIDE DEF p
<1>3. \A k \in 0 .. number(b) - 1 : ancestor(p, k) = ancestor(b, k)
    BY <1>1, AncestorOfAncestor
<1>4. number(b) >= m /\ ancestor(b, m - 1) = ancestor(log, m - 1)
    BY <1>1, <1>2, <1>3
<1>5. \A k \in m .. number(b) : ancestor(b, k) \in index \cup {b}
  <2> TAKE k \in m .. number(b)
  <2>1. CASE k = number(b)
    BY <1>1, <2>1, ChainNumbers
  <2>2. CASE k < number(b)
    BY <1>1, <1>2, <1>3, <2>2
  <2> QED BY <1>1, <1>2, <2>1, <2>2
<1> QED BY <1>2, <1>4, <1>5 DEF Rooted

(* A subtree can be removed unless the whole index is in it. *)
LEMMA RootedRemove ==
    ASSUME NEW index, index \subseteq Block, NEW m, NEW log, Rooted(index, m, log),
           NEW bad \in Block, NEW h \in index, ~ IsPrefix(bad, h)
    PROVE  Rooted(index \ {x \in index : IsPrefix(bad, x)}, m, log)
<1> DEFINE gone == {x \in index : IsPrefix(bad, x)}
<1>1. /\ m \in Nat \ {0} /\ m <= number(log) + 1
      /\ \A b \in index : /\ number(b) >= m /\ ancestor(b, m - 1) = ancestor(log, m - 1)
                          /\ \A k \in m .. number(b) : ancestor(b, k) \in index
    BY DEF Rooted
<1>2. ASSUME NEW b \in index, ~ IsPrefix(bad, b), NEW k \in m .. number(b)
      PROVE  ancestor(b, k) \in index \ gone
  <2>1. ancestor(b, k) \in index /\ b \in Chain /\ bad \in Chain
    BY <1>1, BlockFacts
  <2>2. k \in 0 .. number(b)
    BY <1>1, <2>1, ChainNumbers
  <2>3. ancestor(b, k) \in Chain /\ IsPrefix(ancestor(b, k), b)
    BY <2>1, <2>2, ChainNumbers, AncestorIsPrefix
  <2> QED BY <1>2, <2>1, <2>3, PrefixTransitive
<1>3. ancestor(h, m) \in index \ gone /\ number(ancestor(h, m)) = m
  <2>1. number(h) \in Nat /\ h \in Chain
    BY BlockFacts
  <2>2. m \in m .. number(h) /\ m \in 0 .. number(h)
    BY <1>1, <2>1
  <2> QED BY <1>2, <2>1, <2>2, ChainNumbers
<1> QED BY <1>1, <1>2, <1>3 DEF Rooted

-----------------------------------------------------------------------------
(* fork_database::add. *)

ForkRecord ==
    [index : SUBSET Block, earlier : SUBSET (Block \X Block), head : Block,
     current : SUBSET Block, validated : SUBSET Block]

Sorted(f) ==
    /\ f \in ForkRecord /\ f.earlier \subseteq ties(f.index) /\ Asymmetric(f.earlier)
    /\ f.current \subseteq f.index /\ f.validated \subseteq f.index

(* What add leaves for maybe_switch_forks while the controller is still at h: the
   first block is the head, and it is the only one that can be better than h.  As
   long as the order has not been shuffled, h is the next one. *)
Candidate(f, h, ordered) ==
    /\ f.head \in heads(f.index, f.earlier)
    /\ \A x \in f.index : better(x, h) => x = f.head
    /\ ordered => \A x \in f.index \ {f.head, h} : better(h, x) \/ <<h, x>> \in f.earlier

LEMMA TiesTyped == ASSUME NEW S, S \subseteq Block PROVE ties(S) \subseteq Block \X Block
BY DEF ties

LEMMA Inserting ==
    ASSUME NEW f \in ForkRecord, NEW b \in Block, b \notin f.index, NEW g \in inserted(f, b),
           f.earlier \subseteq ties(f.index), Asymmetric(f.earlier),
           f.current \subseteq f.index \cup {b}, f.validated \subseteq f.index \cup {b},
           NEW h \in f.index, \A x \in f.index : ~ better(x, h),
           NEW ordered \in BOOLEAN, ordered => h \in heads(f.index, f.earlier)
    PROVE  /\ Sorted(g) /\ g.index = f.index \cup {b}
           /\ g.current = f.current /\ g.validated = f.validated
           /\ Candidate(g, h, ordered)
           /\ better(b, h) => g.head = b
<1> DEFINE index == f.index \cup {b}
           earlier == f.earlier \cup {t \in ties(index) : t[2] = b}
<1>0. /\ f \in ForkRecord /\ f.earlier \subseteq ties(f.index) /\ Asymmetric(f.earlier)
      /\ f.current \subseteq index /\ f.validated \subseteq index
    OBVIOUS
<1>1. PICK c \in heads(index, earlier) : g = [f EXCEPT !.index = index, !.earlier = earlier, !.head = c]
    BY DEF inserted
<1>2. c \in index /\ index \subseteq Block
    BY <1>0, <1>1 DEF heads, ForkRecord
<1>3. ties(f.index) \subseteq ties(index)
    BY DEF ties
<1>4. earlier \subseteq ties(index) /\ ties(index) \subseteq Block \X Block
    BY <1>0, <1>2, <1>3, TiesTyped
<1>5. /\ g \in ForkRecord /\ g.index = index /\ g.earlier = earlier /\ g.head = c
      /\ g.current = f.current /\ g.validated = f.validated
    BY <1>0, <1>1, <1>2, <1>4 DEF ForkRecord
<1>6. \A x, y : <<x, y>> \in f.earlier => x \in f.index /\ y \in f.index
    BY <1>0 DEF ties
<1>7. ASSUME NEW x, NEW y, <<x, y>> \in earlier PROVE <<x, y>> \in f.earlier \/ (y = b /\ x # b)
  <2>1. CASE <<x, y>> \in f.earlier
    BY <2>1
  <2>2. CASE <<x, y>> \in ties(index) /\ <<x, y>>[2] = b
    <3>1. x # y
      BY <1>2, <2>2, TiedNotBetter
    <3> QED BY <2>2, <3>1
  <2> QED BY <1>7, <2>1, <2>2
<1>8. Asymmetric(earlier)
    BY <1>0, <1>6, <1>7 DEF Asymmetric
<1> HIDE DEF earlier
<1>8a. c \in index /\ \A x \in index : ~ better(x, c)
  <2> HIDE DEF index
  <2> QED BY <1>1, <1>2, <1>4, FirstIsBest
<1>9. better(b, h) => c = b
  <2> SUFFICES ASSUME better(b, h), c # b PROVE FALSE
    OBVIOUS
  <2>1. c \in f.index /\ ~ better(c, h) /\ c \in Block /\ h \in Block
    BY <1>0, <1>2 DEF ForkRecord
  <2>2. ~ better(b, c)
    BY <1>8a
  <2> QED BY <2>1, <2>2, BetterOrder
<1>10. \A x \in index : better(x, h) => x = c
    BY <1>9
<1>11. ASSUME ordered, NEW x \in index \ {c, h} PROVE better(h, x) \/ <<h, x>> \in earlier
  <2>1. \A o \in f.index \ {h} : better(h, o) \/ <<h, o>> \in f.earlier
    BY <1>11 DEF heads
  <2>2. CASE x # b
    BY <1>11, <2>1, <2>2 DEF earlier
  <2>3. CASE x = b
    <3>1. CASE c = h
      BY <1>1, <1>11, <3>1 DEF heads
    <3>2. CASE c # h
      <4>1. c \in f.index \ {h} /\ h \in index \ {c}
        BY <1>2, <1>11, <2>3, <3>2
      <4>2. better(h, c) \/ <<h, c>> \in earlier
        BY <2>1, <4>1 DEF earlier
      <4>3. better(c, h) \/ <<c, h>> \in earlier
        BY <1>1, <4>1 DEF heads
      <4>4. ~ better(h, c)
        BY <1>8a, <4>1
      <4> QED BY <1>8, <4>1, <4>2, <4>3, <4>4 DEF Asymmetric
    <3> QED BY <3>1, <3>2
  <2> QED BY <2>2, <2>3
<1> HIDE DEF index, earlier
<1>12. Sorted(g)
    BY <1>0, <1>4, <1>5, <1>8 DEF Sorted, index
<1>13. Candidate(g, h, ordered)
    BY <1>1, <1>5, <1>10, <1>11 DEF Candidate
<1> QED BY <1>5, <1>9, <1>12, <1>13 DEF index

(* The oldest block of the index is the ancestor of the current head there: blocks
   of the current chain come first. *)
LEMMA OldestOnChain ==
    ASSUME NEW f, f.index \subseteq Block, NEW m, NEW log, Rooted(f.index, m, log), NEW h \in f.index,
           ancestor(h, m) \in f.current \cup {Root},
           \A x \in f.current : number(x) = m /\ x # Root => IsPrefix(x, h),
           NEW o \in oldest(f)
    PROVE  o = ancestor(h, m) /\ o \in f.index /\ number(o) = m
<1> DEFINE a == ancestor(h, m)
<1>1. m \in Nat \ {0} /\ number(h) \in Nat /\ h \in Chain /\ number(h) >= m
    BY BlockFacts DEF Rooted
<1>2. m \in m .. number(h) /\ m \in 0 .. number(h)
    BY <1>1
<1>3. a \in f.index /\ number(a) = m
    BY <1>1, <1>2, ChainNumbers DEF Rooted
<1>4. o \in f.index /\ number(o) \in Nat /\ number(o) >= m /\ o \in Chain
    BY BlockFacts DEF oldest, Rooted
<1>5. number(o) = m /\ (a \in f.current => o \in f.current)
  <2>1. \/ number(o) < number(a)
        \/ number(o) = number(a) /\ (a \in f.current => o \in f.current)
    BY <1>3 DEF oldest
  <2> QED BY <1>1, <1>3, <1>4, <2>1
<1>6. a = Root \/ o = Root => a = o
  <2>1. number(Root) = m => a = Root /\ o = Root
    BY <1>3, <1>4, <1>5, BlockFacts
  <2> QED BY <1>3, <1>5, <2>1
<1>7. a # Root /\ o # Root => a = o
  <2> SUFFICES ASSUME a # Root, o # Root PROVE a = o
    OBVIOUS
  <2>1. IsPrefix(o, h)
    BY <1>5
  <2> QED BY <1>1, <1>4, <1>5, <2>1, PrefixIsAncestor
<1> QED BY <1>4, <1>5, <1>6, <1>7

(* prune keeps what builds on the oldest block. *)
LEMMA PrunedIndex ==
    ASSUME NEW f, Sorted(f), NEW m, NEW log, Rooted(f.index, m, log),
           NEW o \in f.index, number(o) = m, NEW g \in pruned(f, o)
    PROVE  /\ g.index = {x \in f.index : number(x) > m /\ IsPrefix(o, x)}
           /\ g.earlier = f.earlier \cap ties(g.index)
           /\ g.current = f.current \cap g.index /\ g.validated = f.validated \cap g.index
           /\ \/ g.head = f.head /\ g.index = f.index \ {o}
              \/ g.head \in heads(g.index, g.earlier)
           /\ g = [index |-> g.index, earlier |-> g.earlier, head |-> g.head,
                   current |-> g.current, validated |-> g.validated]
<1> DEFINE others == UNION {subtree(f, s) : s \in siblings(f, o)}
           kept == {x \in f.index : number(x) > m /\ IsPrefix(o, x)}
<1>0. f \in ForkRecord /\ f.index \subseteq Block
    BY DEF Sorted, ForkRecord
<1>1. m \in Nat \ {0} /\ o \in Chain /\ \A x \in f.index : x \in Chain /\ number(x) \in Nat /\ number(x) >= m
    BY <1>0, BlockFacts DEF Rooted
<1>2. ASSUME NEW x \in f.index, x # o, x \notin others PROVE number(x) > m /\ IsPrefix(o, x)
  <2> DEFINE a == ancestor(x, m)
  <2>1. x \in Chain /\ m \in m .. number(x) /\ m \in 0 .. number(x)
    BY <1>1
  <2>2. a \in f.index /\ number(a) = m /\ a \in Chain /\ IsPrefix(a, x)
    BY <2>1, ChainNumbers, AncestorIsPrefix DEF Rooted
  <2>3. a = o
    BY <1>2, <2>2 DEF siblings, subtree
  <2>4. number(x) # m
    BY <1>2, <2>1, <2>3, ChainNumbers
  <2> QED BY <1>1, <2>2, <2>3, <2>4
<1>3. ASSUME NEW x \in f.index, number(x) > m, IsPrefix(o, x) PROVE x # o /\ x \notin others
  <2>1. SUFFICES ASSUME NEW s \in siblings(f, o), IsPrefix(s, x) PROVE FALSE
    BY <1>1, <1>3 DEF subtree
  <2>2. s \in f.index /\ s # o /\ number(s) = number(o)
    BY <2>1 DEF siblings
  <2>3. ancestor(x, m) = s /\ ancestor(x, m) = o
    BY <1>1, <1>3, <2>1, <2>2, PrefixIsAncestor
  <2> QED BY <2>2, <2>3
<1>4. f.index \ (others \cup {o}) = kept
    BY <1>2, <1>3
<1>5. CASE others = {}
  <2>1. g = [f EXCEPT !.index = @ \ {o}, !.earlier = @ \cap ties(f.index \ {o}),
                      !.current = @ \ {o}, !.validated = @ \ {o}]
    BY <1>5 DEF pruned
  <2>2. f.index \ {o} = kept
    BY <1>4, <1>5
  <2>3. f.current \ {o} = f.current \cap kept /\ f.validated \ {o} = f.validated \cap kept
    <3>1. f.current \subseteq f.index /\ f.validated \subseteq f.index
      BY DEF Sorted
    <3> QED BY <2>2, <3>1
  <2> HIDE DEF kept, others
  <2>4. f = [index |-> f.index, earlier |-> f.earlier, head |-> f.head,
             current |-> f.current, validated |-> f.validated]
    BY <1>0 DEF ForkRecord
  <2>5. g = [index |-> kept, earlier |-> f.earlier \cap ties(kept), head |-> f.head,
             current |-> f.current \cap kept, validated |-> f.validated \cap kept]
    BY <2>1, <2>2, <2>3, <2>4
  <2> QED BY <2>2, <2>5 DEF kept
<1>6. CASE others # {}
  <2>1. g \in removed(f, others \cup {o})
    BY <1>6 DEF pruned
  <2> HIDE DEF kept, others
  <2>2. PICK c \in heads(kept, f.earlier \cap ties(kept)) :
           g = [index |-> kept, earlier |-> f.earlier \cap ties(kept), head |-> c,
                current |-> f.current \cap kept, validated |-> f.validated \cap kept]
    BY <1>4, <2>1 DEF removed
  <2> QED BY <2>2 DEF kept
<1> QED BY <1>5, <1>6

(* Where h is after a prune: still held, or the pruned block itself, and then its
   only child is all that is left. *)
At(f, h) ==
    \/ h \in f.index
    \/ f.index = {f.head} /\ f.head # Root /\ previous(f.head) = h

LEMMA ChildOnChain ==
    ASSUME NEW x \in Chain, NEW k \in Nat, k < number(x), ancestor(x, k + 1) \in Block,
           number(Root) <= k
    PROVE  /\ ancestor(x, k + 1) # Root /\ previous(ancestor(x, k + 1)) = ancestor(x, k)
           /\ number(ancestor(x, k + 1)) = k + 1
<1> DEFINE c == ancestor(x, k + 1)
<1>1. number(x) \in Nat /\ k + 1 \in 0 .. number(x) /\ k \in 0 .. k + 1 /\ number(Root) \in Nat
    BY ChainNumbers, BlockFacts
<1>2. number(c) = k + 1
    BY <1>1, ChainNumbers
<1>3. c # Root
    BY <1>1, <1>2
<1>4. previous(c) = ancestor(c, k)
    BY <1>2, <1>3, BlockFacts
<1>5. ancestor(c, k) = ancestor(x, k)
    BY <1>1, AncestorOfAncestor
<1> QED BY <1>2, <1>3, <1>4, <1>5

Pruned(f, m, log, h, ordered, o, g) ==
    /\ Sorted(g) /\ Candidate(g, h, ordered) /\ At(g, h)
    /\ Rooted(g.index, m + 1, log_with(log, o))
    /\ g.index = {x \in f.index : number(x) > m /\ IsPrefix(o, x)}
    /\ g.current = f.current \cap g.index
    /\ f.head \in g.index => g.head = f.head

LEMMA PrunedFork ==
    ASSUME LibNeverFalls, NEW f, Sorted(f), NEW m, NEW log \in Block, Rooted(f.index, m, log),
           NEW h \in f.index, IsPrefix(log, h), NEW ordered \in BOOLEAN, Candidate(f, h, ordered),
           NEW o \in f.index, number(o) = m, IsPrefix(o, h), must_prune(f, o), NEW g \in pruned(f, o)
    PROVE  Pruned(f, m, log, h, ordered, o, g)
<1>0. f.index \subseteq Block /\ f.earlier \subseteq ties(f.index) /\ Asymmetric(f.earlier)
    BY DEF Sorted, ForkRecord
<1>1. /\ m \in Nat \ {0} /\ h \in Chain /\ number(h) \in Nat /\ number(h) >= m
      /\ \A x \in f.index : x \in Block /\ x \in Chain /\ number(x) \in Nat /\ number(x) >= m
      /\ \A x \in f.index : \A k \in m .. number(x) : ancestor(x, k) \in f.index
    BY <1>0, BlockFacts DEF Rooted
<1>2. o = ancestor(h, m) /\ m \in 0 .. number(h)
    BY <1>1, PrefixIsAncestor
<1>3. o \in Block /\ o \in Chain /\ IsPrefix(o, h) /\ number(Root) \in Nat /\ number(Root) <= m
    BY <1>1, <1>2, AncestorIsPrefix, BlockFacts
<1>4. f.head \in heads(f.index, f.earlier)
    BY DEF Candidate
<1>5. f.head \in f.index /\ \A x \in f.index : ~ better(x, f.head)
    BY <1>0, <1>4, FirstIsBest
<1>6. m < number(f.head)
  <2>1. m < irb[f.head]
    BY <1>2 DEF must_prune
  <2>2. irb[f.head] \in Nat /\ irb[f.head] < number(f.head) /\ number(f.head) \in Nat
    BY <1>1, <1>5, BlockFacts
  <2> QED BY <1>1, <2>1, <2>2
<1>7. /\ g.index = {x \in f.index : number(x) > m /\ IsPrefix(o, x)}
      /\ g.earlier = f.earlier \cap ties(g.index)
      /\ g.current = f.current \cap g.index /\ g.validated = f.validated \cap g.index
      /\ \/ g.head = f.head /\ g.index = f.index \ {o}
         \/ g.head \in heads(g.index, g.earlier)
      /\ g = [index |-> g.index, earlier |-> g.earlier, head |-> g.head,
              current |-> g.current, validated |-> g.validated]
    BY <1>2, PrunedIndex
<1>8. g.index \subseteq f.index /\ g.index \subseteq Block /\ g.earlier \subseteq ties(g.index)
      /\ Asymmetric(g.earlier)
    BY <1>0, <1>7 DEF Asymmetric
<1>9. f.head \in g.index => f.head \in heads(g.index, g.earlier)
    BY <1>0, <1>4, <1>7, <1>8, FirstOfFewer
<1>10. g.head \in heads(g.index, g.earlier)
  <2>1. g.head = f.head /\ g.index = f.index \ {o} => f.head \in g.index
    BY <1>2, <1>5, <1>6
  <2> QED BY <1>7, <1>9, <2>1
<1>11. f.head \in g.index => g.head = f.head
    BY <1>8, <1>9, <1>10, FirstIsUnique
<1>12. g.head \in g.index
    BY <1>10 DEF heads
<1>13. Sorted(g)
  <2>1. g.earlier \subseteq Block \X Block
    BY <1>8, TiesTyped
  <2>2. g.current \subseteq g.index /\ g.validated \subseteq g.index /\ g.head \in Block
    BY <1>7, <1>8, <1>12
  <2>3. g \in ForkRecord
    BY <1>7, <1>8, <2>1, <2>2 DEF ForkRecord
  <2> QED BY <1>8, <2>2, <2>3 DEF Sorted
<1>14. ASSUME h \notin g.index PROVE g.index = {g.head} /\ g.head # Root /\ previous(g.head) = h
  <2>1. h = o
    <3>1. ~ number(h) > m
      BY <1>3, <1>7, <1>14
    <3>2. number(h) \in Nat /\ m \in Nat /\ number(h) >= m
      BY <1>1
    <3>3. number(h) = m
      BY ONLY <3>1, <3>2
    <3> QED BY <1>1, <1>2, <3>3, ChainNumbers
  <2>2. ASSUME NEW x \in g.index
        PROVE  ancestor(x, m + 1) = f.head /\ f.head # Root /\ previous(f.head) = h /\ number(f.head) = m + 1
    <3> DEFINE c == ancestor(x, m + 1)
    <3>1. x \in f.index /\ number(x) > m /\ IsPrefix(o, x) /\ x \in Chain /\ number(x) \in Nat
      BY <1>1, <1>7, <2>2
    <3>2. m + 1 \in m .. number(x) /\ m \in Nat /\ m < number(x)
      BY <1>1, <3>1
    <3>3. c \in f.index /\ c \in Block
      BY <1>1, <3>1, <3>2
    <3>4. ancestor(x, m) = o
      BY <1>2, <1>3, <3>1, PrefixIsAncestor
    <3>5. c # Root /\ previous(c) = h /\ number(c) = m + 1
      BY <1>3, <2>1, <3>1, <3>2, <3>3, <3>4, ChildOnChain
    <3>6. better(c, h)
      BY <3>3, <3>5, ChildIsBetter
    <3>7. c = f.head
      BY <3>3, <3>6 DEF Candidate
    <3> QED BY <3>5, <3>7
  <2>3. previous(f.head) = h /\ f.head # Root /\ number(f.head) = m + 1
    BY <1>12, <2>2
  <2>4. ASSUME NEW x \in g.index PROVE x = f.head
    <3>1. x \in f.index /\ x \in Chain /\ number(x) \in Nat /\ number(x) >= m + 1
      BY <1>1, <1>7, <2>4
    <3>2. CASE number(x) = m + 1
      BY <2>2, <3>1, <3>2, ChainNumbers
    <3>3. CASE number(x) > m + 1
      <4> DEFINE y == ancestor(x, m + 1 + 1)
      <4>1. m + 1 + 1 \in m .. number(x) /\ m + 1 \in Nat /\ m + 1 < number(x) /\ number(Root) <= m + 1
        BY <1>1, <1>3, <3>1, <3>3
      <4>2. y \in f.index /\ y \in Block
        BY <1>1, <3>1, <4>1
      <4>3. y # Root /\ previous(y) = ancestor(x, m + 1)
        BY <3>1, <4>1, <4>2, ChildOnChain
      <4>4. previous(y) = f.head
        BY <2>2, <4>3
      <4>5. better(y, f.head)
        BY <4>2, <4>3, <4>4, ChildIsBetter
      <4> QED BY <1>5, <4>2, <4>5
    <3> QED BY <1>1, <3>1, <3>2, <3>3
  <2> QED BY <1>12, <2>3, <2>4
<1>15. At(g, h)
    BY <1>14 DEF At
<1>16. Candidate(g, h, ordered)
  <2>1. \A x \in g.index : better(x, h) => x = g.head
    BY <1>8, <1>11 DEF Candidate
  <2>2. ASSUME ordered, NEW x \in g.index \ {g.head, h} PROVE better(h, x) \/ <<h, x>> \in g.earlier
    <3>1. h \in g.index
      BY <1>14, <2>2
    <3>2. x # f.head /\ x \in f.index
      BY <1>8, <1>11, <2>2
    <3>3. better(h, x) \/ <<h, x>> \in f.earlier
      BY <2>2, <3>2 DEF Candidate
    <3>4. <<h, x>> \in f.earlier => <<h, x>> \in ties(g.index)
      BY <1>0, <2>2, <3>1 DEF ties
    <3> QED BY <1>7, <3>3, <3>4
  <2> QED BY <1>10, <2>1, <2>2 DEF Candidate
<1>17. Rooted(g.index, m + 1, log_with(log, o))
  <2> DEFINE new == log_with(log, o)
  <2>1. number(log) \in Nat /\ log \in Chain
    BY BlockFacts
  <2>2. new \in Chain /\ number(new) \in Nat /\ m <= number(new) /\ ancestor(new, m) = o
    <3>1. CASE number(o) > number(log)
      BY <1>1, <1>2, <1>3, <3>1, ChainNumbers DEF log_with
    <3>2. CASE ~ number(o) > number(log)
      <4>1. new = log /\ m \in 0 .. number(log)
        BY <1>1, <1>2, <2>1, <3>2 DEF log_with
      <4>2. number(log) <= number(h) /\ ancestor(h, number(log)) = log
        BY <1>1, <2>1, PrefixIsAncestor
      <4>3. number(log) \in 0 .. number(h)
        BY <1>1, <2>1, <4>2
      <4>4. ancestor(ancestor(h, number(log)), m) = ancestor(h, m)
        BY <1>1, <4>1, <4>3, AncestorOfAncestor
      <4> QED BY <1>2, <2>1, <4>1, <4>2, <4>4
    <3> QED BY <3>1, <3>2
  <2>3. ASSUME NEW b \in g.index
        PROVE  /\ number(b) >= m + 1 /\ ancestor(b, m) = o
               /\ \A k \in m + 1 .. number(b) : ancestor(b, k) \in g.index
    <3>1. b \in f.index /\ number(b) > m /\ IsPrefix(o, b) /\ b \in Chain /\ number(b) \in Nat
      BY <1>1, <1>7, <2>3
    <3>2. ancestor(b, m) = o
      BY <1>2, <1>3, <3>1, PrefixIsAncestor
    <3>3. ASSUME NEW k \in m + 1 .. number(b) PROVE ancestor(b, k) \in g.index
      <4>1. k \in m .. number(b) /\ k \in 0 .. number(b) /\ k > m /\ m <= k
        BY <1>1, <3>1
      <4>2. ancestor(b, k) \in f.index /\ number(ancestor(b, k)) = k /\ ancestor(b, k) \in Chain
            /\ IsPrefix(ancestor(b, k), b)
        BY <1>1, <3>1, <4>1, ChainNumbers, AncestorIsPrefix
      <4>3. IsPrefix(o, ancestor(b, k))
        BY <1>2, <1>3, <3>1, <4>1, <4>2, PrefixesNest
      <4> QED BY <1>7, <4>1, <4>2, <4>3
    <3> QED BY <1>1, <3>1, <3>2, <3>3
  <2>4. ancestor(g.head, m + 1) \in g.index /\ number(ancestor(g.head, m + 1)) = m + 1
    <3>1. g.head \in Chain /\ number(g.head) \in Nat /\ number(g.head) >= m + 1
      BY <1>1, <1>8, <1>12, <2>3
    <3>2. m + 1 \in m + 1 .. number(g.head) /\ m + 1 \in 0 .. number(g.head)
      BY <1>1, <3>1
    <3> QED BY <1>12, <2>3, <3>1, <3>2, ChainNumbers
  <2> HIDE DEF new
  <2>5. m + 1 \in Nat \ {0} /\ m + 1 <= number(new) + 1 /\ (m + 1) - 1 = m
    BY <1>1, <2>2
  <2>6. Rooted(g.index, m + 1, new)
    BY <2>2, <2>3, <2>4, <2>5 DEF Rooted
  <2> QED BY <2>6 DEF new
<1> QED BY <1>7, <1>11, <1>13, <1>15, <1>16, <1>17 DEF Pruned

-----------------------------------------------------------------------------
(* Head, chainbase, reversible blocks and block log. *)

LEMMA BranchPrefix ==
    ASSUME NEW a \in Chain, NEW n \in Nat, NEW x
    PROVE  x \in branch(a, n) <=> x \in Chain /\ IsPrefix(x, a) /\ number(x) > n
<1>0. number(a) \in Nat
    BY ChainNumbers
<1>1. ASSUME x \in branch(a, n) PROVE x \in Chain /\ IsPrefix(x, a) /\ number(x) > n
  <2>1. PICK k \in n + 1 .. number(a) : x = ancestor(a, k)
    BY <1>1 DEF branch
  <2>2. k \in 0 .. number(a) /\ k > n
    BY <1>0
  <2> QED BY <2>1, <2>2, ChainNumbers, AncestorIsPrefix
<1>2. ASSUME x \in Chain, IsPrefix(x, a), number(x) > n PROVE x \in branch(a, n)
  <2>1. number(x) \in Nat /\ number(x) <= number(a) /\ ancestor(a, number(x)) = x
    BY <1>2, ChainNumbers, PrefixIsAncestor
  <2>2. number(x) \in n + 1 .. number(a)
    BY <1>0, <1>2, <2>1
  <2> QED BY <2>1, <2>2 DEF branch
<1> QED BY <1>1, <1>2

Stored(d, rv, log, h) ==
    /\ d \in [base : Nat, state : Chain] /\ d.state = h /\ d.base >= number(log)
    /\ rv \subseteq Block /\ log \in Block /\ h \in Block /\ IsPrefix(log, h)
    /\ reversible_after(rv, log) = branch(h, number(log))

Apart(rv, log) == \A r \in rv : number(r) > number(log)

(* The oldest block of the index links to the block log. *)
LEMMA OldestLinks ==
    ASSUME NEW index, index \subseteq Block, NEW m, NEW log \in Block, Rooted(index, m, log),
           NEW o \in index, number(o) = m
    PROVE  irreversible_links(log, o) /\ number(o) <= number(log) + 1
<1>1. /\ m \in Nat \ {0} /\ m <= number(log) + 1 /\ ancestor(o, m - 1) = ancestor(log, m - 1)
      /\ number(log) \in Nat /\ log \in Chain /\ o \in Block
    BY BlockFacts DEF Rooted
<1>2. ASSUME number(o) > number(log) PROVE previous(o) = log
  <2>1. m - 1 = number(log)
    BY <1>1, <1>2
  <2>2. o # Root
    BY <1>1, <1>2, BlockFacts
  <2>3. previous(o) = ancestor(o, m - 1)
    BY <1>1, <2>2, BlockFacts
  <2>4. ancestor(log, number(log)) = log
    BY <1>1, ChainNumbers
  <2> QED BY <1>1, <2>1, <2>3, <2>4
<1> QED BY <1>1, <1>2 DEF irreversible_links

(* on_irreversible of a block of the head's chain. *)
LEMMA Committing ==
    ASSUME NEW d, NEW rv, NEW log, NEW h, Stored(d, rv, log, h), NEW o \in Block, IsPrefix(o, h)
    PROVE  /\ Stored(commit(d, number(o)), reversible_after(rv, o), log_with(log, o), h)
           /\ Apart(rv, log) => Apart(reversible_after(rv, o), log_with(log, o))
           /\ \A m \in Nat : d.base <= m /\ number(o) <= m => commit(d, number(o)).base <= m
<1> DEFINE new == log_with(log, o)
           e == commit(d, number(o))
<1>1. /\ log \in Block /\ log \in Chain /\ h \in Block /\ h \in Chain /\ o \in Chain
      /\ number(log) \in Nat /\ number(o) \in Nat /\ rv \subseteq Block
      /\ IsPrefix(log, h) /\ reversible_after(rv, log) = branch(h, number(log))
    BY BlockFacts DEF Stored
<1>2. /\ new \in Block /\ number(new) \in Nat /\ IsPrefix(new, h)
      /\ number(new) >= number(log) /\ number(new) >= number(o)
      /\ number(new) = number(log) \/ number(new) = number(o)
    BY <1>1 DEF log_with
<1>3. /\ e \in [base : Nat, state : Chain] /\ e.state = h /\ e.base >= number(new)
      /\ \A m \in Nat : d.base <= m /\ number(o) <= m => e.base <= m
  <2>1. d \in [base : Nat, state : Chain] /\ d.state = h /\ d.base >= number(log) /\ d.base \in Nat
    BY DEF Stored
  <2>2. e = [base |-> IF d.base < number(o) THEN number(o) ELSE d.base, state |-> h]
    BY <2>1 DEF commit
  <2>3. e.base \in Nat /\ e.base >= number(log) /\ e.base >= number(o)
    BY <1>1, <2>1, <2>2
  <2> HIDE DEF e, new
  <2> QED BY <1>1, <1>2, <2>2, <2>3
<1> HIDE DEF new, e
<1>4. reversible_after(reversible_after(rv, o), new) = branch(h, number(new))
  <2>1. ASSUME NEW x
        PROVE  x \in reversible_after(reversible_after(rv, o), new) <=> x \in branch(h, number(new))
    <3>1. x \in reversible_after(reversible_after(rv, o), new)
             <=> x \in rv /\ number(x) > number(o) /\ number(x) > number(new)
      BY DEF reversible_after
    <3>2. x \in branch(h, number(log)) <=> x \in rv /\ number(x) > number(log)
      BY <1>1 DEF reversible_after
    <3>3. /\ x \in branch(h, number(log)) <=> x \in Chain /\ IsPrefix(x, h) /\ number(x) > number(log)
          /\ x \in branch(h, number(new)) <=> x \in Chain /\ IsPrefix(x, h) /\ number(x) > number(new)
      BY <1>1, <1>2, BranchPrefix
    <3>4. x \in Chain => number(x) \in Nat
      BY ChainNumbers
    <3>5. x \in rv => x \in Chain
      BY <1>1, BlockFacts
    <3>6. x \in Chain /\ number(x) > number(new) => number(x) > number(log) /\ number(x) > number(o)
      BY <1>1, <1>2, <3>4
    <3> QED BY <3>1, <3>2, <3>3, <3>5, <3>6
  <2> QED BY <2>1
<1>5. reversible_after(rv, o) \subseteq Block
    BY <1>1 DEF reversible_after
<1>6. Stored(e, reversible_after(rv, o), new, h)
    BY <1>1, <1>2, <1>3, <1>4, <1>5 DEF Stored
<1>7. Apart(rv, log) => Apart(reversible_after(rv, o), new)
    BY <1>2 DEF Apart, reversible_after
<1> QED BY <1>3, <1>6, <1>7 DEF new, e

LEMMA PushRecord ==
    ASSUME NEW d \in [base : Nat, state : Chain], NEW labels
    PROVE  push(d, labels) = [base |-> d.base, state |-> d.state \o labels]
<1> DEFINE s == d.state \o labels
<1>1. push(d, labels) = [d EXCEPT !.state = s]
    BY DEF push
<1> HIDE DEF s
<1>2. [d EXCEPT !.state = s] = [base |-> d.base, state |-> s]
    OBVIOUS
<1> QED BY <1>1, <1>2 DEF s

LEMMA ChildPrefixes ==
    ASSUME NEW b \in Block \ {Root}, NEW x \in Chain
    PROVE  IsPrefix(x, b) <=> IsPrefix(x, previous(b)) \/ x = b
<1> DEFINE h == previous(b)
<1>1. /\ b \in Chain /\ h \in Chain /\ number(b) \in Nat /\ number(x) \in Nat /\ number(h) \in Nat
      /\ number(h) = number(b) - 1 /\ h = ancestor(b, number(b) - 1) /\ number(b) - 1 \in 0 .. number(b)
    BY BlockFacts, ChainNumbers
<1>2. IsPrefix(h, b) /\ IsPrefix(b, b)
    BY <1>1, AncestorIsPrefix, ChainNumbers, PrefixIsAncestor
<1>3. IsPrefix(x, h) => IsPrefix(x, b)
    BY <1>1, <1>2, PrefixTransitive
<1>4. ASSUME IsPrefix(x, b), x # b PROVE IsPrefix(x, h)
  <2>1. number(x) <= number(b) /\ ancestor(b, number(x)) = x
    BY <1>1, <1>4, PrefixIsAncestor
  <2>2. number(x) # number(b)
    BY <1>1, <1>4, <2>1, ChainNumbers
  <2>3. number(x) <= number(h)
    BY <1>1, <2>1, <2>2
  <2> QED BY <1>1, <1>2, <1>4, <2>3, PrefixesNest
<1> QED BY <1>2, <1>3, <1>4

(* A new block on top of the head is applied and stored. *)
LEMMA Extending ==
    ASSUME NEW d, NEW rv, NEW log, NEW h, Stored(d, rv, log, h),
           NEW b \in Block \ {Root}, previous(b) = h
    PROVE  /\ Stored(push(d, <<Last(b)>>), rv \cup {b}, log, b) /\ push(d, <<Last(b)>>).base = d.base
           /\ Apart(rv, log) => Apart(rv \cup {b}, log)
<1> DEFINE e == push(d, <<Last(b)>>)
<1>1. /\ log \in Block /\ log \in Chain /\ h \in Block /\ h \in Chain /\ b \in Chain
      /\ number(log) \in Nat /\ number(b) \in Nat /\ rv \subseteq Block
      /\ IsPrefix(log, h) /\ reversible_after(rv, log) = branch(h, number(log))
      /\ number(h) \in Nat /\ number(h) = number(b) - 1 /\ h = ancestor(b, number(b) - 1)
      /\ number(b) - 1 \in 1 .. number(b)
    BY BlockFacts DEF Stored
<1>2. number(log) <= number(h)
    BY <1>1, PrefixIsAncestor
<1>3. IsPrefix(h, b)
  <2>1. number(b) - 1 \in 0 .. number(b)
    BY <1>1
  <2> QED BY <1>1, <2>1, AncestorIsPrefix
<1>4. IsPrefix(log, b)
    BY <1>1, <1>3, PrefixTransitive
<1>5. h \o <<Last(b)>> = b
  <2>1. 1 \in 1 .. Len(b) /\ Len(b) \in 1 .. Len(b) /\ b \in Seq(Label)
    BY <1>1 DEF Chain, number
  <2>2. SubSeq(b, 1, Len(b)) = SubSeq(b, 1, Len(b) - 1) \o <<b[Len(b)]>>
    BY <2>1, SubSeqRecursiveSecond
  <2>3. SubSeq(b, 1, Len(b)) = b
    BY <2>1, SubSeqFull
  <2> QED BY <1>1, <2>2, <2>3 DEF ancestor, number, Last
<1>6. e \in [base : Nat, state : Chain] /\ e.state = b /\ e.base >= number(log) /\ e.base = d.base
  <2>1. d \in [base : Nat, state : Chain] /\ d.state = h /\ d.base >= number(log) /\ d.base \in Nat
    BY DEF Stored
  <2>2. e = [base |-> d.base, state |-> d.state \o <<Last(b)>>]
    BY <2>1, PushRecord
  <2>3. e = [base |-> d.base, state |-> b]
    BY <1>5, <2>1, <2>2
  <2> QED BY <1>1, <2>1, <2>3
<1> HIDE DEF e
<1>7. reversible_after(rv \cup {b}, log) = branch(b, number(log))
  <2>1. ASSUME NEW x
        PROVE  x \in reversible_after(rv \cup {b}, log) <=> x \in branch(b, number(log))
    <3>1. x \in reversible_after(rv \cup {b}, log) <=> (x \in rv \/ x = b) /\ number(x) > number(log)
      BY DEF reversible_after
    <3>2. x \in branch(h, number(log)) <=> x \in rv /\ number(x) > number(log)
      BY <1>1 DEF reversible_after
    <3>3. /\ x \in branch(h, number(log)) <=> x \in Chain /\ IsPrefix(x, h) /\ number(x) > number(log)
          /\ x \in branch(b, number(log)) <=> x \in Chain /\ IsPrefix(x, b) /\ number(x) > number(log)
      BY <1>1, BranchPrefix
    <3>4. x \in Chain => (IsPrefix(x, b) <=> IsPrefix(x, h) \/ x = b)
      BY ChildPrefixes
    <3>5. number(b) > number(log)
      BY <1>1, <1>2
    <3> QED BY <1>1, <3>1, <3>2, <3>3, <3>4, <3>5
  <2> QED BY <2>1
<1>8. rv \cup {b} \subseteq Block
    BY <1>1
<1>9. Stored(e, rv \cup {b}, log, b)
    BY <1>1, <1>4, <1>6, <1>7, <1>8 DEF Stored
<1>10. number(b) > number(log)
    BY <1>1, <1>2
<1> QED BY <1>6, <1>9, <1>10 DEF Apart, e

LEMMA SamePrefixes ==
    ASSUME NEW a \in Chain, NEW b \in Chain, NEW n \in Nat, n <= number(a), n <= number(b),
           ancestor(a, n) = ancestor(b, n), NEW x \in Chain, number(x) <= n
    PROVE  IsPrefix(x, a) <=> IsPrefix(x, b)
<1>1. /\ number(x) \in Nat /\ number(a) \in Nat /\ number(b) \in Nat
      /\ number(x) <= number(a) /\ number(x) <= number(b)
      /\ n \in 0 .. number(a) /\ number(x) \in 0 .. n
    BY ChainNumbers
<1>2. ancestor(a, number(x)) = ancestor(b, number(x))
    BY <1>1, AgreeBelow
<1> QED BY <1>1, <1>2, PrefixIsAncestor

(* Blocks of the head's chain are popped down to height n and those of t's chain
   applied: t is another branch, or the old one again. *)
LEMMA Switching ==
    ASSUME NEW d, NEW rv, NEW log, Stored(d, rv, log, head), NEW t \in Block,
           NEW n \in Nat, branch(t, n) \subseteq Block, n < number(head), n <= number(t), ancestor(t, n) = ancestor(head, n),
           d.base <= n
    PROVE  /\ Stored(push(undo(d, number(head) - n), SubSeq(t, n + 1, number(t))),
                     kept_below(rv, n) \cup branch(t, n), log, t)
           /\ push(undo(d, number(head) - n), SubSeq(t, n + 1, number(t))).base = d.base
           /\ Apart(rv, log) => Apart(kept_below(rv, n) \cup branch(t, n), log)
<1> DEFINE u == undo(d, number(head) - n)
           e == push(u, SubSeq(t, n + 1, number(t)))
           kept == kept_below(rv, n) \cup branch(t, n)
<1>1. /\ log \in Block /\ log \in Chain /\ head \in Block /\ head \in Chain /\ t \in Chain
      /\ number(log) \in Nat /\ number(t) \in Nat /\ number(head) \in Nat /\ rv \subseteq Block
      /\ IsPrefix(log, head) /\ reversible_after(rv, log) = branch(head, number(log))
      /\ n <= number(head)
    BY BlockFacts DEF Stored
<1>2. d \in [base : Nat, state : Chain] /\ d.state = head /\ d.base >= number(log) /\ d.base \in Nat
    BY DEF Stored
<1>3. number(log) <= n
    BY <1>1, <1>2
<1>4. IsPrefix(log, t)
    BY <1>1, <1>3, SamePrefixes
<1>5. u = [base |-> d.base, state |-> ancestor(head, n)]
  <2> DEFINE to == IF Len(d.state) - (number(head) - n) < d.base THEN d.base
                   ELSE Len(d.state) - (number(head) - n)
  <2>1. to = n
    BY <1>1, <1>2 DEF number
  <2>2. u = [d EXCEPT !.state = SubSeq(d.state, 1, to)]
    BY DEF undo
  <2> HIDE DEF to
  <2>3. u = [d EXCEPT !.state = ancestor(head, n)]
    BY <1>2, <2>1, <2>2 DEF ancestor
  <2> HIDE DEF u
  <2> QED BY <1>2, <2>3
<1>6. ancestor(head, n) \in Chain
  <2>1. n \in 0 .. number(head)
    BY <1>1
  <2> QED BY <1>1, <2>1, ChainNumbers
<1>7. e = [base |-> d.base, state |-> ancestor(t, n) \o SubSeq(t, n + 1, number(t))]
  <2>1. u \in [base : Nat, state : Chain] /\ u.base = d.base /\ u.state = ancestor(t, n)
    BY <1>2, <1>5, <1>6
  <2> HIDE DEF u
  <2> QED BY <2>1, PushRecord
<1>8. ancestor(t, n) \o SubSeq(t, n + 1, number(t)) = t
  <2>1. /\ t \in Seq(Label) /\ 1 \in 1 .. Len(t) + 1 /\ n \in 1 - 1 .. Len(t)
        /\ Len(t) \in n .. Len(t)
    BY <1>1 DEF Chain, number
  <2>2. SubSeq(t, 1, n) \o SubSeq(t, n + 1, Len(t)) = SubSeq(t, 1, Len(t))
    BY <2>1, ConcatAdjacentSubSeq
  <2>3. SubSeq(t, 1, Len(t)) = t
    BY <2>1, SubSeqFull
  <2> QED BY <2>2, <2>3 DEF ancestor, number
<1> HIDE DEF e
<1>9. e \in [base : Nat, state : Chain] /\ e.state = t /\ e.base >= number(log) /\ e.base = d.base
    BY <1>1, <1>2, <1>7, <1>8
<1>10. reversible_after(kept, log) = branch(t, number(log))
  <2>1. ASSUME NEW x PROVE x \in reversible_after(kept, log) <=> x \in branch(t, number(log))
    <3>1. x \in reversible_after(kept, log)
             <=> /\ \/ x \in rv /\ (number(x) <= n \/ number(x) > number(head))
                    \/ x \in branch(t, n)
                 /\ number(x) > number(log)
      BY DEF reversible_after, kept_below
    <3>2. x \in branch(head, number(log)) <=> x \in rv /\ number(x) > number(log)
      BY <1>1 DEF reversible_after
    <3>3. /\ x \in branch(head, number(log)) <=> x \in Chain /\ IsPrefix(x, head) /\ number(x) > number(log)
          /\ x \in branch(t, number(log)) <=> x \in Chain /\ IsPrefix(x, t) /\ number(x) > number(log)
          /\ x \in branch(t, n) <=> x \in Chain /\ IsPrefix(x, t) /\ number(x) > n
      BY <1>1, BranchPrefix
    <3>4. x \in Chain => number(x) \in Nat
      BY ChainNumbers
    <3>5. x \in Chain /\ IsPrefix(x, head) => ~ number(x) > number(head)
      BY <1>1, <3>4, PrefixIsAncestor
    <3>6. x \in Chain /\ number(x) <= n => (IsPrefix(x, t) <=> IsPrefix(x, head))
      BY <1>1, SamePrefixes
    <3>7. x \in Chain /\ number(x) > n => number(x) > number(log) /\ ~ number(x) <= n
      BY <1>1, <1>3, <3>4
    <3>8. x \in Chain => number(x) > n \/ number(x) <= n
      BY <3>4
    <3> QED BY <3>1, <3>2, <3>3, <3>5, <3>6, <3>7, <3>8
  <2> QED BY <2>1
<1>11. kept \subseteq Block
    BY <1>1 DEF kept_below
<1>12. Apart(rv, log) => Apart(kept, log)
  <2>1. ASSUME NEW x \in branch(t, n) PROVE number(x) > number(log)
    <3>1. x \in Chain /\ number(x) > n
      BY <1>1, <2>1, BranchPrefix
    <3> QED BY <1>1, <1>3, <3>1, ChainNumbers
  <2> QED BY <2>1 DEF Apart, kept_below
<1> HIDE DEF kept
<1>13. Stored(e, kept, log, t)
    BY <1>1, <1>4, <1>9, <1>10, <1>11 DEF Stored
<1> QED BY <1>9, <1>12, <1>13 DEF e, kept, u

-----------------------------------------------------------------------------
(* maybe_switch_forks. *)

(* The fork database knows nothing better than the head h. *)
Held(f, h, ordered) ==
    /\ Sorted(f) /\ h \in f.index /\ f.head \in f.index
    /\ \A x \in f.index : ~ better(x, h) /\ ~ better(x, f.head)
    /\ ordered => f.head = h /\ h \in heads(f.index, f.earlier)

Marked(f, h) == f.current \ {Root} = {b \in f.index : IsPrefix(b, h)} \ {Root}

(* What maybe_switch_forks leaves behind. *)
Switched(m, log, d, rv, ordered) ==
    /\ Held(fdb', head', ordered) /\ Marked(fdb', head') /\ Rooted(fdb'.index, m, log)
    /\ Stored(db', reversible', log, head') /\ (Apart(rv, log) => Apart(reversible', log))
    /\ db'.base = d.base
    /\ outcome' \in {"ok", "rejected"}
    /\ ~ better(head, head')

LEMMA RecordFields ==
    ASSUME NEW f \in ForkRecord
    PROVE  /\ f.index \subseteq Block /\ f.head \in Block
           /\ f = [index |-> f.index, earlier |-> f.earlier, head |-> f.head,
                   current |-> f.current, validated |-> f.validated]
BY DEF ForkRecord

(* The candidate becomes the head, whatever marks and flags are set. *)
LEMMA Following ==
    ASSUME NEW f, Sorted(f), f.head \in heads(f.index, f.earlier), NEW g \in ForkRecord,
           g.index = f.index, g.earlier = f.earlier, g.head = f.head,
           g.current \subseteq g.index, g.validated \subseteq g.index
    PROVE  Held(g, f.head, TRUE)
<1>1. /\ f.index \subseteq Block /\ f.earlier \subseteq ties(f.index) /\ Asymmetric(f.earlier)
    BY RecordFields DEF Sorted
<1>2. f.head \in f.index /\ \A x \in f.index : ~ better(x, f.head)
    BY <1>1, FirstIsBest
<1>3. Sorted(g)
    BY <1>1 DEF Sorted
<1> QED BY <1>2, <1>3 DEF Held

(* A branch that starts with bad and holds the candidate is removed. *)
LEMMA Rejecting ==
    ASSUME NEW f, Sorted(f), NEW h \in f.index, NEW ordered \in BOOLEAN, Candidate(f, h, ordered),
           NEW bad, IsPrefix(bad, f.head), ~ IsPrefix(bad, h), NEW g \in removed(f, subtree(f, bad))
    PROVE  /\ Held(g, h, ordered)
           /\ g.index = f.index \ subtree(f, bad) /\ g.current = f.current \cap g.index
<1> DEFINE kept == f.index \ subtree(f, bad)
           order == f.earlier \cap ties(kept)
<1>1. /\ f \in ForkRecord /\ f.index \subseteq Block /\ f.head \in Block
      /\ f.earlier \subseteq ties(f.index) /\ Asymmetric(f.earlier)
      /\ f.head \in heads(f.index, f.earlier)
    BY RecordFields DEF Sorted, Candidate
<1>2. PICK c \in heads(kept, order) :
         g = [index |-> kept, earlier |-> order, head |-> c,
              current |-> f.current \cap kept, validated |-> f.validated \cap kept]
    BY DEF removed
<1>3. f.head \notin kept /\ h \in kept /\ kept \subseteq f.index /\ kept \subseteq Block
  <2>1. f.head \in f.index
    BY <1>1 DEF heads
  <2> QED BY <1>1, <2>1 DEF subtree
<1>4. order \subseteq ties(kept) /\ order \subseteq f.earlier /\ Asymmetric(order)
    BY <1>1 DEF Asymmetric
<1>4a. order \subseteq Block \X Block
    BY <1>3, <1>4, TiesTyped
<1>5. ordered => h \in heads(kept, order)
  <2> SUFFICES ASSUME ordered, NEW x \in kept \ {h} PROVE better(h, x) \/ <<h, x>> \in order
    BY <1>3 DEF heads
  <2>1. x \in f.index \ {f.head, h}
    BY <1>3
  <2>2. better(h, x) \/ <<h, x>> \in f.earlier
    BY <2>1 DEF Candidate
  <2>3. <<h, x>> \in f.earlier => <<h, x>> \in ties(kept)
    BY <1>1, <1>3 DEF ties
  <2> QED BY <2>2, <2>3
<1> HIDE DEF kept, order
<1>6. c \in kept /\ \A x \in kept : ~ better(x, c)
    BY <1>2, <1>3, <1>4, FirstIsBest
<1>7. ordered => c = h
    BY <1>2, <1>3, <1>4, <1>5, FirstIsUnique
<1>8. \A x \in kept : ~ better(x, h)
    BY <1>3 DEF Candidate
<1>9. g \in ForkRecord
    BY <1>2, <1>3, <1>4a, <1>6 DEF ForkRecord
<1>10. Sorted(g)
    BY <1>2, <1>4, <1>9 DEF Sorted
<1>11. Held(g, h, ordered)
    BY <1>2, <1>3, <1>5, <1>6, <1>7, <1>8, <1>10 DEF Held
<1> QED BY <1>2, <1>11 DEF kept

LEMMA Extended ==
    ASSUME LibNeverFalls, NEW f, Sorted(f), NEW ordered \in BOOLEAN, Candidate(f, head, ordered), At(f, head),
           Marked(f, head), NEW m, NEW log, Rooted(f.index, m, log),
           NEW d, NEW rv, Stored(d, rv, log, head),
           f.head # Root, previous(f.head) = head, ExtendHead(f, d, rv)
    PROVE  Switched(m, log, d, rv, ordered)
<1> DEFINE b == f.head
<1>1. /\ f \in ForkRecord /\ f.index \subseteq Block /\ b \in Block /\ b \in f.index
      /\ f.current \subseteq f.index /\ f.validated \subseteq f.index
    BY RecordFields DEF Sorted, Candidate, heads
<1>2. /\ head \in Block /\ head \in Chain /\ b \in Chain /\ number(head) \in Nat
      /\ number(b) \in Nat /\ number(head) = number(b) - 1 /\ head = ancestor(b, number(b) - 1)
    BY <1>1, BlockFacts DEF Stored
<1>3. better(b, head)
    BY <1>1, ChildIsBetter
<1>4. ~ better(head, b)
    BY <1>1, <1>2, <1>3, BetterOrder
<1>5. IsPrefix(head, b) /\ ~ IsPrefix(b, head) /\ IsPrefix(b, b)
  <2>1. number(b) - 1 \in 0 .. number(b)
    BY <1>2
  <2>2. IsPrefix(head, b)
    BY <1>2, <2>1, AncestorIsPrefix
  <2>3. ~ IsPrefix(b, head)
    <3>1. ~ number(b) <= number(head)
      BY <1>2
    <3> QED BY <1>2, <3>1, PrefixIsAncestor
  <2>4. IsPrefix(b, b)
    BY <1>2, ChainNumbers, PrefixIsAncestor
  <2> QED BY <2>2, <2>3, <2>4
<1>6. CASE can_apply(b, d, rv)
  <2>1. /\ fdb' = set_validity(mark_in_current_chain(f, {b}), {b})
        /\ head' = b /\ db' = push(d, <<Last(b)>>) /\ reversible' = rv \cup {b} /\ outcome' = "ok"
    BY <1>6 DEF ExtendHead
  <2>2. /\ fdb' \in ForkRecord /\ fdb'.index = f.index /\ fdb'.earlier = f.earlier /\ fdb'.head = b
        /\ fdb'.current = f.current \cup {b} /\ fdb'.validated = f.validated \cup {b}
    BY <1>1, <2>1 DEF set_validity, mark_in_current_chain, ForkRecord
  <2>3. fdb'.current \subseteq fdb'.index /\ fdb'.validated \subseteq fdb'.index
    BY <1>1, <2>2
  <2>4. Held(fdb', b, TRUE)
    BY <2>2, <2>3, Following DEF Candidate
  <2>5. Held(fdb', head', ordered)
    BY <2>1, <2>4 DEF Held
  <2>6. Marked(fdb', head')
    <3>1. ASSUME NEW x \in f.index PROVE IsPrefix(x, b) <=> IsPrefix(x, head) \/ x = b
      BY <1>1, BlockFacts, ChildPrefixes
    <3> QED BY <1>1, <2>1, <2>2, <3>1 DEF Marked
  <2>7. Stored(db', reversible', log, head') /\ (Apart(rv, log) => Apart(reversible', log)) /\ db'.base = d.base
    BY <1>1, <2>1, Extending
  <2> QED BY <1>4, <2>1, <2>2, <2>5, <2>6, <2>7 DEF Switched
<1>7. CASE ~ can_apply(b, d, rv)
  <2>1. /\ fdb' \in removed(f, subtree(f, b))
        /\ head' = head /\ db' = d /\ reversible' = rv /\ outcome' = "rejected"
    BY <1>7 DEF ExtendHead
  <2>2. head \in f.index
    <3> SUFFICES ASSUME f.index = {b} PROVE FALSE
      BY DEF At
    <3>1. f.index \ subtree(f, b) = {}
      BY <1>5 DEF subtree
    <3> QED BY <2>1, <3>1 DEF removed, heads
  <2>3. /\ Held(fdb', head, ordered)
        /\ fdb'.index = f.index \ subtree(f, b) /\ fdb'.current = f.current \cap fdb'.index
    BY <1>5, <2>1, <2>2, Rejecting
  <2>4. Rooted(fdb'.index, m, log)
    BY <1>1, <1>5, <2>2, <2>3, RootedRemove DEF subtree
  <2>5. Marked(fdb', head)
    BY <2>3 DEF Marked
  <2>6. ~ better(head, head)
    BY <1>2, BetterOrder
  <2> QED BY <2>1, <2>3, <2>4, <2>5, <2>6 DEF Switched
<1> QED BY <1>6, <1>7

(* The first block of the other branch that fails is not on our own chain: what
   follows our head, or the candidate, is better than it. *)
LEMMA BadIsForeign ==
    ASSUME LibNeverFalls, NEW f, Sorted(f), NEW ordered \in BOOLEAN, Candidate(f, head, ordered),
           head \in f.index, f.head # head, ~ (f.head # Root /\ previous(f.head) = head),
           NEW n \in fork_heights(f.head, head),
           branch(f.head, n) \subseteq f.index, branch(head, n) \subseteq f.index,
           number(Root) <= n,
           NEW bad \in branch(f.head, n)
    PROVE  ~ IsPrefix(bad, head)
<1> DEFINE b == f.head
<1>0. f.index \subseteq Block /\ f.earlier \subseteq ties(f.index) /\ b \in heads(f.index, f.earlier)
    BY RecordFields DEF Sorted, Candidate
<1>1. b \in f.index /\ \A x \in f.index : ~ better(x, b)
    BY <1>0, FirstIsBest
<1>2. /\ b \in Block /\ b \in Chain /\ number(b) \in Nat
      /\ head \in Block /\ head \in Chain /\ number(head) \in Nat /\ number(Root) \in Nat
    BY <1>0, <1>1, BlockFacts
<1>3. /\ n \in Nat /\ n < number(b) /\ n < number(head) /\ ancestor(b, n) = ancestor(head, n)
      /\ n + 1 \in 0 .. number(b) /\ n + 1 \in 0 .. number(head)
      /\ n + 1 \in n + 1 .. number(b) /\ n + 1 \in n + 1 .. number(head)
      /\ n + 1 = number(b) \/ n + 1 = number(head) \/ ancestor(b, n + 1) # ancestor(head, n + 1)
    BY <1>2 DEF fork_heights
<1> SUFFICES ASSUME IsPrefix(bad, head) PROVE FALSE
    OBVIOUS
<1>4. bad \in Chain /\ IsPrefix(bad, b) /\ number(bad) > n /\ number(bad) \in Nat
    BY <1>2, <1>3, BranchPrefix, ChainNumbers
<1>5. /\ number(bad) <= number(b) /\ ancestor(b, number(bad)) = bad
      /\ number(bad) <= number(head) /\ ancestor(head, number(bad)) = bad
    BY <1>2, <1>4, PrefixIsAncestor
<1>6. ancestor(b, n + 1) = ancestor(head, n + 1)
  <2>1. number(bad) \in 0 .. number(b) /\ n + 1 \in 0 .. number(bad)
    BY <1>2, <1>3, <1>4, <1>5
  <2> QED BY <1>2, <1>5, <2>1, AgreeBelow
<1>7. CASE n + 1 = number(b)
  <2>1. number(head) # number(b)
    <3> SUFFICES ASSUME number(head) = number(b) PROVE FALSE
      OBVIOUS
    <3>1. ancestor(b, n + 1) = b /\ ancestor(head, n + 1) = head
      BY <1>2, <1>7, ChainNumbers
    <3> QED BY <1>6, <3>1
  <2>2. n + 1 < number(head) /\ n + 1 \in Nat /\ n + 1 + 1 \in n + 1 .. number(head) /\ number(Root) <= n + 1
    BY <1>2, <1>3, <1>7, <2>1
  <2> DEFINE c == ancestor(head, n + 1 + 1)
  <2>3. c \in f.index /\ c \in Block
    BY <1>0, <2>2 DEF branch
  <2>4. c # Root /\ previous(c) = ancestor(head, n + 1)
    BY <1>2, <2>2, <2>3, ChildOnChain
  <2>5. previous(c) = b
    BY <1>2, <1>6, <1>7, <2>4, ChainNumbers
  <2>6. better(c, b)
    BY <2>3, <2>4, <2>5, ChildIsBetter
  <2> QED BY <1>1, <2>3, <2>6
<1>8. CASE n + 1 = number(head)
  <2>1. number(head) # number(b)
    <3> SUFFICES ASSUME number(head) = number(b) PROVE FALSE
      OBVIOUS
    <3>1. ancestor(b, n + 1) = b /\ ancestor(head, n + 1) = head
      BY <1>2, <1>8, ChainNumbers
    <3> QED BY <1>6, <3>1
  <2>2. n + 1 < number(b) /\ n + 1 \in Nat /\ n + 1 + 1 \in n + 1 .. number(b) /\ number(Root) <= n + 1
    BY <1>2, <1>3, <1>8, <2>1
  <2> DEFINE c == ancestor(b, n + 1 + 1)
  <2>3. c \in f.index /\ c \in Block
    BY <1>0, <2>2 DEF branch
  <2>4. c # Root /\ previous(c) = ancestor(b, n + 1)
    BY <1>2, <2>2, <2>3, ChildOnChain
  <2>5. previous(c) = head
    BY <1>2, <1>6, <1>8, <2>4, ChainNumbers
  <2>6. better(c, head)
    BY <2>3, <2>4, <2>5, ChildIsBetter
  <2>7. c = b
    BY <2>3, <2>6 DEF Candidate
  <2> QED BY <2>4, <2>5, <2>7
<1> QED BY <1>3, <1>6, <1>7, <1>8

LEMMA Forked ==
    ASSUME LibNeverFalls, NEW f, Sorted(f), NEW ordered \in BOOLEAN, Candidate(f, head, ordered),
           head \in f.index, Marked(f, head), NEW m, NEW log, Rooted(f.index, m, log),
           NEW d, NEW rv, Stored(d, rv, log, head),
           f.head # head, ~ (f.head # Root /\ previous(f.head) = head),
           NEW n \in fork_heights(f.head, head), ~ Lost(f, d, n), SwitchForks(f, d, rv, n),
           outcome' # "pop_failed"
    PROVE  Switched(m, log, d, rv, ordered)
<1> DEFINE b == f.head
           ours == branch(head, n)
           new == branch(b, n)
<1>0. /\ f \in ForkRecord /\ f.index \subseteq Block /\ f.current \subseteq f.index
      /\ f.validated \subseteq f.index /\ f.earlier \subseteq ties(f.index)
      /\ b \in heads(f.index, f.earlier)
    BY RecordFields DEF Sorted, Candidate
<1>1. b \in f.index /\ \A x \in f.index : ~ better(x, b)
    BY <1>0, FirstIsBest
<1>2. /\ b \in Block /\ b \in Chain /\ number(b) \in Nat /\ log \in Block /\ number(log) \in Nat
      /\ head \in Block /\ head \in Chain /\ number(head) \in Nat /\ number(Root) \in Nat
      /\ number(Root) <= number(log)
    BY <1>0, <1>1, BlockFacts DEF Stored
<1>3. n \in Nat /\ n < number(b) /\ n <= number(b) /\ n < number(head) /\ n <= number(head)
      /\ ancestor(b, n) = ancestor(head, n)
    BY <1>2 DEF fork_heights
<1>4. ancestor(head, n) \in f.index /\ (SwitchOver(f, d, rv, n) \/ RollBack(f, d, rv, n))
    BY DEF SwitchForks, PopFails
<1>5. new \subseteq f.index /\ ours \subseteq f.index /\ ~ d.base > n
    BY <1>4 DEF Lost
<1>6. d.base <= n /\ number(Root) <= n
  <2>1. d.base \in Nat /\ d.base >= number(log)
    BY DEF Stored
  <2> QED BY <1>2, <1>3, <1>5, <2>1
<1>7. ASSUME NEW x \in f.index
      PROVE  /\ x \in new <=> IsPrefix(x, b) /\ number(x) > n
             /\ x \in ours <=> IsPrefix(x, head) /\ number(x) > n
             /\ ~ number(x) > n => (IsPrefix(x, b) <=> IsPrefix(x, head))
  <2>1. x \in Chain /\ number(x) \in Nat
    BY <1>0, <1>7, BlockFacts
  <2>2. ~ number(x) > n => number(x) <= n
    BY <1>3, <2>1
  <2> QED BY <1>2, <1>3, <2>1, <2>2, BranchPrefix, SamePrefixes
<1> HIDE DEF new, ours
<1>8. CASE SwitchOver(f, d, rv, n)
  <2>1. /\ fdb' = set_validity(mark_in_current_chain(unmark_in_current_chain(f, ours), new), new)
        /\ head' = b /\ outcome' = "ok" /\ reversible' = kept_below(rv, n) \cup new
        /\ db' = push(undo(d, number(head) - n), SubSeq(b, n + 1, number(b)))
    BY <1>8 DEF SwitchOver, new, ours
  <2>2. /\ fdb' \in ForkRecord /\ fdb'.index = f.index /\ fdb'.earlier = f.earlier /\ fdb'.head = b
        /\ fdb'.current = (f.current \ ours) \cup new /\ fdb'.validated = f.validated \cup new
    BY <1>0, <1>5, <2>1 DEF set_validity, mark_in_current_chain, unmark_in_current_chain, ForkRecord
  <2>3. fdb'.current \subseteq fdb'.index /\ fdb'.validated \subseteq fdb'.index
    BY <1>0, <1>5, <2>2
  <2>4. Held(fdb', b, TRUE)
    BY <1>0, <2>2, <2>3, Following
  <2>5. Held(fdb', head', ordered)
    BY <2>1, <2>4 DEF Held
  <2>6. Marked(fdb', head')
    <3>1. \A x \in f.index : x # Root => (x \in f.current <=> IsPrefix(x, head))
      BY <1>0 DEF Marked
    <3>2. \A x \in f.index : x # Root => (x \in fdb'.current <=> IsPrefix(x, b))
      BY <1>7, <2>2, <3>1
    <3> QED BY <2>1, <2>2, <2>3, <3>2 DEF Marked
  <2>7. Stored(db', reversible', log, head') /\ (Apart(rv, log) => Apart(reversible', log)) /\ db'.base = d.base
    <3>1. branch(b, n) \subseteq Block
      BY <1>0, <1>5 DEF new
    <3> QED BY <1>2, <1>3, <1>6, <2>1, <3>1, Switching DEF new
  <2>8. ~ better(head, b)
    BY <1>1
  <2> QED BY <2>1, <2>2, <2>5, <2>6, <2>7, <2>8 DEF Switched
<1>9. CASE RollBack(f, d, rv, n)
  <2>1. PICK bad \in branch(f.head, n) :
           /\ fdb' \in rolled_back(f, n, bad) /\ head' = head /\ outcome' = "rejected"
           /\ db' = push(undo(d, number(head) - n), SubSeq(head, n + 1, number(head)))
           /\ reversible' = kept_below(rv, n) \cup branch(head, n)
    BY <1>9 DEF RollBack
  <2>2. ~ IsPrefix(bad, head)
    BY <1>5, <1>6, BadIsForeign DEF new, ours
  <2>3. bad \in f.index /\ bad \in Block /\ bad \in Chain /\ IsPrefix(bad, b)
    BY <1>0, <1>2, <1>3, <1>5, <2>1, BranchPrefix, BlockFacts DEF new
  <2> DEFINE applied == {x \in new : number(x) < number(bad)}
             f1 == set_validity(f, applied)
  <2>4. PICK g \in removed(f1, subtree(f, bad)) :
           fdb' = mark_in_current_chain(unmark_in_current_chain(g, applied), ours)
    BY <2>1 DEF rolled_back, new, ours
  <2>5. /\ f1 \in ForkRecord /\ f1.index = f.index /\ f1.earlier = f.earlier /\ f1.head = b
        /\ f1.current = f.current /\ f1.validated = f.validated \cup applied
    BY <1>0, <1>5 DEF set_validity, ForkRecord
  <2> HIDE DEF f1
  <2>6. Sorted(f1) /\ Candidate(f1, head, ordered) /\ head \in f1.index /\ subtree(f, bad) = subtree(f1, bad)
    <3>1. f1.validated \subseteq f1.index
      BY <1>0, <1>5, <2>5
    <3> QED BY <2>5, <3>1 DEF Sorted, Candidate, subtree
  <2>7. /\ Held(g, head, ordered)
        /\ g.index = f.index \ subtree(f, bad) /\ g.current = f.current \cap g.index
    <3>1. g \in removed(f1, subtree(f1, bad)) /\ IsPrefix(bad, f1.head)
      BY <2>3, <2>4, <2>5, <2>6
    <3>2. /\ Held(g, head, ordered)
          /\ g.index = f1.index \ subtree(f1, bad) /\ g.current = f1.current \cap g.index
      BY <2>2, <2>6, <3>1, Rejecting
    <3> QED BY <2>5, <2>6, <3>2
  <2>8. /\ g \in ForkRecord /\ g.current \subseteq g.index /\ g.validated \subseteq g.index
        /\ g.index \subseteq f.index
    BY <2>7 DEF Held, Sorted
  <2>9. ours \subseteq g.index
    <3> SUFFICES ASSUME NEW x \in ours, IsPrefix(bad, x) PROVE FALSE
      BY <1>5, <2>7 DEF subtree
    <3>1. x \in Chain /\ IsPrefix(x, head)
      BY <1>0, <1>5, <1>7, BlockFacts
    <3> QED BY <1>2, <2>2, <2>3, <3>1, PrefixTransitive
  <2>10. /\ fdb' \in ForkRecord /\ fdb'.index = g.index /\ fdb'.earlier = g.earlier /\ fdb'.head = g.head
         /\ fdb'.current = (g.current \ applied) \cup ours /\ fdb'.validated = g.validated
    <3> HIDE DEF applied
    <3>1. ours \subseteq Block
      BY <1>0, <1>5
    <3> QED BY <2>4, <2>8, <3>1 DEF mark_in_current_chain, unmark_in_current_chain, ForkRecord
  <2>11. fdb'.current \subseteq fdb'.index /\ fdb'.validated \subseteq fdb'.index
    BY <2>8, <2>9, <2>10
  <2>12. Held(fdb', head, ordered)
    <3>1. Sorted(fdb')
      BY <2>7, <2>10, <2>11 DEF Held, Sorted
    <3> QED BY <2>7, <2>10, <3>1 DEF Held
  <2>13. Marked(fdb', head)
    <3>1. \A x \in f.index : x # Root => (x \in f.current <=> IsPrefix(x, head))
      BY <1>0 DEF Marked
    <3>2. \A x \in g.index : x \in applied => number(x) > n
      BY <1>7, <2>8
    <3>3. \A x \in g.index : x # Root => (x \in fdb'.current <=> IsPrefix(x, head))
      <4> HIDE DEF applied
      <4> QED BY <1>7, <2>7, <2>8, <2>10, <3>1, <3>2
    <3> QED BY <2>10, <2>11, <3>3 DEF Marked
  <2>14. Stored(db', reversible', log, head) /\ (Apart(rv, log) => Apart(reversible', log)) /\ db'.base = d.base
    <3>1. branch(head, n) \subseteq Block
      BY <1>0, <1>5 DEF ours
    <3> QED BY <1>2, <1>3, <1>6, <2>1, <3>1, Switching
  <2>15. Rooted(fdb'.index, m, log)
    BY <1>0, <2>2, <2>3, <2>7, <2>10, RootedRemove DEF subtree
  <2>16. ~ better(head, head)
    BY <1>2, BetterOrder
  <2> QED BY <2>1, <2>12, <2>13, <2>14, <2>15, <2>16 DEF Switched
<1> QED BY <1>4, <1>8, <1>9

(* While chainbase can still undo to the first level of the index, a fork switch
   finds every block it walks over. *)
LEMMA NotLost ==
    ASSUME NEW f, f.index \subseteq Block, NEW m, NEW log, Rooted(f.index, m, log),
           f.head \in f.index, head \in f.index, NEW n \in fork_heights(f.head, head),
           NEW d, d.base \in Nat, d.base <= m
    PROVE  ~ Lost(f, d, n)
<1> DEFINE b == f.head
<1>1. /\ m \in Nat \ {0} /\ b \in Chain /\ number(b) \in Nat /\ number(b) >= m
      /\ head \in Chain /\ number(head) \in Nat /\ number(head) >= m
      /\ ancestor(b, m - 1) = ancestor(log, m - 1) /\ ancestor(head, m - 1) = ancestor(log, m - 1)
      /\ \A x \in f.index : number(x) >= m
      /\ \A x \in f.index : \A k \in m .. number(x) : ancestor(x, k) \in f.index
    BY BlockFacts DEF Rooted
<1>2. /\ n \in Nat /\ n < number(b) /\ n < number(head) /\ ancestor(b, n) = ancestor(head, n)
      /\ n + 1 = number(b) \/ n + 1 = number(head) \/ ancestor(b, n + 1) # ancestor(head, n + 1)
    BY <1>1 DEF fork_heights
<1>3. n >= m - 1
  <2> SUFFICES ASSUME n < m - 1 PROVE FALSE
    BY <1>1, <1>2
  <2>1. /\ m - 1 \in 0 .. number(b) /\ m - 1 <= number(head) /\ n + 1 \in 0 .. m - 1
        /\ n + 1 # number(b) /\ n + 1 # number(head)
    BY <1>1, <1>2
  <2>2. ancestor(b, n + 1) = ancestor(head, n + 1)
    BY <1>1, <2>1, AgreeBelow
  <2> QED BY <1>2, <2>1, <2>2
<1>4. branch(b, n) \subseteq f.index /\ branch(head, n) \subseteq f.index
  <2>1. \A x \in {b, head} : \A k \in n + 1 .. number(x) : k \in m .. number(x)
    BY <1>1, <1>2, <1>3
  <2> QED BY <1>1, <2>1 DEF branch
<1>5. ASSUME ancestor(head, n) \in f.index PROVE ~ d.base > n
  <2>1. n \in 0 .. number(head)
    BY <1>1, <1>2
  <2>2. number(ancestor(head, n)) = n
    BY <1>1, <2>1, ChainNumbers
  <2>3. n >= m
    BY <1>1, <1>5, <2>2
  <2> QED BY <1>1, <1>2, <2>3
<1> QED BY <1>4, <1>5 DEF Lost

(* Every way through maybe_switch_forks, unless it loses its fork point. *)
LEMMA MaybeSwitched ==
    ASSUME LibNeverFalls, NEW f, Sorted(f), NEW ordered \in BOOLEAN, Candidate(f, head, ordered),
           At(f, head), Marked(f, head), NEW m, NEW log, Rooted(f.index, m, log),
           NEW d, NEW rv, Stored(d, rv, log, head), maybe_switch_forks(f, d, rv),
           outcome' # "pop_failed", d.base <= m \/ outcome' # "crash"
    PROVE  Switched(m, log, d, rv, ordered)
<1>0. head \in Block
    BY DEF Stored
<1>1. CASE f.head = head /\ fdb' = f /\ head' = head /\ db' = d /\ reversible' = rv /\ outcome' = "ok"
  <2>1. /\ f \in ForkRecord /\ f.current \subseteq f.index /\ f.validated \subseteq f.index
        /\ f.head \in heads(f.index, f.earlier)
    BY DEF Sorted, Candidate
  <2>2. Held(f, head, TRUE)
    BY <1>1, <2>1, Following
  <2>3. Held(fdb', head', ordered)
    BY <1>1, <2>2 DEF Held
  <2>4. ~ better(head, head)
    BY <1>0, BetterOrder
  <2> QED BY <1>1, <2>3, <2>4 DEF Switched
<1>2. CASE f.head # Root /\ previous(f.head) = head /\ ExtendHead(f, d, rv)
    BY <1>2, Extended
<1>3. ASSUME f.head # head, ~ (f.head # Root /\ previous(f.head) = head),
             NEW n \in fork_heights(f.head, head), ~ Lost(f, d, n), SwitchForks(f, d, rv, n)
      PROVE  Switched(m, log, d, rv, ordered)
  <2>1. head \in f.index
    BY <1>3 DEF At
  <2> QED BY <1>3, <2>1, Forked
<1>4. ASSUME f.head # head, ~ (f.head # Root /\ previous(f.head) = head),
             NEW n \in fork_heights(f.head, head), Lost(f, d, n), outcome' = "crash"
      PROVE  FALSE
  <2>1. head \in f.index
    BY <1>4 DEF At
  <2>2. f.head \in f.index /\ f.index \subseteq Block
    BY RecordFields DEF Sorted, Candidate, heads
  <2>3. d.base \in Nat /\ d.base <= m
    BY <1>4 DEF Stored
  <2> QED BY <1>4, <2>1, <2>2, <2>3, NotLost
<1> QED BY <1>1, <1>2, <1>3, <1>4 DEF maybe_switch_forks

-----------------------------------------------------------------------------
(* The actions. *)

CInv ==
    /\ Held(fdb, head, restarts = 0) /\ Marked(fdb, head)
    /\ \E m : Rooted(fdb.index, m, blog) /\ (kills = 0 => db.base <= m)
    /\ Stored(db, reversible, blog, head) /\ (kills = 0 => Apart(reversible, blog))
    /\ pending \subseteq {head}
    /\ outcome \in {"ok", "rejected"}
    /\ restarts \in 0 .. MaxRestarts /\ kills \in 0 .. MaxKills

(* No fork switch popped the block it forks from, and no replay was refused or left
   a database that cannot be undone to a fork. *)
Intact == outcome # "pop_failed" /\ (kills > 0 => outcome \notin {"crash", "inconsistent"})

(* What a step means to the readers of the chain. *)
Moved == IsPrefix(blog, blog') /\ ~ better(head, head')

LEMMA OldestMarked ==
    ASSUME NEW f, f.index \subseteq Block, f.current \subseteq f.index, NEW m, NEW log,
           Rooted(f.index, m, log), NEW h \in f.index, Marked(f, h), NEW o \in oldest(f)
    PROVE  o = ancestor(h, m) /\ o \in f.index /\ number(o) = m /\ IsPrefix(o, h) /\ m <= number(h)
<1>1. m \in Nat \ {0} /\ number(h) \in Nat /\ h \in Chain /\ number(h) >= m
    BY BlockFacts DEF Rooted
<1>2. m \in m .. number(h) /\ m \in 0 .. number(h)
    BY <1>1
<1>3. ancestor(h, m) \in f.index /\ IsPrefix(ancestor(h, m), h)
    BY <1>1, <1>2, AncestorIsPrefix DEF Rooted
<1>4. ancestor(h, m) \in f.current \cup {Root}
    BY <1>3 DEF Marked
<1>5. \A x \in f.current : number(x) = m /\ x # Root => IsPrefix(x, h)
    BY DEF Marked
<1>6. o = ancestor(h, m) /\ o \in f.index /\ number(o) = m
    BY <1>4, <1>5, OldestOnChain
<1> QED BY <1>1, <1>3, <1>6

LEMMA LogGrows ==
    ASSUME NEW log \in Block, NEW o \in Block, NEW h \in Block, IsPrefix(log, h), IsPrefix(o, h)
    PROVE  /\ IsPrefix(log, log_with(log, o)) /\ IsPrefix(log, log)
           /\ number(log_with(log, o)) = number(log) \/ number(log_with(log, o)) = number(o)
<1>1. log \in Chain /\ o \in Chain /\ h \in Chain /\ number(log) \in Nat /\ number(o) \in Nat
    BY BlockFacts
<1>2. number(o) > number(log) => IsPrefix(log, o)
    BY <1>1, PrefixesNest
<1>3. IsPrefix(log, log)
    BY <1>1, ChainNumbers, PrefixIsAncestor
<1> QED BY <1>2, <1>3 DEF log_with

(* A block that links is not the genesis block. *)
LEMMA LinkedNotRoot ==
    ASSUME NEW b \in Block, previous(b) \in Block
    PROVE  b # Root
<1> SUFFICES ASSUME b = Root PROVE FALSE
    OBVIOUS
<1>1. Root \in Seq(Label) /\ Len(Root) \in Nat /\ Len(Root) > 0
    BY BlockFacts DEF number, Chain
<1>2. Len(Root) - 1 \in 0 .. number(Root)
    BY <1>1 DEF number
<1>3. number(ancestor(Root, Len(Root) - 1)) = Len(Root) - 1
    BY <1>2, BlockFacts, ChainNumbers
<1>4. previous(Root) = ancestor(Root, Len(Root) - 1)
    BY DEF previous, Front, ancestor
<1>5. number(previous(Root)) >= number(Root)
    BY BlockFacts
<1> QED BY <1>1, <1>3, <1>4, <1>5 DEF number

LEMMA SwitchedKeeps ==
    ASSUME CInv, NEW m, NEW d, NEW rv, Switched(m, blog', d, rv, restarts = 0),
           UNCHANGED <<restarts, kills>>, kills = 0 => d.base <= m /\ Apart(rv, blog'), pending' = {}
    PROVE  CInv'
<1>1. Held(fdb', head', restarts' = 0) /\ Marked(fdb', head')
    BY DEF Switched
<1>2. \E k : Rooted(fdb'.index, k, blog') /\ (kills' = 0 => db'.base <= k)
    BY DEF Switched
<1>3. /\ Stored(db', reversible', blog', head') /\ (kills' = 0 => Apart(reversible', blog'))
      /\ outcome' \in {"ok", "rejected"}
    BY DEF Switched
<1>4. restarts' \in 0 .. MaxRestarts /\ kills' \in 0 .. MaxKills
    BY DEF CInv
<1>5. pending' \subseteq {head'}
    OBVIOUS
<1> QED BY <1>1, <1>2, <1>3, <1>4, <1>5 DEF CInv, Held, Marked, Rooted, Stored, Apart

LEMMA Pushed ==
    ASSUME LibNeverFalls, CInv, NEW b \in Block, PushBlock(b), UNCHANGED <<restarts, kills>>, Intact'
    PROVE  CInv' /\ Moved
<1> DEFINE ordered == restarts = 0
<1>1. /\ Sorted(fdb) /\ head \in fdb.index /\ Marked(fdb, head)
      /\ \A x \in fdb.index : ~ better(x, head)
      /\ ordered => head \in heads(fdb.index, fdb.earlier)
    BY DEF CInv, Held
<1>2. PICK m : Rooted(fdb.index, m, blog) /\ (kills = 0 => db.base <= m)
    BY DEF CInv
<1>3. /\ Stored(db, reversible, blog, head) /\ blog \in Block /\ head \in Block
      /\ IsPrefix(blog, head) /\ (kills = 0 => Apart(reversible, blog))
    BY DEF CInv, Stored
<1>4. b \notin fdb.index /\ previous(b) \in fdb.index /\ pending' = {}
    BY DEF PushBlock, known, abort_block
<1>5. /\ fdb \in ForkRecord /\ fdb.index \subseteq Block /\ fdb.earlier \subseteq ties(fdb.index)
      /\ Asymmetric(fdb.earlier) /\ fdb.current \subseteq fdb.index /\ fdb.validated \subseteq fdb.index
    BY <1>1, RecordFields DEF Sorted
<1>6. b \in Block \ {Root}
    BY <1>4, <1>5, LinkedNotRoot
<1>7. ordered \in BOOLEAN
    OBVIOUS
<1>8. outcome' # "pop_failed" /\ (kills = 0 \/ outcome' # "crash") /\ db.base \in Nat /\ m \in Nat
  <2>1. kills = 0 \/ kills' > 0
    BY BoundsAssumption DEF CInv
  <2> QED BY <1>2, <1>3, <2>1 DEF Intact, Stored, Rooted
<1> HIDE DEF ordered
<1>9. PICK f \in inserted(fdb, b) : \E o \in oldest(f) :
          \/ /\ ~ must_prune(f, o)
             /\ blog' = blog
             /\ maybe_switch_forks(f, db, reversible)
          \/ /\ must_prune(f, o) /\ irreversible_links(blog, o)
             /\ blog' = log_with(blog, o)
             /\ \E g \in pruned(f, o) :
                   maybe_switch_forks(g, commit(db, number(o)), reversible_after(reversible, o))
          \/ /\ must_prune(f, o) /\ ~ irreversible_links(blog, o)
             /\ fdb' = f /\ outcome' = "unlinkable"
             /\ UNCHANGED <<head, db, reversible, blog>>
    BY DEF PushBlock
<1>10. /\ Sorted(f) /\ f.index = fdb.index \cup {b} /\ f.current = fdb.current
       /\ Candidate(f, head, ordered)
  <2>1. fdb.current \subseteq fdb.index \cup {b} /\ fdb.validated \subseteq fdb.index \cup {b}
    BY <1>5
  <2> QED BY <1>1, <1>4, <1>5, <1>7, <2>1, Inserting
<1>11. f.index \subseteq Block /\ head \in f.index /\ f.current \subseteq f.index
    BY <1>1, <1>5, <1>10
<1>12. Rooted(f.index, m, blog)
    BY <1>2, <1>4, <1>5, <1>6, <1>10, RootedInsert
<1>13. ~ IsPrefix(b, head)
  <2> SUFFICES ASSUME IsPrefix(b, head) PROVE FALSE
    OBVIOUS
  <2>1. /\ b \in Chain /\ head \in Chain /\ number(b) \in Nat /\ number(head) \in Nat
        /\ number(previous(b)) = number(b) - 1 /\ m \in Nat /\ number(previous(b)) >= m
    BY <1>2, <1>3, <1>4, <1>6, BlockFacts DEF Rooted
  <2>2. number(b) <= number(head) /\ ancestor(head, number(b)) = b
    BY <2>1, PrefixIsAncestor
  <2>3. number(b) \in m .. number(head)
    BY <2>1, <2>2
  <2> QED BY <1>1, <1>2, <1>4, <2>2, <2>3 DEF Rooted
<1>14. Marked(f, head)
    BY <1>1, <1>10, <1>13 DEF Marked
<1>15. PICK o \in oldest(f) :
          \/ /\ ~ must_prune(f, o)
             /\ blog' = blog
             /\ maybe_switch_forks(f, db, reversible)
          \/ /\ must_prune(f, o) /\ irreversible_links(blog, o)
             /\ blog' = log_with(blog, o)
             /\ \E g \in pruned(f, o) :
                   maybe_switch_forks(g, commit(db, number(o)), reversible_after(reversible, o))
          \/ /\ must_prune(f, o) /\ ~ irreversible_links(blog, o)
             /\ fdb' = f /\ outcome' = "unlinkable"
             /\ UNCHANGED <<head, db, reversible, blog>>
    BY <1>9
<1>16. o = ancestor(head, m) /\ o \in f.index /\ number(o) = m /\ IsPrefix(o, head) /\ o \in Block
    BY <1>11, <1>12, <1>14, OldestMarked
<1>17. irreversible_links(blog, o)
    BY <1>3, <1>11, <1>12, <1>16, OldestLinks
<1>18. CASE blog' = blog /\ maybe_switch_forks(f, db, reversible)
  <2>1. At(f, head)
    BY <1>11 DEF At
  <2>2. Switched(m, blog, db, reversible, ordered)
    BY <1>2, <1>3, <1>7, <1>8, <1>10, <1>12, <1>14, <1>18, <2>1, MaybeSwitched
  <2>3. Switched(m, blog', db, reversible, restarts = 0)
    BY <1>18, <2>2 DEF ordered
  <2>4. kills = 0 => db.base <= m /\ Apart(reversible, blog')
    BY <1>2, <1>3, <1>18
  <2>5. CInv'
    BY <1>4, <2>3, <2>4, SwitchedKeeps
  <2>6. Moved
    BY <1>3, <1>16, <1>18, <2>3, LogGrows DEF Moved, Switched
  <2> QED BY <2>5, <2>6
<1>19. ASSUME must_prune(f, o), blog' = log_with(blog, o), NEW g \in pruned(f, o),
              maybe_switch_forks(g, commit(db, number(o)), reversible_after(reversible, o))
       PROVE  CInv' /\ Moved
  <2>1. /\ Sorted(g) /\ Candidate(g, head, ordered) /\ At(g, head)
        /\ Rooted(g.index, m + 1, blog')
        /\ g.index = {x \in f.index : number(x) > m /\ IsPrefix(o, x)}
        /\ g.current = f.current \cap g.index
    <3>1. Pruned(f, m, blog, head, ordered, o, g)
      BY <1>3, <1>7, <1>10, <1>11, <1>12, <1>16, <1>19, PrunedFork
    <3> QED BY <1>19, <3>1 DEF Pruned
  <2>2. Marked(g, head)
    BY <1>14, <2>1 DEF Marked
  <2> DEFINE d == commit(db, number(o))
             rv == reversible_after(reversible, o)
  <2>3. Stored(d, rv, blog', head) /\ (kills = 0 => d.base <= m + 1 /\ Apart(rv, blog'))
    <3>1. m + 1 \in Nat /\ number(o) <= m + 1 /\ (kills = 0 => db.base <= m + 1)
      BY <1>2, <1>8, <1>16
    <3> QED BY <1>3, <1>16, <1>19, <3>1, Committing
  <2>4. maybe_switch_forks(g, d, rv)
    BY <1>19
  <2> HIDE DEF d, rv
  <2>5. Switched(m + 1, blog', d, rv, ordered)
    BY <1>7, <1>8, <2>1, <2>2, <2>3, <2>4, MaybeSwitched
  <2>6. IsPrefix(blog, blog') /\ (number(blog') = number(blog) \/ number(blog') = number(o))
    BY <1>3, <1>16, <1>19, LogGrows
  <2>8. Switched(m + 1, blog', d, rv, restarts = 0)
    BY <2>5 DEF ordered
  <2>9. CInv'
    BY <1>4, <2>3, <2>8, SwitchedKeeps
  <2> QED BY <2>6, <2>8, <2>9 DEF Moved, Switched
<1> QED BY <1>15, <1>17, <1>18, <1>19

LEMMA OwnCommitted ==
    ASSUME LibNeverFalls, CInv, NEW b \in Block, CommitBlock(b), UNCHANGED <<restarts, kills>>
    PROVE  CInv' /\ Moved
<1> DEFINE ordered == restarts = 0
           f0 == set_validity(mark_in_current_chain(fdb, {b}), {b})
<1>1. /\ Sorted(fdb) /\ head \in fdb.index /\ Marked(fdb, head)
      /\ \A x \in fdb.index : ~ better(x, head)
      /\ ordered => head \in heads(fdb.index, fdb.earlier)
    BY DEF CInv, Held
<1>2. PICK m : Rooted(fdb.index, m, blog) /\ (kills = 0 => db.base <= m)
    BY DEF CInv
<1>3. /\ Stored(db, reversible, blog, head) /\ blog \in Block /\ head \in Block
      /\ IsPrefix(blog, head) /\ (kills = 0 => Apart(reversible, blog))
    BY DEF CInv, Stored
<1>4. b \in Own /\ b \notin fdb.index /\ previous(b) = head /\ pending' = {}
    BY DEF CommitBlock, CInv
<1>5. /\ fdb \in ForkRecord /\ fdb.index \subseteq Block /\ fdb.earlier \subseteq ties(fdb.index)
      /\ Asymmetric(fdb.earlier) /\ fdb.current \subseteq fdb.index /\ fdb.validated \subseteq fdb.index
    BY <1>1, RecordFields DEF Sorted
<1>6. b \in Block \ {Root}
    BY <1>3, <1>4, LinkedNotRoot
<1>7. ordered \in BOOLEAN
    OBVIOUS
<1>8. better(b, head)
    BY <1>4, <1>6, ChildIsBetter
<1> HIDE DEF ordered
<1>9. PICK f \in inserted(f0, b) : \E o \in oldest(f) :
          \/ ~ must_prune(f, o) /\ blog' = blog /\ Committed(b, f, db, reversible)
          \/ /\ must_prune(f, o) /\ irreversible_links(blog, o)
             /\ blog' = log_with(blog, o)
             /\ \E g \in pruned(f, o) :
                   Committed(b, g, commit(db, number(o)), reversible_after(reversible, o))
          \/ /\ must_prune(f, o) /\ ~ irreversible_links(blog, o)
             /\ fdb' = f /\ outcome' = "unlinkable"
             /\ UNCHANGED <<head, db, reversible, blog>>
    BY DEF CommitBlock
<1>10. /\ f0 \in ForkRecord /\ f0.index = fdb.index /\ f0.earlier = fdb.earlier
       /\ f0.current = fdb.current \cup {b} /\ f0.validated = fdb.validated \cup {b}
    BY <1>5 DEF set_validity, mark_in_current_chain, ForkRecord
<1> HIDE DEF f0
<1>11. /\ Sorted(f) /\ f.index = fdb.index \cup {b} /\ f.current = fdb.current \cup {b}
       /\ Candidate(f, head, ordered) /\ f.head = b
  <2>1. f0.current \subseteq f0.index \cup {b} /\ f0.validated \subseteq f0.index \cup {b}
    BY <1>5, <1>10
  <2>2. /\ f0.earlier \subseteq ties(f0.index) /\ Asymmetric(f0.earlier) /\ b \notin f0.index
        /\ head \in f0.index /\ \A x \in f0.index : ~ better(x, head)
        /\ ordered => head \in heads(f0.index, f0.earlier)
    BY <1>1, <1>4, <1>5, <1>10
  <2>3. /\ Sorted(f) /\ f.index = f0.index \cup {b} /\ f.current = f0.current
        /\ Candidate(f, head, ordered) /\ f.head = b
    BY <1>7, <1>8, <1>10, <2>1, <2>2, Inserting
  <2> QED BY <1>10, <2>3
<1>12. /\ f.index \subseteq Block /\ head \in f.index /\ b \in f.index /\ f.current \subseteq f.index
       /\ f \in ForkRecord /\ f.validated \subseteq f.index
    BY <1>1, <1>5, <1>11 DEF Sorted
<1>13. Rooted(f.index, m, blog)
    BY <1>1, <1>2, <1>4, <1>5, <1>6, <1>11, RootedInsert
<1>14. Marked(f, b)
  <2>1. \A x \in f.index : IsPrefix(x, b) <=> IsPrefix(x, head) \/ x = b
    BY <1>4, <1>6, <1>12, BlockFacts, ChildPrefixes
  <2>2. \A x \in fdb.index : x # Root => (x \in fdb.current <=> IsPrefix(x, head))
    BY <1>5, <1>1 DEF Marked
  <2>3. \A x \in f.index : x # Root => (x \in f.current <=> IsPrefix(x, b))
    BY <1>4, <1>11, <2>1, <2>2
  <2> QED BY <1>12, <2>3 DEF Marked
<1>15. PICK o \in oldest(f) :
          \/ ~ must_prune(f, o) /\ blog' = blog /\ Committed(b, f, db, reversible)
          \/ /\ must_prune(f, o) /\ irreversible_links(blog, o)
             /\ blog' = log_with(blog, o)
             /\ \E g \in pruned(f, o) :
                   Committed(b, g, commit(db, number(o)), reversible_after(reversible, o))
          \/ /\ must_prune(f, o) /\ ~ irreversible_links(blog, o)
             /\ fdb' = f /\ outcome' = "unlinkable"
             /\ UNCHANGED <<head, db, reversible, blog>>
    BY <1>9
<1>16. o \in f.index /\ number(o) = m /\ IsPrefix(o, b) /\ o \in Block
    BY <1>12, <1>13, <1>14, OldestMarked
<1>17. IsPrefix(o, head)
  <2>1. o # b
    <3>1. number(b) \in Nat /\ number(head) \in Nat /\ number(head) = number(b) - 1 /\ number(head) >= m /\ m \in Nat
      BY <1>1, <1>2, <1>4, <1>6, BlockFacts DEF Rooted
    <3>2. number(o) # number(b)
      BY <1>16, <3>1
    <3> QED BY <3>2
  <2>2. o \in Chain
    BY <1>16, BlockFacts
  <2> QED BY <1>4, <1>6, <1>16, <2>1, <2>2, ChildPrefixes
<1>18. irreversible_links(blog, o)
    BY <1>3, <1>12, <1>13, <1>16, OldestLinks
<1>19. ~ better(head, b)
    BY <1>3, <1>8, BetterOrder
<1>20. ASSUME NEW k, NEW g, NEW d, NEW rv, Sorted(g), Candidate(g, head, ordered), g.head = b,
              Rooted(g.index, k, blog'), Marked(g, b), Stored(d, rv, blog', head),
              Committed(b, g, d, rv), kills = 0 => d.base <= k /\ Apart(rv, blog')
       PROVE  CInv' /\ ~ better(head, head')
  <2>1. fdb' = g /\ head' = b /\ db' = push(d, <<Last(b)>>) /\ reversible' = rv \cup {b} /\ outcome' = "ok"
    BY <1>20 DEF Committed
  <2>2. g \in ForkRecord /\ g.current \subseteq g.index /\ g.validated \subseteq g.index
        /\ g.head \in heads(g.index, g.earlier)
    BY <1>20 DEF Sorted, Candidate
  <2>3. Held(g, b, TRUE)
    BY <1>20, <2>2, Following
  <2>4. Held(g, b, ordered)
    BY <2>3 DEF Held
  <2>5. Stored(db', reversible', blog', head') /\ (Apart(rv, blog') => Apart(reversible', blog')) /\ db'.base = d.base
    BY <1>4, <1>6, <1>20, <2>1, Extending
  <2>6. Switched(k, blog', d, rv, restarts = 0)
    BY <1>19, <1>20, <2>1, <2>4, <2>5 DEF Switched, ordered
  <2>7. CInv'
    BY <1>4, <1>20, <2>6, SwitchedKeeps
  <2> QED BY <1>19, <2>1, <2>7
<1>21. CASE blog' = blog /\ Committed(b, f, db, reversible)
  <2>1. CInv' /\ ~ better(head, head')
    BY <1>2, <1>3, <1>11, <1>13, <1>14, <1>20, <1>21
  <2> QED BY <1>3, <1>16, <1>17, <1>21, <2>1, LogGrows DEF Moved
<1>22. ASSUME must_prune(f, o), blog' = log_with(blog, o), NEW g \in pruned(f, o),
              Committed(b, g, commit(db, number(o)), reversible_after(reversible, o))
       PROVE  CInv' /\ Moved
  <2>1. /\ Sorted(g) /\ Candidate(g, head, ordered) /\ Rooted(g.index, m + 1, blog')
        /\ g.index = {x \in f.index : number(x) > m /\ IsPrefix(o, x)}
        /\ g.current = f.current \cap g.index
        /\ f.head \in g.index => g.head = f.head
    <3>1. Pruned(f, m, blog, head, ordered, o, g)
      BY <1>3, <1>7, <1>11, <1>12, <1>13, <1>16, <1>17, <1>22, PrunedFork
    <3> QED BY <1>22, <3>1 DEF Pruned
  <2>2. g.head = b
    <3>1. number(b) > m
      <4>1. m < irb[b]
        BY <1>11, <1>16, <1>22 DEF must_prune
      <4>2. irb[b] \in Nat /\ irb[b] < number(b) /\ number(b) \in Nat /\ m \in Nat
        BY <1>2, BlockFacts DEF Rooted
      <4> QED BY <4>1, <4>2
    <3> QED BY <1>11, <1>12, <1>16, <2>1, <3>1
  <2>3. Marked(g, b)
    BY <1>14, <2>1 DEF Marked
  <2> DEFINE d == commit(db, number(o))
             rv == reversible_after(reversible, o)
  <2>4. Stored(d, rv, blog', head) /\ (kills = 0 => d.base <= m + 1 /\ Apart(rv, blog'))
    <3>1. m \in Nat /\ db.base \in Nat
      BY <1>2, <1>3 DEF Rooted, Stored
    <3>2. m + 1 \in Nat /\ number(o) <= m + 1 /\ (kills = 0 => db.base <= m + 1)
      BY <1>2, <1>16, <3>1
    <3> QED BY <1>3, <1>16, <1>17, <1>22, <3>2, Committing
  <2>5. Committed(b, g, d, rv)
    BY <1>22
  <2> HIDE DEF d, rv
  <2>6. IsPrefix(blog, blog') /\ (number(blog') = number(blog) \/ number(blog') = number(o))
    BY <1>3, <1>16, <1>17, <1>22, LogGrows
  <2>8. CInv' /\ ~ better(head, head')
    BY <1>20, <2>1, <2>2, <2>3, <2>4, <2>5
  <2> QED BY <2>6, <2>8 DEF Moved
<1> QED BY <1>15, <1>18, <1>21, <1>22

LEMMA SessionKept ==
    ASSUME CInv, StartBlock \/ AbortBlock, UNCHANGED <<restarts, kills>>
    PROVE  CInv' /\ Moved
<1>1. UNCHANGED <<fdb, head, db, reversible, blog, outcome>> /\ pending' \subseteq {head}
    BY DEF StartBlock, AbortBlock, abort_block
<1>2. CInv'
    BY <1>1 DEF CInv, Held, Marked, Sorted, Asymmetric, Rooted, Stored, Apart, reversible_after
<1>3. blog \in Block /\ head \in Block /\ IsPrefix(blog, head)
    BY DEF CInv, Stored
<1>4. IsPrefix(blog, blog) /\ ~ better(head, head)
    BY <1>3, LogGrows, BetterOrder
<1> QED BY <1>1, <1>2, <1>4 DEF Moved

(* A clean stop and start, the first one: the head of the fork database is ours,
   so nothing of chainbase is undone, and what is found on disk is accepted. *)
LEMMA Restarted ==
    ASSUME MaxRestarts <= 1, CInv, Restart, Intact'
    PROVE  CInv' /\ Moved
<1>1. restarts = 0 /\ restarts' = 1 /\ restarts' \in 0 .. MaxRestarts /\ kills' = kills /\ pending' = {}
    BY BoundsAssumption DEF Restart, CInv, abort_block
<1>2. /\ Sorted(fdb) /\ head \in fdb.index /\ Marked(fdb, head) /\ fdb.head = head
      /\ \A x \in fdb.index : ~ better(x, head)
    BY <1>1 DEF CInv, Held
<1>3. PICK m : Rooted(fdb.index, m, blog) /\ (kills = 0 => db.base <= m)
    BY DEF CInv
<1>4. /\ Stored(db, reversible, blog, head) /\ blog \in Block /\ head \in Block
      /\ IsPrefix(blog, head) /\ (kills = 0 => Apart(reversible, blog))
    BY DEF CInv, Stored
<1>5. /\ fdb \in ForkRecord /\ fdb.index \subseteq Block
      /\ fdb.current \subseteq fdb.index /\ fdb.validated \subseteq fdb.index
    BY <1>2, RecordFields DEF Sorted
<1>6. PICK order \in SUBSET ties(fdb.index) : is_order(order, fdb.index) /\ fdb' = [fdb EXCEPT !.earlier = order]
    BY DEF Restart, reloaded
<1>7. order \subseteq Block \X Block
    BY <1>5, TiesTyped
<1>8. /\ fdb' \in ForkRecord /\ fdb'.index = fdb.index /\ fdb'.earlier = order /\ fdb'.head = head
      /\ fdb'.current = fdb.current /\ fdb'.validated = fdb.validated
    BY <1>2, <1>5, <1>6, <1>7 DEF ForkRecord
<1>9. Asymmetric(order)
  <2> SUFFICES ASSUME NEW x, NEW y, <<x, y>> \in order PROVE <<y, x>> \notin order
    BY DEF Asymmetric
  <2>1. <<x, y>> \in ties(fdb.index)
    OBVIOUS
  <2>2. <<x, y>> \in order <=> << <<x, y>>[2], <<x, y>>[1] >> \notin order
    BY <1>6, <2>1 DEF is_order
  <2> QED BY <2>2
<1>10. head' = head
    BY <1>8 DEF Restart
<1>11. Held(fdb', head', FALSE) /\ Marked(fdb', head')
  <2>1. Sorted(fdb')
    BY <1>5, <1>8, <1>9 DEF Sorted
  <2> QED BY <1>2, <1>8, <1>10, <2>1 DEF Held, Marked
<1>12. PICK o \in oldest(fdb) : \E closing \in {number(o) <= irb[fdb.head]} :
          LET d   == IF closing THEN commit(db, number(o)) ELSE db
              rv  == IF closing THEN reversible_after(reversible, o) ELSE reversible
              log == IF closing THEN log_with(blog, o) ELSE blog
              extra == Len(d.state) - number(head')
          IN  /\ reversible' = rv
              /\ blog' = log
              /\ db' = IF extra > 0 THEN undo(d, extra) ELSE d
              /\ outcome' = IF closing /\ ~ irreversible_links(blog, o) THEN "crash"
                            ELSE IF init_accepts(head', d, rv, log) THEN "ok"
                            ELSE "inconsistent"
    BY DEF Restart
<1>13. o \in fdb.index /\ number(o) = m /\ IsPrefix(o, head) /\ o \in Block /\ o = ancestor(head, m)
    BY <1>2, <1>3, <1>5, OldestMarked
<1>14. /\ Stored(commit(db, number(o)), reversible_after(reversible, o), log_with(blog, o), head)
       /\ (kills = 0 => Apart(reversible_after(reversible, o), log_with(blog, o)))
       /\ (kills = 0 => commit(db, number(o)).base <= m)
  <2>1. m \in Nat
    BY <1>3 DEF Rooted
  <2> QED BY <1>3, <1>4, <1>13, <2>1, Committing
<1>15. /\ IsPrefix(blog, log_with(blog, o)) /\ IsPrefix(blog, blog)
       /\ number(log_with(blog, o)) = number(blog) \/ number(log_with(blog, o)) = number(o)
    BY <1>4, <1>13, LogGrows
<1>16. irreversible_links(blog, o)
    BY <1>3, <1>4, <1>5, <1>13, OldestLinks
<1>17. ASSUME NEW d, NEW rv, NEW log, Stored(d, rv, log, head), kills = 0 => Apart(rv, log) /\ d.base <= m,
              IsPrefix(blog, log), number(log) = number(blog) \/ log = o,
              reversible' = rv, blog' = log,
              db' = IF Len(d.state) - number(head') > 0 THEN undo(d, Len(d.state) - number(head')) ELSE d,
              outcome' = IF init_accepts(head', d, rv, log) THEN "ok" ELSE "inconsistent"
       PROVE  CInv' /\ Moved
  <2>1. /\ log \in Block /\ log \in Chain /\ head \in Chain /\ number(log) \in Nat /\ number(head) \in Nat
        /\ d.state = head /\ IsPrefix(log, head) /\ reversible_after(rv, log) = branch(head, number(log))
        /\ m \in Nat \ {0} /\ number(blog) \in Nat /\ blog \in Chain
    BY <1>3, <1>4, <1>17, BlockFacts DEF Stored, Rooted
  <2>2. db' = d
    BY <1>10, <1>17, <2>1 DEF number
  <2>3. Stored(db', reversible', blog', head') /\ (kills' = 0 => Apart(reversible', blog'))
    BY <1>1, <1>10, <1>17, <2>2
  <2>4. ASSUME kills = 0 PROVE init_accepts(head, d, rv, log)
    <3>1. rv = branch(head, number(log))
      BY <1>17, <2>1, <2>4 DEF Apart, reversible_after
    <3>2. \A r : r \in rv <=> r \in Chain /\ IsPrefix(r, head) /\ number(r) > number(log)
      BY <2>1, <3>1, BranchPrefix
    <3>3. \A r \in rv : number(r) <= number(head)
      BY <2>1, <3>2, PrefixIsAncestor
    <3>4. number(log) <= number(head) /\ IsPrefix(head, head)
      BY <2>1, ChainNumbers, PrefixIsAncestor
    <3>5. number(log) = number(head) \/ head \in rv
      BY <2>1, <3>2, <3>4
    <3>6. number(log) = number(head) => rv = {}
      <4> SUFFICES ASSUME number(log) = number(head), NEW r \in rv PROVE FALSE
        OBVIOUS
      <4>1. number(r) \in Nat /\ number(r) > number(log) /\ number(r) <= number(head)
        BY <3>2, <3>3, ChainNumbers
      <4> QED BY <2>1, <4>1
    <3>7. Len(d.state) >= number(head)
      BY <2>1 DEF number
    <3> QED BY <3>3, <3>5, <3>6, <3>7 DEF init_accepts
  <2>5. outcome' \in {"ok", "rejected"}
    <3>1. CASE kills = 0
      BY <1>10, <1>17, <2>4, <3>1
    <3>2. CASE kills # 0
      <4>1. kills' > 0
        BY <1>1, <3>2, BoundsAssumption DEF CInv
      <4> QED BY <1>17, <4>1 DEF Intact
    <3> QED BY <3>1, <3>2
  <2>6. Rooted(fdb'.index, m, blog')
    <3>1. CASE number(log) = number(blog)
      <4>1. log = blog
        BY <1>4, <1>17, <2>1, <3>1, ChainNumbers, PrefixIsAncestor
      <4> QED BY <1>3, <1>8, <1>17, <4>1
    <3>2. CASE log = o
      <4>1. ancestor(o, m - 1) = ancestor(blog, m - 1)
        BY <1>3, <1>13 DEF Rooted
      <4>2. m <= number(log) + 1
        BY <1>13, <2>1, <3>2
      <4> QED BY <1>3, <1>8, <1>17, <3>2, <4>1, <4>2 DEF Rooted
    <3> QED BY <1>17, <3>1, <3>2
  <2>7. kills' = 0 => db'.base <= m
    BY <1>1, <1>17, <2>2
  <2>8. ~ better(head, head)
    BY <1>4, BetterOrder
  <2>9. Held(fdb', head', restarts' = 0)
    BY <1>1, <1>11 DEF Held
  <2>10. kills' \in 0 .. MaxKills
    BY <1>1 DEF CInv
  <2>11. CInv'
    <3>1. \E k : Rooted(fdb'.index, k, blog') /\ (kills' = 0 => db'.base <= k)
      BY <2>6, <2>7
    <3>2. pending' \subseteq {head'}
      BY <1>1
    <3> QED BY <1>1, <1>11, <2>3, <2>5, <2>9, <2>10, <3>1, <3>2
            DEF CInv, Held, Marked, Rooted, Stored, Apart
  <2> QED BY <1>10, <1>17, <2>8, <2>11 DEF Moved
<1>18. CASE number(o) <= irb[fdb.head]
  <2> DEFINE d == commit(db, number(o))
             rv == reversible_after(reversible, o)
             log == log_with(blog, o)
  <2>1. /\ reversible' = rv /\ blog' = log
        /\ db' = IF Len(d.state) - number(head') > 0 THEN undo(d, Len(d.state) - number(head')) ELSE d
        /\ outcome' = IF init_accepts(head', d, rv, log) THEN "ok" ELSE "inconsistent"
    BY <1>12, <1>16, <1>18
  <2>2. Stored(d, rv, log, head) /\ (kills = 0 => Apart(rv, log) /\ d.base <= m) /\ IsPrefix(blog, log)
    BY <1>14, <1>15
  <2>3. number(log) = number(blog) \/ log = o
    BY DEF log_with
  <2> HIDE DEF d, rv, log
  <2> QED BY <1>17, <2>1, <2>2, <2>3
<1>19. CASE ~ number(o) <= irb[fdb.head]
  <2>1. /\ reversible' = reversible /\ blog' = blog
        /\ db' = IF Len(db.state) - number(head') > 0 THEN undo(db, Len(db.state) - number(head')) ELSE db
        /\ outcome' = IF init_accepts(head', db, reversible, blog) THEN "ok" ELSE "inconsistent"
    BY <1>12, <1>19
  <2> QED BY <1>3, <1>4, <1>15, <1>17, <2>1
<1> QED BY <1>18, <1>19

-----------------------------------------------------------------------------
(* Replay: the recursive function first_kept exists, and stays within the chain. *)

KeptOn(g, D) ==
    \A b \in D : g[b] = IF b = Root THEN number(Root)
                        ELSE LET k == g[previous(b)] IN IF k < irb[b] THEN k + 1 ELSE k

UpTo(n) == {b \in Block : number(b) <= n}

LEMMA UpToClosed ==
    ASSUME NEW n \in Nat, NEW b \in UpTo(n), b # Root
    PROVE  /\ previous(b) \in UpTo(n) /\ n - 1 \in Nat /\ previous(b) \in UpTo(n - 1)
           /\ previous(b) \in Block /\ number(previous(b)) < number(b)
<1>1. b \in Block \ {Root} /\ number(b) <= n
    BY DEF UpTo
<1>2. /\ previous(b) \in Block /\ number(previous(b)) = number(b) - 1 /\ number(b) \in Nat
      /\ number(b) - 1 \in 1 .. number(b)
    BY <1>1, BlockFacts
<1>3. n - 1 \in Nat /\ number(previous(b)) <= n - 1 /\ number(previous(b)) <= n
      /\ number(previous(b)) < number(b)
    BY <1>1, <1>2
<1> QED BY <1>2, <1>3 DEF UpTo

LEMMA KeptUnique ==
    ASSUME NEW n \in Nat, NEW k \in Nat, NEW g, NEW h, KeptOn(g, UpTo(n)), KeptOn(h, UpTo(k)),
           NEW b \in UpTo(n), b \in UpTo(k)
    PROVE  g[b] = h[b]
<1> DEFINE Differ == {number(x) : x \in {y \in UpTo(n) \cap UpTo(k) : g[y] # h[y]}}
<1> SUFFICES ASSUME g[b] # h[b] PROVE FALSE
    OBVIOUS
<1>1. Differ \subseteq Nat /\ Differ # {}
  <2>1. \A x \in UpTo(n) : number(x) \in Nat
    BY BlockFacts DEF UpTo
  <2>2. number(b) \in Differ
    OBVIOUS
  <2> QED BY <2>1, <2>2
<1>2. PICK i \in Differ : \A j \in Differ : i <= j
    BY <1>1, LeastExists
<1>3. PICK x \in UpTo(n) \cap UpTo(k) : g[x] # h[x] /\ i = number(x)
    OBVIOUS
<1>4. x # Root
    BY <1>3 DEF KeptOn
<1>5. /\ previous(x) \in UpTo(n) /\ previous(x) \in UpTo(k) /\ number(previous(x)) < number(x)
    BY <1>3, <1>4, UpToClosed
<1>6. g[previous(x)] = h[previous(x)]
  <2> SUFFICES ASSUME g[previous(x)] # h[previous(x)] PROVE FALSE
    OBVIOUS
  <2>1. number(previous(x)) \in Differ
    BY <1>5
  <2>2. number(x) <= number(previous(x)) /\ number(x) \in Nat /\ number(previous(x)) \in Nat
    BY <1>1, <1>2, <1>3, <2>1
  <2> QED BY <1>5, <2>2
<1> QED BY <1>3, <1>4, <1>6 DEF KeptOn

LEMMA KeptExists ==
    ASSUME NEW n \in Nat
    PROVE  \E g \in [UpTo(n) -> Nat] : KeptOn(g, UpTo(n))
<1> DEFINE Solved(i) == \E g \in [UpTo(i) -> Nat] : KeptOn(g, UpTo(i))
           Bad == {i \in Nat : ~ Solved(i)}
<1>1. ASSUME NEW i \in Nat, \A j \in Nat : j < i => Solved(j) PROVE Solved(i)
  <2>1. CASE i = 0
    <3>1. UpTo(i) = {}
      <4> SUFFICES ASSUME NEW b \in UpTo(i) PROVE FALSE
        OBVIOUS
      <4>1. number(b) \in Nat /\ number(b) <= 0 /\ number(b) >= number(Root) /\ number(Root) \in Nat \ {0}
        BY <2>1, BlockFacts DEF UpTo
      <4> QED BY <4>1
    <3> DEFINE g == [b \in UpTo(i) |-> 0]
    <3>2. g \in [UpTo(i) -> Nat] /\ KeptOn(g, UpTo(i))
      BY <3>1 DEF KeptOn
    <3> QED BY <3>2
  <2>2. CASE i # 0
    <3>1. i - 1 \in Nat /\ i - 1 < i
      BY <2>2
    <3>2. PICK h \in [UpTo(i - 1) -> Nat] : KeptOn(h, UpTo(i - 1))
      <4> HIDE DEF Solved
      <4>1. Solved(i - 1)
        BY <1>1, <3>1
      <4> QED BY <4>1 DEF Solved
    <3> DEFINE g == [b \in UpTo(i) |-> IF b = Root THEN number(Root)
                                       ELSE IF h[previous(b)] < irb[b] THEN h[previous(b)] + 1
                                       ELSE h[previous(b)]]
    <3>3. \A b \in UpTo(i) : b # Root => h[previous(b)] \in Nat /\ previous(b) \in UpTo(i - 1)
      BY <3>2, UpToClosed
    <3>4. g \in [UpTo(i) -> Nat]
      BY <3>3, BlockFacts
    <3>5. \A b \in UpTo(i - 1) : b \in UpTo(i) /\ g[b] = h[b]
      <4> TAKE b \in UpTo(i - 1)
      <4>1. b \in UpTo(i)
        BY BlockFacts DEF UpTo
      <4> QED BY <3>2, <4>1 DEF KeptOn
    <3>6. ASSUME NEW b \in UpTo(i), b # Root PROVE g[previous(b)] = h[previous(b)]
      BY <3>3, <3>5, <3>6
    <3>7. KeptOn(g, UpTo(i))
      <4> SUFFICES ASSUME NEW b \in UpTo(i)
                   PROVE  g[b] = IF b = Root THEN number(Root)
                                 ELSE IF g[previous(b)] < irb[b] THEN g[previous(b)] + 1 ELSE g[previous(b)]
        BY DEF KeptOn
      <4>1. g[b] = IF b = Root THEN number(Root)
                   ELSE IF h[previous(b)] < irb[b] THEN h[previous(b)] + 1 ELSE h[previous(b)]
        OBVIOUS
      <4> HIDE DEF g
      <4> QED BY <3>6, <4>1
    <3> QED BY <3>4, <3>7
  <2> QED BY <2>1, <2>2
<1> HIDE DEF Solved
<1>2. Bad = {}
  <2> SUFFICES ASSUME Bad # {} PROVE FALSE
    OBVIOUS
  <2>1. PICK i \in Bad : \A j \in Bad : i <= j
    BY LeastExists
  <2>2. i \in Nat /\ ~ Solved(i) /\ \A j \in Nat : j < i => Solved(j)
    BY <2>1
  <2> QED BY <1>1, <2>2
<1>3. Solved(n)
    BY <1>2
<1> QED BY <1>3 DEF Solved

LEMMA FirstKeptRecurs ==
    KeptOn(first_kept, Block)
<1> DEFINE G(n) == CHOOSE g \in [UpTo(n) -> Nat] : KeptOn(g, UpTo(n))
           F == [b \in Block |-> G(number(b))[b]]
<1>1. \A n \in Nat : G(n) \in [UpTo(n) -> Nat] /\ KeptOn(G(n), UpTo(n))
    BY KeptExists
<1> HIDE DEF G
<1>2. ASSUME NEW b \in Block
      PROVE  F[b] = IF b = Root THEN number(Root)
                    ELSE IF F[previous(b)] < irb[b] THEN F[previous(b)] + 1 ELSE F[previous(b)]
  <2>1. number(b) \in Nat /\ b \in UpTo(number(b)) /\ F[b] = G(number(b))[b]
    BY BlockFacts DEF UpTo
  <2>2. CASE b = Root
    BY <1>1, <2>1, <2>2 DEF KeptOn
  <2>3. CASE b # Root
    <3> DEFINE p == previous(b)
    <3>1. p \in Block /\ p \in UpTo(number(b)) /\ number(p) \in Nat /\ p \in UpTo(number(p))
      <4>1. p \in UpTo(number(b)) /\ p \in Block
        BY <2>1, <2>3, UpToClosed
      <4>2. number(p) \in Nat /\ p \in UpTo(number(p))
        BY <4>1, BlockFacts DEF UpTo
      <4> QED BY <4>1, <4>2
    <3>2. G(number(b))[p] = G(number(p))[p]
      BY <1>1, <2>1, <3>1, KeptUnique
    <3>3. F[p] = G(number(b))[p]
      BY <3>1, <3>2
    <3>4. G(number(b))[b] = IF G(number(b))[p] < irb[b] THEN G(number(b))[p] + 1 ELSE G(number(b))[p]
      BY <1>1, <2>1, <2>3 DEF KeptOn
    <3> HIDE DEF F, p
    <3>5. F[b] = IF F[p] < irb[b] THEN F[p] + 1 ELSE F[p]
      BY <2>1, <3>3, <3>4
    <3> QED BY <2>3, <3>5 DEF p
  <2> QED BY <2>2, <2>3
<1> DEFINE Step(f) == [b \in Block |-> IF b = Root THEN number(Root)
                         ELSE LET k == f[previous(b)] IN IF k < irb[b] THEN k + 1 ELSE k]
<1>3. F = Step(F)
  <2>1. F = [b \in Block |-> F[b]]
    OBVIOUS
  <2> HIDE DEF F
  <2> QED BY <1>2, <2>1
<1> HIDE DEF F
<1>4. first_kept = Step(first_kept)
    BY <1>3 DEF first_kept
<1> QED BY <1>4 DEF KeptOn

(* What is kept begins within the chain. *)
LEMMA FirstKeptBounds ==
    ASSUME NEW b \in Block
    PROVE  first_kept[b] \in Nat /\ number(Root) <= first_kept[b] /\ first_kept[b] <= number(b)
<1> DEFINE Fine(x) == /\ first_kept[x] \in Nat /\ number(Root) <= first_kept[x]
                      /\ first_kept[x] <= number(x)
           Bad == {number(x) : x \in {y \in Block : ~ Fine(y)}}
<1> SUFFICES ASSUME ~ Fine(b) PROVE FALSE
    OBVIOUS
<1>1. Bad \subseteq Nat /\ number(b) \in Bad
  <2>1. \A x \in Block : number(x) \in Nat
    BY BlockFacts
  <2> HIDE DEF Fine
  <2> QED BY <2>1
<1>2. PICK i \in Bad : \A j \in Bad : i <= j
    BY <1>1, LeastExists
<1> HIDE DEF Fine
<1>3. PICK x \in Block : ~ Fine(x) /\ i = number(x)
    BY <1>2
<1>4. first_kept[x] = IF x = Root THEN number(Root)
                      ELSE IF first_kept[previous(x)] < irb[x] THEN first_kept[previous(x)] + 1
                      ELSE first_kept[previous(x)]
    BY FirstKeptRecurs DEF KeptOn
<1>5. number(Root) \in Nat /\ number(x) \in Nat /\ irb[x] \in Nat /\ irb[x] < number(x)
    BY BlockFacts
<1>6. x # Root
    BY <1>3, <1>4, <1>5 DEF Fine
<1>7. previous(x) \in Block /\ number(previous(x)) = number(x) - 1 /\ number(previous(x)) \in Nat
    BY <1>6, BlockFacts
<1>8. Fine(previous(x))
  <2> SUFFICES ASSUME ~ Fine(previous(x)) PROVE FALSE
    OBVIOUS
  <2>1. number(previous(x)) \in Bad
    BY <1>7
  <2>2. number(x) <= number(previous(x))
    BY <1>2, <1>3, <2>1
  <2> QED BY <1>5, <1>7, <2>2
<1> DEFINE k == first_kept[previous(x)]
<1>9. k \in Nat /\ number(Root) <= k /\ k <= number(previous(x))
    BY <1>8 DEF Fine
<1>10. first_kept[x] = IF k < irb[x] THEN k + 1 ELSE k
    BY <1>4, <1>6
<1> HIDE DEF k
<1>11. Fine(x)
    BY <1>5, <1>7, <1>9, <1>10 DEF Fine
<1> QED BY <1>3, <1>11

(* What a kill finds on disk is made of blocks of bounded height. *)
Bounded(S) == S \subseteq Block /\ \E n \in Nat : \A r \in S : number(r) <= n

LEMMA BoundedSubset ==
    ASSUME NEW S, Bounded(S), NEW T, T \subseteq S
    PROVE  Bounded(T)
BY DEF Bounded

LEMMA BoundedUnion ==
    ASSUME NEW S, Bounded(S), NEW T, Bounded(T)
    PROVE  Bounded(S \cup T)
<1>1. PICK i \in Nat : \A r \in S : number(r) <= i
    BY DEF Bounded
<1>2. PICK j \in Nat : \A r \in T : number(r) <= j
    BY DEF Bounded
<1>3. S \cup T \subseteq Block
    BY DEF Bounded
<1>4. i + j \in Nat /\ \A r \in S \cup T : number(r) <= i + j
  <2>1. \A r \in S \cup T : number(r) \in Nat
    BY <1>3, BlockFacts
  <2> QED BY <1>1, <1>2, <2>1
<1> QED BY <1>3, <1>4 DEF Bounded

LEMMA BoundedBranch ==
    ASSUME NEW a \in Chain, NEW n \in Nat, branch(a, n) \subseteq Block
    PROVE  Bounded(branch(a, n))
<1>1. number(a) \in Nat
    BY ChainNumbers
<1>2. \A x \in branch(a, n) : number(x) <= number(a)
  <2> TAKE x \in branch(a, n)
  <2>1. x \in Chain /\ IsPrefix(x, a)
    BY BranchPrefix
  <2> QED BY <2>1, PrefixIsAncestor
<1> QED BY <1>1, <1>2 DEF Bounded

LEMMA SwitchingBounded ==
    ASSUME NEW f, f.head \in Block, head \in Block, NEW rv, Bounded(rv), NEW part \in switching(f, rv)
    PROVE  Bounded(part)
<1>1. ASSUME NEW n PROVE Bounded(kept_below(rv, n))
  <2>1. kept_below(rv, n) \subseteq rv
    BY DEF kept_below
  <2> QED BY <2>1, BoundedSubset
<1>2. CASE part = rv
    BY <1>2
<1>3. CASE part = rv \cup ({f.head} \cap Valid)
  <2>1. Bounded({f.head} \cap Valid)
    BY BlockFacts DEF Bounded
  <2> QED BY <1>3, <2>1, BoundedUnion
<1>4. ASSUME NEW n \in fork_heights(f.head, head), NEW k \in n .. number(f.head),
             branch(ancestor(f.head, k), n) \subseteq Valid,
             part = kept_below(rv, n) \cup branch(ancestor(f.head, k), n)
      PROVE  Bounded(part)
  <2>1. number(f.head) \in Nat /\ f.head \in Chain
    BY BlockFacts
  <2>2. n \in Nat /\ k \in 0 .. number(f.head)
    BY <2>1 DEF fork_heights
  <2>3. ancestor(f.head, k) \in Chain
    BY <2>1, <2>2, ChainNumbers
  <2>4. Bounded(branch(ancestor(f.head, k), n))
    BY <1>4, <2>2, <2>3, ValidAssumption, BoundedBranch
  <2> QED BY <1>1, <1>4, <2>4, BoundedUnion
<1>5. ASSUME NEW n \in fork_heights(f.head, head), NEW k \in n .. number(head), part = kept_below(rv, k)
      PROVE  Bounded(part)
    BY <1>1, <1>5
<1> QED BY <1>2, <1>3, <1>4, <1>5 DEF switching

LEMMA PruningBounded ==
    ASSUME NEW f \in ForkRecord, f.head \in f.index, head \in Block, Bounded(reversible),
           NEW o, NEW part \in pruning(f, o)
    PROVE  Bounded(part)
<1>1. ASSUME NEW k, part = {r \in reversible : number(r) > k} PROVE Bounded(part)
  <2>1. part \subseteq reversible
    BY <1>1
  <2> QED BY <2>1, BoundedSubset
<1>2. ASSUME NEW g \in pruned(f, o), part \in switching(g, reversible_after(reversible, o))
      PROVE  Bounded(part)
  <2>1. reversible_after(reversible, o) \subseteq reversible
    BY DEF reversible_after
  <2>2. Bounded(reversible_after(reversible, o))
    BY <2>1, BoundedSubset
  <2>3. f.index \subseteq Block
    BY RecordFields
  <2>4. g.head \in f.index
    <3> DEFINE others == UNION {subtree(f, s) : s \in siblings(f, o)}
    <3>1. CASE others = {}
      <4>1. g = [f EXCEPT !.index = @ \ {o}, !.earlier = @ \cap ties(f.index \ {o}),
                          !.current = @ \ {o}, !.validated = @ \ {o}]
        BY <3>1 DEF pruned
      <4>2. g.head = f.head
        BY <4>1 DEF ForkRecord
      <4> QED BY <4>2
    <3>2. CASE others # {}
      <4>1. g \in removed(f, others \cup {o})
        BY <3>2 DEF pruned
      <4> HIDE DEF others
      <4>2. g.head \in heads(f.index \ (others \cup {o}), f.earlier \cap ties(f.index \ (others \cup {o})))
        BY <4>1, SMTT(30) DEF removed
      <4> QED BY <4>2 DEF heads
    <3> QED BY <3>1, <3>2
  <2>5. g.head \in Block
    BY <2>3, <2>4
  <2> QED BY <1>2, <2>2, <2>5, SwitchingBounded
<1> QED BY <1>1, <1>2 DEF pruning

LEMMA DiskTyped ==
    ASSUME CInv, NEW disk \in on_disk
    PROVE  disk[1] \in Block /\ IsPrefix(blog, disk[1]) /\ Bounded(disk[2])
<1>1. /\ Sorted(fdb) /\ head \in fdb.index /\ \A x \in fdb.index : ~ better(x, head)
      /\ blog \in Block /\ head \in Block /\ IsPrefix(blog, head) /\ reversible \subseteq Block
    BY DEF CInv, Held, Stored
<1>2. /\ fdb \in ForkRecord /\ fdb.index \subseteq Block /\ fdb.earlier \subseteq ties(fdb.index)
      /\ Asymmetric(fdb.earlier) /\ fdb.current \subseteq fdb.index /\ fdb.validated \subseteq fdb.index
    BY <1>1, RecordFields DEF Sorted
<1>3. number(blog) \in Nat /\ number(head) \in Nat /\ head \in Chain /\ blog \in Chain /\ IsPrefix(blog, blog)
    BY <1>1, BlockFacts, LogGrows
<1>4. Bounded(reversible)
  <2>1. number(head) >= number(blog)
    BY <1>1, <1>3, PrefixIsAncestor
  <2>2. ASSUME NEW r \in reversible PROVE number(r) <= number(head)
    <3>1. r \in Chain /\ number(r) \in Nat
      BY <1>1, BlockFacts
    <3>2. CASE number(r) > number(blog)
      <4>1. r \in branch(head, number(blog))
        BY <3>2 DEF CInv, Stored, reversible_after
      <4>2. IsPrefix(r, head)
        BY <1>3, <4>1, BranchPrefix
      <4> QED BY <1>3, <3>1, <4>2, PrefixIsAncestor
    <3>3. CASE ~ number(r) > number(blog)
      BY <1>3, <2>1, <3>1, <3>3
    <3> QED BY <3>2, <3>3
  <2> QED BY <1>1, <1>3, <2>2 DEF Bounded
<1>5. CASE disk = <<blog, reversible>>
    BY <1>1, <1>3, <1>4, <1>5
<1>6. ASSUME NEW b \in arriving, disk \in handling(b)
      PROVE  disk[1] \in Block /\ IsPrefix(blog, disk[1]) /\ Bounded(disk[2])
  <2>1. b \in Block /\ b \notin fdb.index
    BY <1>6 DEF arriving
  <2>2. PICK f \in inserted(fdb, b) :
           disk \in UNION {IF ~ must_prune(f, o) THEN {blog} \X switching(f, reversible)
                           ELSE IF irreversible_links(blog, o) THEN {log_with(blog, o)} \X pruning(f, o)
                           ELSE {} : o \in oldest(f)}
    BY <1>6 DEF handling
  <2>3. PICK o \in oldest(f) :
           disk \in IF ~ must_prune(f, o) THEN {blog} \X switching(f, reversible)
                    ELSE IF irreversible_links(blog, o) THEN {log_with(blog, o)} \X pruning(f, o)
                    ELSE {}
    BY <2>2
  <2>4. Sorted(f) /\ f.index = fdb.index \cup {b} /\ Candidate(f, head, FALSE)
    <3>1. fdb.current \subseteq fdb.index \cup {b} /\ fdb.validated \subseteq fdb.index \cup {b}
      BY <1>2
    <3> QED BY <1>1, <1>2, <2>1, <3>1, Inserting
  <2>5. f \in ForkRecord /\ f.index \subseteq Block /\ f.head \in f.index /\ f.head \in Block /\ o \in Block
    BY <2>4, RecordFields DEF Sorted, Candidate, heads, oldest
  <2>6. CASE disk \in {blog} \X switching(f, reversible)
    <3>1. disk[1] = blog /\ disk[2] \in switching(f, reversible)
      BY <2>6
    <3> QED BY <1>1, <1>3, <1>4, <2>5, <3>1, SwitchingBounded
  <2>7. CASE irreversible_links(blog, o) /\ disk \in {log_with(blog, o)} \X pruning(f, o)
    <3>1. disk[1] = log_with(blog, o) /\ disk[2] \in pruning(f, o)
      BY <2>7
    <3>2. Bounded(disk[2])
      BY <1>1, <1>4, <2>5, <3>1, PruningBounded
    <3>3. number(o) > number(blog) => IsPrefix(blog, o)
      <4> SUFFICES ASSUME number(o) > number(blog) PROVE IsPrefix(blog, o)
        OBVIOUS
      <4>1. previous(o) = blog
        BY <2>7 DEF irreversible_links
      <4>2. o # Root
        BY <1>1, <2>5, <4>1, LinkedNotRoot
      <4> QED BY <1>3, <2>5, <4>1, <4>2, ChildPrefixes
    <3> QED BY <1>1, <1>3, <2>5, <3>1, <3>2, <3>3 DEF log_with
  <2> QED BY <2>3, <2>6, <2>7
<1> QED BY <1>5, <1>6 DEF on_disk

LEMMA ReplayedTo ==
    ASSUME NEW log \in Block, NEW rv, Bounded(rv)
    PROVE  \/ replay_head(log, rv) = log
           \/ /\ log # Root /\ replay_head(log, rv) \in from_number(rv, number(log) + 1)
              /\ replay_head(log, rv) \in Block
<1> DEFINE above == from_number(rv, number(log) + 1)
           T == {number(r) : r \in above}
<1>1. above \subseteq rv
    BY DEF from_number
<1>2. CASE log = Root \/ above = {}
    BY <1>2 DEF replay_head
<1>3. CASE log # Root /\ above # {}
  <2>1. PICK n \in Nat : \A r \in rv : number(r) <= n
    BY DEF Bounded
  <2>2. rv \subseteq Block
    BY DEF Bounded
  <2> HIDE DEF above
  <2>3. T \subseteq Nat /\ T # {} /\ \A i \in T : i <= n
    BY <1>1, <1>3, <2>1, <2>2, BlockFacts
  <2>4. Max(T) \in T /\ \A i \in T : i <= Max(T)
    BY <2>3, GreatestExists
  <2>5. \E r \in above : \A q \in above : number(q) <= number(r)
    BY <2>4
  <2>6. replay_head(log, rv) = CHOOSE r \in above : \A q \in above : number(q) <= number(r)
    BY <1>3 DEF replay_head, above
  <2>7. replay_head(log, rv) \in above
    BY <2>5, <2>6
  <2> QED BY <1>1, <1>3, <2>2, <2>7 DEF above
<1> QED BY <1>2, <1>3

(* Along a chain nothing is better than its end. *)
LEMMA EndIsBest ==
    ASSUME LibNeverFalls, NEW h \in Block, branch(h, number(Root)) \subseteq Block,
           NEW k \in number(Root) .. number(h)
    PROVE  ancestor(h, k) \in Block /\ ~ better(ancestor(h, k), h)
<1>1. /\ h \in Chain /\ number(h) \in Nat /\ number(Root) \in Nat \ {0} /\ ancestor(h, number(Root)) = Root
      /\ Root \in Block /\ Root \in Chain
    BY BlockFacts, BlockAssumption, PrefixIsAncestor
<1>2. ASSUME NEW i \in number(Root) .. number(h)
      PROVE  ancestor(h, i) \in Block /\ number(ancestor(h, i)) = i
  <2>1. i \in 0 .. number(h) /\ i \in Nat /\ (i = number(Root) \/ i \in number(Root) + 1 .. number(h))
    BY <1>1
  <2>2. ancestor(h, i) \in Block
    BY <1>1, <2>1 DEF branch
  <2> QED BY <1>1, <2>1, <2>2, ChainNumbers
<1> DEFINE Bad == {j \in Nat : /\ j <= number(h) - number(Root)
                               /\ better(ancestor(h, number(h) - j), h)}
<1>3. Bad = {}
  <2> SUFFICES ASSUME Bad # {} PROVE FALSE
    OBVIOUS
  <2>1. PICK j \in Bad : \A i \in Bad : j <= i
    BY LeastExists
  <2>2. j \in Nat /\ j <= number(h) - number(Root) /\ better(ancestor(h, number(h) - j), h)
    OBVIOUS
  <2>3. j # 0
    <3> SUFFICES ASSUME j = 0 PROVE FALSE
      OBVIOUS
    <3>1. ancestor(h, number(h) - j) = h
      BY <1>1, ChainNumbers
    <3> QED BY <2>2, <3>1, BetterOrder
  <2> DEFINE i == number(h) - j
             y == ancestor(h, i)
             z == ancestor(h, i + 1)
  <2>4. /\ i \in Nat /\ i < number(h) /\ number(Root) <= i /\ j - 1 \in Nat /\ j - 1 < j
        /\ i \in number(Root) .. number(h) /\ i + 1 \in number(Root) .. number(h)
        /\ j - 1 <= number(h) - number(Root) /\ number(h) - (j - 1) = i + 1
    BY <1>1, <2>2, <2>3
  <2>5. y \in Block /\ z \in Block
    BY <1>2, <2>4
  <2> HIDE DEF i
  <2>6. z # Root /\ previous(z) = y
    BY <1>1, <2>4, <2>5, ChildOnChain
  <2>7. better(z, y)
    BY <2>5, <2>6, ChildIsBetter
  <2>8. ~ better(z, h)
    <3>1. j - 1 \notin Bad
      BY <2>1, <2>2, <2>4
    <3> QED BY <2>4, <3>1
  <2>9. ~ better(y, z)
    BY <2>5, <2>7, BetterOrder
  <2>10. ~ better(y, h)
    BY <2>5, <2>8, <2>9, BetterOrder
  <2> QED BY <2>2, <2>10 DEF i
<1>4. ~ better(ancestor(h, k), h)
  <2>1. number(h) - k \in Nat /\ number(h) - k <= number(h) - number(Root) /\ number(h) - (number(h) - k) = k
    BY <1>1
  <2>2. number(h) - k \notin Bad
    BY <1>3
  <2> QED BY <2>1, <2>2
<1> QED BY <1>2, <1>4

LEMMA Replayed ==
    ASSUME LibNeverFalls, NEW log \in Block, NEW rv, Bounded(rv), NEW h, h = replay_head(log, rv),
           replay_accepts(log, rv, h), NEW after, after = {r \in rv : number(r) >= first_kept[h]},
           NEW new, new = log_with(log, ancestor(h, first_kept[h] - 1)),
           init_accepts(h, replayed_db(log, h), after, new)
    PROVE  /\ Held(replayed_fork_db(h), h, TRUE) /\ Marked(replayed_fork_db(h), h)
           /\ Rooted(replayed_fork_db(h).index, first_kept[h], new)
           /\ Stored(replayed_db(log, h), after, new, h) /\ IsPrefix(log, new)
<1> DEFINE k == first_kept[h]
           d == replayed_db(log, h)
           f == replayed_fork_db(h)
           index == branch(h, k - 1)
           above == from_number(rv, number(log) + 1)
<1>0. rv \subseteq Block
    BY DEF Bounded
<1>1. h \in Block /\ (h = log \/ (log # Root /\ h \in above))
    BY ReplayedTo
<1>2. /\ h \in Chain /\ log \in Chain /\ number(h) \in Nat /\ number(log) \in Nat
      /\ number(Root) \in Nat \ {0} /\ number(log) >= number(Root)
    BY <1>1, BlockFacts
<1>3. k \in Nat /\ number(Root) <= k /\ k <= number(h)
    BY <1>1, FirstKeptBounds
<1>4. branch(h, number(Root)) \subseteq Block
    BY ValidAssumption DEF replay_accepts
<1>5. /\ \A r \in above : log # Root => IsPrefix(r, h)
      /\ log # Root => IsPrefix(log, h)
    BY DEF replay_accepts
<1>6. IsPrefix(log, h)
    BY <1>1, <1>5, BlockAssumption
<1> HIDE DEF k, above
<1>7. number(log) <= number(h) /\ ancestor(h, number(log)) = log
    BY <1>2, <1>6, PrefixIsAncestor
<1> DEFINE a == ancestor(h, k - 1)
<1>8. k - 1 \in 0 .. number(h) /\ k - 1 \in Nat /\ a \in Chain /\ number(a) = k - 1 /\ IsPrefix(a, h)
  <2>1. k - 1 \in 0 .. number(h) /\ k - 1 \in Nat
    BY <1>2, <1>3
  <2> QED BY <1>2, <2>1, ChainNumbers, AncestorIsPrefix
<1>9. new = IF k - 1 > number(log) THEN a ELSE log
    BY <1>8 DEF log_with, k
<1>10. /\ new \in Block /\ number(new) = IF k - 1 > number(log) THEN k - 1 ELSE number(log)
       /\ IsPrefix(new, h) /\ IsPrefix(log, new)
  <2>1. CASE k - 1 > number(log)
    <3>1. k - 1 \in number(Root) + 1 .. number(h)
      BY <1>2, <1>8, <2>1
    <3>2. a \in Block
      BY <1>4, <3>1 DEF branch
    <3>3. number(log) <= number(a)
      BY <1>2, <1>8, <2>1
    <3> QED BY <1>2, <1>6, <1>8, <1>9, <2>1, <3>2, <3>3, PrefixesNest
  <2>2. CASE ~ k - 1 > number(log)
    <3>1. IsPrefix(log, log)
      BY <1>2, ChainNumbers, PrefixIsAncestor
    <3> QED BY <1>6, <1>9, <2>2, <3>1
  <2> QED BY <2>1, <2>2
<1> HIDE DEF a
<1>11. number(new) \in Nat /\ number(new) >= number(log) /\ number(new) >= k - 1 /\ new \in Chain
    BY <1>2, <1>8, <1>10, BlockFacts
<1>12. \A x : x \in index <=> x \in Chain /\ IsPrefix(x, h) /\ number(x) > k - 1
    BY <1>2, <1>8, BranchPrefix
<1>13. ASSUME NEW x \in index
       PROVE  /\ x \in Block /\ x \in Chain /\ number(x) \in Nat /\ number(x) >= k
              /\ IsPrefix(x, h) /\ ancestor(h, number(x)) = x /\ number(x) <= number(h)
              /\ ~ better(x, h)
  <2>1. x \in Chain /\ IsPrefix(x, h) /\ number(x) > k - 1 /\ number(x) \in Nat
    BY <1>12, <1>13, ChainNumbers
  <2>2. number(x) <= number(h) /\ ancestor(h, number(x)) = x
    BY <1>2, <2>1, PrefixIsAncestor
  <2>3. number(x) >= k /\ number(x) \in number(Root) .. number(h)
    BY <1>2, <1>3, <2>1, <2>2
  <2>4. x \in Block /\ ~ better(x, h)
    BY <1>1, <1>4, <2>2, <2>3, EndIsBest
  <2> QED BY <2>1, <2>2, <2>3, <2>4
<1>14. h \in index
  <2>1. number(h) > k - 1 /\ IsPrefix(h, h)
    BY <1>2, <1>3, ChainNumbers, PrefixIsAncestor
  <2> QED BY <1>2, <1>12, <2>1
<1>15. f = [index |-> index, earlier |-> {}, head |-> h,
            current |-> index \ {Root}, validated |-> index \ {Root}]
    BY DEF replayed_fork_db, k
<1> HIDE DEF index, f
<1>16. Sorted(f)
  <2>1. f \in ForkRecord
    BY <1>1, <1>13, <1>15 DEF ForkRecord
  <2> QED BY <1>15, <2>1 DEF Sorted, Asymmetric
<1>17. h \in heads(f.index, f.earlier)
  <2> SUFFICES ASSUME NEW x \in index \ {h} PROVE better(h, x)
    BY <1>14, <1>15 DEF heads
  <2>1. ~ better(x, h) /\ number(x) \in Nat /\ number(x) <= number(h) /\ ancestor(h, number(x)) = x /\ x \in Block
    BY <1>13
  <2>2. number(x) # number(h)
    BY <1>2, <2>1, ChainNumbers
  <2>3. irb[x] \in Nat /\ irb[h] \in Nat
    BY <1>1, <2>1, BlockFacts
  <2> QED BY <1>2, <2>1, <2>2, <2>3 DEF better
<1>18. Held(f, h, TRUE)
    BY <1>13, <1>14, <1>15, <1>16, <1>17 DEF Held
<1>19. Marked(f, h)
    BY <1>13, <1>15 DEF Marked
<1>20. Rooted(f.index, k, new)
  <2>1. k \in Nat \ {0} /\ k <= number(new) + 1
    BY <1>2, <1>3, <1>11
  <2>2. ancestor(h, k) \in index /\ number(ancestor(h, k)) = k
    <3>1. k \in 0 .. number(h) /\ k > k - 1
      BY <1>2, <1>3
    <3> QED BY <1>2, <1>12, <3>1, ChainNumbers, AncestorIsPrefix
  <2>3. ancestor(new, k - 1) = a
    <3>1. number(new) <= number(h) /\ ancestor(h, number(new)) = new
      BY <1>2, <1>10, <1>11, PrefixIsAncestor
    <3>2. number(new) \in 0 .. number(h) /\ k - 1 \in 0 .. number(new)
      BY <1>2, <1>8, <1>11, <3>1
    <3>3. ancestor(ancestor(h, number(new)), k - 1) = ancestor(h, k - 1)
      BY <1>2, <3>2, AncestorOfAncestor
    <3> QED BY <3>1, <3>3 DEF a
  <2>4. ASSUME NEW b \in index
        PROVE  /\ number(b) >= k /\ ancestor(b, k - 1) = a
               /\ \A i \in k .. number(b) : ancestor(b, i) \in index
    <3>1. /\ b \in Chain /\ number(b) \in Nat /\ number(b) >= k /\ ancestor(h, number(b)) = b
          /\ number(b) <= number(h) /\ IsPrefix(b, h)
      BY <1>13, <2>4
    <3>2. number(b) \in 0 .. number(h) /\ k - 1 \in 0 .. number(b)
      BY <1>2, <1>3, <1>8, <3>1
    <3>3. ancestor(ancestor(h, number(b)), k - 1) = ancestor(h, k - 1)
      BY <1>2, <3>2, AncestorOfAncestor
    <3>4. ASSUME NEW i \in k .. number(b) PROVE ancestor(b, i) \in index
      <4>1. i \in 0 .. number(b) /\ i > k - 1
        BY <1>3, <3>1
      <4>2. ancestor(b, i) \in Chain /\ number(ancestor(b, i)) = i /\ IsPrefix(ancestor(b, i), b)
        BY <3>1, <4>1, ChainNumbers, AncestorIsPrefix
      <4>3. IsPrefix(ancestor(b, i), h)
        BY <1>2, <3>1, <4>2, PrefixTransitive
      <4> QED BY <1>12, <4>1, <4>2, <4>3
    <3> QED BY <3>1, <3>3, <3>4 DEF a
  <2>5. f.index = index
    BY <1>15
  <2> QED BY <2>1, <2>2, <2>3, <2>4, <2>5 DEF Rooted
<1>21. d \in [base : Nat, state : Chain] /\ d.state = h /\ d.base >= number(new)
  <2>1. d = [base |-> IF k > number(log) THEN k - 1 ELSE number(log), state |-> h]
    BY DEF replayed_db, k
  <2>2. (IF k > number(log) THEN k - 1 ELSE number(log)) \in Nat
        /\ (IF k > number(log) THEN k - 1 ELSE number(log)) >= number(new)
    BY <1>2, <1>3, <1>8, <1>10
  <2> QED BY <1>2, <2>1, <2>2
<1>22. ASSUME NEW x PROVE x \in reversible_after(after, new) <=> x \in branch(h, number(new))
  <2>1. x \in branch(h, number(new)) <=> x \in Chain /\ IsPrefix(x, h) /\ number(x) > number(new)
    BY <1>2, <1>11, BranchPrefix
  <2>2. x \in after <=> x \in rv /\ number(x) >= k
    BY DEF k
  <2>3. x \in reversible_after(after, new) <=> x \in after /\ number(x) > number(new)
    BY DEF reversible_after
  <2>4. ASSUME x \in after, number(x) > number(new) PROVE x \in Chain /\ IsPrefix(x, h)
    <3>1. x \in rv /\ x \in Chain /\ number(x) \in Nat
      BY <1>0, <2>2, <2>4, BlockFacts
    <3>2. number(x) <= number(h)
      BY <2>4 DEF init_accepts
    <3>3. log # Root /\ h \in above
      BY <1>1, <1>2, <1>11, <2>4, <3>1, <3>2
    <3>4. \A i \in number(log) + 1 .. number(h) : \E q \in rv : number(q) = i
      BY <3>3 DEF above, from_number
    <3>5. number(x) >= number(log) + 1 /\ \A i \in number(log) + 1 .. number(x) : i \in number(log) + 1 .. number(h)
      BY <1>2, <1>11, <2>4, <3>1, <3>2
    <3>6. x \in above
      BY <3>1, <3>4, <3>5 DEF above, from_number
    <3> QED BY <1>5, <3>1, <3>3, <3>6
  <2>5. ASSUME x \in Chain, IsPrefix(x, h), number(x) > number(new) PROVE x \in after
    <3>1. number(x) \in Nat /\ number(x) <= number(h) /\ ancestor(h, number(x)) = x
      BY <1>2, <2>5, ChainNumbers, PrefixIsAncestor
    <3>2. h # log
      BY <1>2, <1>11, <2>5, <3>1
    <3>3. log # Root /\ h \in above
      BY <1>1, <3>2
    <3>4. \A i \in number(log) + 1 .. number(h) : \E q \in rv : number(q) = i
      BY <3>3 DEF above, from_number
    <3>5. /\ number(x) \in number(log) + 1 .. number(h) /\ number(x) >= number(log) + 1
          /\ \A i \in number(log) + 1 .. number(x) : i \in number(log) + 1 .. number(h)
      BY <1>2, <1>11, <2>5, <3>1
    <3>6. PICK q \in rv : number(q) = number(x)
      BY <3>4, <3>5
    <3>7. q \in above
      BY <3>4, <3>5, <3>6 DEF above, from_number
    <3>8. IsPrefix(q, h) /\ q \in Chain
      BY <1>0, <1>5, <3>3, <3>7, BlockFacts
    <3>9. q = x
      BY <1>2, <3>1, <3>6, <3>8, PrefixIsAncestor
    <3>10. number(x) >= k
      BY <1>3, <1>11, <2>5, <3>1
    <3> QED BY <2>2, <3>6, <3>9, <3>10
  <2> QED BY <2>1, <2>3, <2>4, <2>5
<1>23. reversible_after(after, new) = branch(h, number(new))
    BY <1>22
<1>24. Stored(d, after, new, h)
  <2>1. after \subseteq Block
    BY <1>0
  <2> HIDE DEF d
  <2> QED BY <1>1, <1>10, <1>21, <1>23, <2>1 DEF Stored
<1> QED BY <1>10, <1>18, <1>19, <1>20, <1>24 DEF f, d, k

LEMMA Killed ==
    ASSUME LibNeverFalls, CInv, Kill, Intact'
    PROVE  CInv' /\ IsPrefix(blog, blog') /\ kills' = kills + 1
<1>1. kills' = kills + 1 /\ kills' \in 0 .. MaxKills /\ kills' > 0 /\ restarts' = restarts /\ pending' = {}
    BY BoundsAssumption DEF Kill, CInv
<1>2. restarts' \in 0 .. MaxRestarts /\ blog \in Block
    BY <1>1 DEF CInv, Stored
<1>3. PICK disk \in on_disk :
         \E rv \in {recover_reversible_blocks(disk[2])} : \E h \in {replay_head(disk[1], rv)} :
            /\ fdb' = replayed_fork_db(h)
            /\ head' = h
            /\ db' = replayed_db(disk[1], h)
            /\ reversible' = {r \in rv : number(r) >= first_kept[h]}
            /\ blog' = log_with(disk[1], ancestor(h, first_kept[h] - 1))
            /\ outcome' = IF ~ replay_accepts(disk[1], rv, h) THEN "crash"
                          ELSE IF init_accepts(h, db', reversible', blog') THEN "ok"
                          ELSE "inconsistent"
    BY DEF Kill
<1> DEFINE log == disk[1]
           rv == recover_reversible_blocks(disk[2])
           h == replay_head(log, rv)
<1>4. /\ fdb' = replayed_fork_db(h) /\ head' = h /\ db' = replayed_db(log, h)
      /\ reversible' = {r \in rv : number(r) >= first_kept[h]}
      /\ blog' = log_with(log, ancestor(h, first_kept[h] - 1))
      /\ outcome' = IF ~ replay_accepts(log, rv, h) THEN "crash"
                    ELSE IF init_accepts(h, db', reversible', blog') THEN "ok" ELSE "inconsistent"
    BY <1>3
<1>5. log \in Block /\ IsPrefix(blog, log) /\ Bounded(disk[2])
    BY DiskTyped
<1>6. Bounded(rv)
  <2>1. rv \subseteq disk[2]
    BY DEF recover_reversible_blocks, from_number
  <2> QED BY <1>5, <2>1, BoundedSubset
<1> HIDE DEF log, rv, h
<1>7. outcome' \notin {"crash", "inconsistent"}
    BY <1>1 DEF Intact
<1>8. replay_accepts(log, rv, h) /\ init_accepts(h, db', reversible', blog') /\ outcome' = "ok"
    BY <1>4, <1>7
<1>9. h = replay_head(log, rv)
    BY DEF h
<1>10. init_accepts(h, replayed_db(log, h), reversible', blog')
    BY <1>4, <1>8
<1>11. /\ Held(fdb', h, TRUE) /\ Marked(fdb', h) /\ Rooted(fdb'.index, first_kept[h], blog')
       /\ Stored(db', reversible', blog', h) /\ IsPrefix(log, blog')
    BY <1>4, <1>5, <1>6, <1>8, <1>9, <1>10, Replayed
<1>12. Held(fdb', head', restarts' = 0)
    BY <1>4, <1>11 DEF Held
<1>13. CInv'
  <2>1. \E m : Rooted(fdb'.index, m, blog') /\ (kills' = 0 => db'.base <= m)
    BY <1>1, <1>11
  <2>2. kills' # 0 /\ pending' \subseteq {head'}
    BY <1>1
  <2> QED BY <1>1, <1>2, <1>4, <1>8, <1>11, <1>12, <2>1, <2>2
          DEF CInv, Held, Marked, Rooted, Stored, Apart
<1>14. IsPrefix(blog, blog')
  <2>1. blog \in Chain /\ log \in Chain /\ blog' \in Chain
    BY <1>2, <1>5, <1>11, BlockFacts DEF Stored
  <2> QED BY <1>5, <1>11, <2>1, PrefixTransitive
<1> QED BY <1>1, <1>13, <1>14

-----------------------------------------------------------------------------
(* The theorems. *)

LEMMA InitHolds ==
    ASSUME Init
    PROVE  CInv
<1>1. /\ Root \in Block /\ Root \in Chain /\ number(Root) \in Nat \ {0}
      /\ ancestor(Root, number(Root)) = Root /\ IsPrefix(Root, Root) /\ ~ better(Root, Root)
    BY BlockFacts, BetterOrder, ChainNumbers, PrefixIsAncestor
<1>2. /\ fdb = [index |-> {Root}, earlier |-> {}, head |-> Root, current |-> {}, validated |-> {}]
      /\ head = Root /\ db = [base |-> number(Root), state |-> Root] /\ reversible = {}
      /\ blog = Root /\ pending = {} /\ outcome = "ok" /\ restarts = 0 /\ kills = 0
    BY DEF Init, genesis_fork_db
<1>3. Sorted(fdb)
  <2>1. fdb \in ForkRecord
    BY <1>1, <1>2 DEF ForkRecord
  <2> QED BY <1>2, <2>1 DEF Sorted, Asymmetric
<1>4. Held(fdb, head, restarts = 0)
    BY <1>1, <1>2, <1>3 DEF Held, heads
<1>5. Marked(fdb, head)
    BY <1>2 DEF Marked
<1>6. Rooted(fdb.index, number(Root), blog)
  <2>1. \A k \in number(Root) .. number(Root) : ancestor(Root, k) \in {Root}
    BY <1>1
  <2>2. number(Root) <= number(Root) + 1
    BY <1>1
  <2> QED BY <1>1, <1>2, <2>1, <2>2 DEF Rooted
<1>7. Stored(db, reversible, blog, head) /\ Apart(reversible, blog)
  <2>1. branch(Root, number(Root)) = {}
    BY <1>1 DEF branch
  <2> QED BY <1>1, <1>2, <2>1 DEF Stored, Apart, reversible_after
<1>8. \E m : Rooted(fdb.index, m, blog) /\ (kills = 0 => db.base <= m)
    BY <1>1, <1>2, <1>6
<1> QED BY <1>2, <1>4, <1>5, <1>7, <1>8, BoundsAssumption DEF CInv

(* Every step either moves the chain the way Ledger allows, or is a kill. *)
LEMMA StepHolds ==
    ASSUME LibNeverFalls, MaxRestarts <= 1, CInv, Next, Intact'
    PROVE  /\ CInv' /\ IsPrefix(blog, blog')
           /\ \/ ~ better(head, head') /\ kills' = kills
              \/ kills' = kills + 1
<1>1. ASSUME NEW b \in Block, PushBlock(b), UNCHANGED <<restarts, kills>>
      PROVE  CInv' /\ Moved /\ kills' = kills
    BY <1>1, Pushed
<1>2. ASSUME NEW b \in Block, CommitBlock(b), UNCHANGED <<restarts, kills>>
      PROVE  CInv' /\ Moved /\ kills' = kills
    BY <1>2, OwnCommitted
<1>3. ASSUME StartBlock \/ AbortBlock, UNCHANGED <<restarts, kills>>
      PROVE  CInv' /\ Moved /\ kills' = kills
    BY <1>3, SessionKept
<1>4. ASSUME Restart PROVE CInv' /\ Moved /\ kills' = kills
  <2>1. kills' = kills
    BY <1>4 DEF Restart
  <2> QED BY <1>4, <2>1, Restarted
<1>5. ASSUME Kill PROVE CInv' /\ IsPrefix(blog, blog') /\ kills' = kills + 1
    BY <1>5, Killed
<1> QED BY <1>1, <1>2, <1>3, <1>4, <1>5 DEF Next, Moved

LEMMA StutterHolds ==
    ASSUME CInv, UNCHANGED vars
    PROVE  CInv'
BY DEF CInv, vars, Held, Marked, Sorted, Asymmetric, Rooted, Stored, Apart, reversible_after

(* The inductive invariant of the controller holds whatever blocks arrive, fail to
   apply, are produced, pruned, reloaded or replayed, for any number of kills: the
   handlers of controller.cpp and fork_database.cpp never break it, except that
   pop_block may fail when the block a switch forks from was just pruned, and that a
   replay may refuse what it finds. *)
THEOREM Invariance ==
    ASSUME LibNeverFalls, MaxRestarts <= 1
    PROVE  Spec /\ []Intact => []CInv
<1>1. Init => CInv
    BY InitHolds
<1>2. CInv /\ [Next]_vars /\ Intact' => CInv'
    BY StepHolds, StutterHolds
<1> QED BY <1>1, <1>2, PTL DEF Spec
-----------------------------------------------------------------------------
(* What the invariant says. *)

LEMMA CopiesFollow == CInv => CopiesAgree
<1> SUFFICES ASSUME CInv PROVE CopiesAgree
    OBVIOUS
<1>1. /\ fdb.index \subseteq Block /\ fdb.head \in Block
      /\ fdb.earlier \subseteq ties(fdb.index)
      /\ fdb.current \subseteq fdb.index /\ fdb.validated \subseteq fdb.index
    BY DEF CInv, Held, Sorted, ForkRecord
<1>2. TypeOK
    BY <1>1 DEF CInv, Stored, Chain, TypeOK, Outcome
<1> QED BY <1>2 DEF CInv, Stored, Apart, CopiesAgree, StateMatchesHead, LogAndReversibleAreHead

LEMMA ForksFollow == CInv => ForkDatabaseConsistent
<1> SUFFICES ASSUME CInv PROVE ForkDatabaseConsistent
    OBVIOUS
<1>1. HeadIsBest /\ CurrentChainIsMarked
    BY DEF CInv, Held, Marked, HeadIsBest, CurrentChainIsMarked
<1>2. /\ fdb.index \subseteq Block /\ blog \in Block
      /\ db.base \in Nat /\ db.base >= number(blog)
    BY DEF CInv, Held, Sorted, ForkRecord, Stored
<1>3. PICK m : Rooted(fdb.index, m, blog) /\ (kills = 0 => db.base <= m)
    BY DEF CInv
<1>4. m \in Nat \ {0} /\ m <= number(blog) + 1 /\ number(blog) \in Nat /\ blog \in Chain
    BY <1>2, <1>3, BlockFacts DEF Rooted
<1>5. Min({number(b) : b \in fdb.index}) = m
  <2> DEFINE N == {number(b) : b \in fdb.index}
  <2>1. m \in N /\ \A k \in N : m <= k
    BY <1>3 DEF Rooted
  <2>2. N \subseteq Nat
    BY <1>2, BlockFacts
  <2> HIDE DEF N
  <2>3. Min(N) \in N /\ \A k \in N : Min(N) <= k
    BY <2>1 DEF Min
  <2>4. Min(N) \in Nat /\ m <= Min(N) /\ Min(N) <= m
    BY <2>1, <2>2, <2>3
  <2>5. Min(N) = m
    BY <1>4, <2>4
  <2> QED BY <2>5 DEF N
<1>6. kills = 0 => m - 1 >= number(blog) - 1
    BY <1>2, <1>3, <1>4
<1>7. ASSUME NEW b \in fdb.index PROVE IsPrefix(ancestor(blog, m - 1), b)
  <2>1. /\ b \in Chain /\ number(b) \in Nat /\ number(b) >= m
        /\ ancestor(b, m - 1) = ancestor(blog, m - 1)
    BY <1>2, <1>3, <1>7, BlockFacts DEF Rooted
  <2>2. m - 1 \in 0 .. number(b)
    BY <1>4, <2>1
  <2>3. IsPrefix(ancestor(b, m - 1), b)
    BY <2>1, <2>2, AncestorIsPrefix
  <2> QED BY <2>1, <2>3
<1>8. ForksBuildOnLog
  <2>1. m - 1 <= number(blog)
    BY <1>4
  <2> QED BY <1>5, <1>6, <1>7, <2>1 DEF ForksBuildOnLog
<1> QED BY <1>1, <1>8 DEF ForkDatabaseConsistent

(* Of the assertions on the way of a block (on_irreversible, pop_block, commit_block,
   fetch_branch_from, the checks of init) only the one that a switch does not pop its
   fork point can fail while the node is not killed, and after a kill only what the
   replay itself or a switch over replayed blocks meets. *)
THEOREM AssertionsHold ==
    ASSUME LibNeverFalls, MaxRestarts <= 1
    PROVE  Spec /\ []Intact => []NoBrokenAssertion
<1>1. CInv => NoBrokenAssertion
    BY DEF CInv, NoBrokenAssertion
<1> QED BY <1>1, Invariance, PTL

(* head, chainbase, the reversible blocks and the block log agree after every handler,
   the failed switches of maybe_switch_forks, restarts and replays included. *)
THEOREM CopiesAlwaysAgree ==
    ASSUME LibNeverFalls, MaxRestarts <= 1
    PROVE  Spec /\ []Intact => []CopiesAgree
BY CopiesFollow, Invariance, PTL

(* The fork database's chains build on the block log, none is better than the head,
   and in_current_chain marks exactly the head's chain, after every handler. *)
THEOREM ForksAlwaysConsistent ==
    ASSUME LibNeverFalls, MaxRestarts <= 1
    PROVE  Spec /\ []Intact => []ForkDatabaseConsistent
BY ForksFollow, Invariance, PTL

LEMMA StepIsLedgerStep ==
    ASSUME LibNeverFalls, MaxRestarts <= 1, CInv, Next, Intact'
    PROVE  L!Move \/ L!Crash
<1>1. /\ CInv' /\ IsPrefix(blog, blog')
      /\ \/ ~ better(head, head') /\ kills' = kills
         \/ kills' = kills + 1
    BY StepHolds
<1>2. head \in Block /\ head' \in Block /\ blog' \in Block /\ IsPrefix(blog', head')
    BY <1>1 DEF CInv, Stored
<1>3. L!Grow
    BY <1>1, <1>2 DEF L!Grow, L!IsPrefix, IsPrefix
<1>4. CASE ~ better(head, head') /\ kills' = kills
  <2>1. /\ irb[head] \in Nat /\ irb[head'] \in Nat
        /\ number(head) \in Nat /\ number(head') \in Nat
    BY <1>2, IrbAssumption, BlockFacts
  <2>2. L!AtLeastAsGood(head', head)
    BY <1>4, <2>1 DEF better, number, L!AtLeastAsGood
  <2> QED BY <1>3, <1>4, <2>2 DEF L!Move
<1>5. CASE kills' = kills + 1
    BY <1>3, <1>5 DEF L!Crash
<1> QED BY <1>1, <1>4, <1>5

(* The controller implements Ledger: what readers of head_block_id and of the
   irreversible_block signal see is a chain that is only replaced by one at least as
   good, above a final part that only grows, and a kill never takes back what was
   final. *)
THEOREM LedgerImplemented ==
    ASSUME LibNeverFalls, MaxRestarts <= 1
    PROVE  Spec /\ []Intact => ImplementsLedger
<1>1. Init => L!Init
    BY DEF Init, L!Init
<1>2. CInv /\ [Next]_vars /\ Intact' => [L!Move \/ L!Crash]_<<head, blog, kills>>
    BY StepIsLedgerStep DEF vars
<1> QED BY <1>1, <1>2, Invariance, PTL DEF Spec, ImplementsLedger, L!Spec
=============================================================================
