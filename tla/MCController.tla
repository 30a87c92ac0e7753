---------------------------- MODULE MCController ----------------------------
(***************************************************************************)
(* Instances of Controller for TLC.  A fork tree is planned as the blocks  *)
(* its producers sign, one slot after the other, each with its parent; who *)
(* produced a block, how many blocks it confirms (producer_plugin's        *)
(* watermark rule, over all branches) and its LIB follow from              *)
(* BlockHeaderState.                                                       *)
(***************************************************************************)
EXTENDS Controller, BlockHeaderState, ProducerWatermarks, TLC

CONSTANTS
    Elected,    \* the producer list that the genesis producer installs
    Plan        \* a sequence of [block, parent, slot], slots increasing

(* The blocks of the genesis producer: e3 makes Elected pending, e4 active. *)
Trunk == <<[block |-> "e2", parent |-> "g", slot |-> 1],
           [block |-> "e3", parent |-> "e2", slot |-> 2],
           [block |-> "e4", parent |-> "e3", slot |-> 3]>>

(* _producer_watermarks of the nodes of all producers: the highest block each
   has signed on any branch; e3 for newly installed producers. *)
Watermarks(signed) ==
    LET installed == {Elected[i] : i \in DOMAIN Elected}
        by(p) == {signed[l].state.block_num : l \in {k \in DOMAIN signed :
                                                       signed[k].state.producer = p}}
    IN  [p \in installed \cup {signed[l].state.producer : l \in DOMAIN signed} |->
            Max(by(p) \cup (IF p \in installed THEN {3} ELSE {}))]

Header(signed, step) ==
    LET parent == signed[step.parent].state
        pro    == get_scheduled_producer(parent, step.slot)
    IN  [slot |-> step.slot, producer |-> pro,
         schedule_version |-> parent.active_schedule.version,
         confirmed |-> blocks_to_confirm(Watermarks(signed), pro, parent.block_num),
         new_producers |-> IF step.block = "e3"
                           THEN {[version |-> 1, producers |-> Elected]} ELSE {}]

(* The fork order on header states: a producer leaves a block of its own only
   for a parent that is at least as good. *)
preferred(s, t) == s.irb > t.irb \/ (s.irb = t.irb /\ s.block_num > t.block_num)

Sign(signed, step) ==
    LET parent == signed[step.parent]
        header == Header(signed, step)
    IN  Put(signed, step.block,
            [chain |-> Append(parent.chain, step.block),
             state |-> next(parent.state, header),
             honest |-> /\ next_accepts(parent.state, header)
                        /\ watermark_allows(Watermarks(signed), header.producer,
                                            parent.state.block_num)
                        /\ \A l \in DOMAIN signed :
                              signed[l].state.producer = header.producer
                                  => ~ preferred(signed[l].state, parent.state)])

Signed == FoldLeft(Sign,
    ("g" :> [chain |-> <<"g">>, honest |-> TRUE,
             state |-> genesis([version |-> 0, producers |-> <<"eosio">>], 0)]),
    Trunk \o Plan)

(* Every planned block is one its producer may sign and every node accepts. *)
ASSUME PlanIsHonest == \A l \in DOMAIN Signed : Signed[l].honest

PlanLabel == DOMAIN Signed
PlanRoot == <<"g">>
PlanBlock == {Signed[l].chain : l \in PlanLabel}
PlanIrb == [b \in PlanBlock |-> Signed[Last(b)].state.irb]

-----------------------------------------------------------------------------
Step(b, p, s) == [block |-> b, parent |-> p, slot |-> s]

(* Three producers, slots 3k, 3k+1, 3k+2 for a, b, c.  After e4 all three
   produce up to m7.  Then b is cut off and signs m8 and m9, while c and a go on
   with s8 .. s14; x10, signed by c, fails to apply.  When b is back the quorum
   is complete again: the LIB, stuck since m7, jumps at s18. *)
ElectedABC == <<"a", "b", "c">>
ForkPlan == <<
    Step("m5", "e4", 4), Step("m6", "m5", 5), Step("m7", "m6", 6),
    Step("m8", "m7", 7), Step("s8", "m7", 8), Step("s9", "s8", 9), Step("m9", "m8", 10),
    Step("x10", "s9", 11), Step("s10", "s9", 12), Step("s11", "s10", 14),
    Step("s12", "s11", 15), Step("s13", "s12", 17), Step("s14", "s13", 18),
    Step("s15", "s14", 19), Step("s16", "s15", 20), Step("s17", "s16", 21),
    Step("s18", "s17", 22)>>
ForkValid == {b \in PlanBlock : Last(b) # "x10"}
ForkOwn == {b \in PlanBlock : Last(b) \in {"m8", "m9", "s15"}}

(* Four producers, slots 4k .. 4k+3 for a .. d.  c is cut off after m6 and
   signs s7 .. s11 alone; a, b and d sign n7 .. n11, but n11, which makes m6
   irreversible, reaches neither a nor b before s11 does: to them s11 is the
   longer of two branches with equal LIB, and they go on from there until s16
   makes s11 irreversible. *)
ElectedABCD == <<"a", "b", "c", "d">>
RacePlan == <<
    Step("m5", "e4", 4), Step("m6", "m5", 5),
    Step("n7", "m6", 8), Step("s7", "m6", 10), Step("n8", "n7", 11), Step("n9", "n8", 12),
    Step("n10", "n9", 13), Step("s8", "s7", 14), Step("n11", "n10", 15),
    Step("s9", "s8", 18), Step("s10", "s9", 22), Step("s11", "s10", 26), Step("s12", "s11", 28),
    Step("s13", "s12", 29), Step("s14", "s13", 30), Step("s15", "s14", 32), Step("s16", "s15", 33)>>
=============================================================================
