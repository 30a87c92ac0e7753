----------------------------- MODULE HeaderChain -----------------------------
(***************************************************************************)
(* One chain of blocks, as its producers extend it: the header state of    *)
(* the head block (BlockHeaderState), the schedule proposed in the global  *)
(* property object, the pending block of the node whose turn it is, and    *)
(* the in-memory watermarks of producer_plugin, one producer per node.     *)
(* Every block reaches every node before the next one starts; forks are    *)
(* the business of Controller and ProducerPlugin.                          *)
(*                                                                         *)
(* Two history variables record, for every block number, the producers     *)
(* that confirmed it and how many confirmations it needed.                 *)
(***************************************************************************)
EXTENDS BlockHeaderState, ProducerWatermarks

CONSTANTS
    Producer,       \* account names of block producers
    Genesis,        \* config::system_account_name, producer of the initial schedule
    Schedules,      \* producer lists the contracts may propose
    Unreliable,     \* producers that may miss their slots
    MayRestart,     \* producers whose node may restart
    MaxBlock,       \* bound: last block number
    MaxProposal,    \* bound: last block whose transactions propose a schedule
    MaxSkip         \* bound: slots missed between two blocks

ASSUME ProducerAssumption == IsFiniteSet(Producer)  \* account names have 64 bits
ASSUME GenesisAssumption == Genesis \in Producer
ASSUME SchedulesAssumption ==
    \A l \in Schedules :
        /\ l \in Seq(Producer)
        /\ \A i, j \in DOMAIN l : l[i] = l[j] => i = j
ASSUME BoundsAssumption == MaxBlock \in Nat /\ MaxProposal \in Nat /\ MaxSkip \in Nat

VARIABLES
    head,           \* controller_impl::head, its header state
    proposed,       \* gpo.proposed_schedule(_block_num): {} or one record
    pending,        \* controller_impl::pending: {} or one record
    watermark,      \* producer_plugin_impl::_producer_watermarks, partial function
    confirmed_by,   \* history: who confirmed each block
    needed          \* history: confirmations each block needed when generated

vars == <<head, proposed, pending, watermark, confirmed_by, needed>>

initial_schedule == [version |-> 0, producers |-> <<Genesis>>]

Init ==
    /\ head = genesis(initial_schedule, 0)
    /\ proposed = {}
    /\ pending = {}
    /\ watermark = <<>>
    /\ confirmed_by = <<{}>>
    /\ needed = <<0>>

-----------------------------------------------------------------------------
(* The proposed schedule becomes pending in block state s. *)
promotes_proposed(s, was_pending_promoted) ==
    /\ \E q \in proposed : q.block_num <= s.irb
    /\ s.pending_schedule.producers = NoProducers
    /\ ~ was_pending_promoted

(* controller_impl::start_block at slot `when`, by the producer whose turn it
   is; slots in between were missed by their producers. *)
StartBlock(when) ==
    /\ pending = {}
    /\ head.block_num < MaxBlock
    /\ \A t \in head.slot + 1 .. when - 1 : get_scheduled_producer(head, t) \in Unreliable
    /\ \E template \in {generate_next(head, when)} :
       \E counted \in {set_confirmed(template,
                blocks_to_confirm(watermark, template.producer, head.block_num))} :
       \E state \in {maybe_promote_pending(counted)} :
          /\ watermark_allows(watermark, template.producer, head.block_num)
          /\ \/ /\ promotes_proposed(state, will_promote_pending(counted))
                /\ \E q \in proposed :
                      /\ can_set_new_producers(state, q.schedule)
                      /\ pending' = {[state |-> set_new_producers(state, q.schedule),
                                      new_producers |-> {q.schedule}, proposed |-> {}]}
             \/ /\ ~ promotes_proposed(state, will_promote_pending(counted))
                /\ pending' = {[state |-> state, new_producers |-> {}, proposed |-> proposed]}
    /\ UNCHANGED <<head, proposed, watermark, confirmed_by, needed>>

(* The schedule a new proposal has to differ from and follows. *)
latest_schedule(s) ==
    IF s.pending_schedule.producers = NoProducers THEN s.active_schedule ELSE s.pending_schedule

proposal(block_num, latest, producers) ==
    [block_num |-> block_num,
     schedule |-> [version |-> latest.version + 1, producers |-> producers]]

(* Mutant: the version always follows the active schedule's. *)
propose_after_active(producers) ==
    \E b \in pending :
        /\ head.block_num < MaxProposal
        /\ \A q \in b.proposed :
              q.block_num = head.block_num + 1 /\ q.schedule.producers # producers
        /\ pending' = {[b EXCEPT !.proposed =
              {proposal(head.block_num + 1, b.state.active_schedule, producers)}]}
        /\ UNCHANGED <<head, proposed, watermark, confirmed_by, needed>>

(* controller::set_proposed_producers, called by a transaction of the pending
   block; proposing what is already proposed, pending or active does nothing. *)
SetProposedProducers(producers) ==
    \E b \in pending :
        LET cur_block_num == head.block_num + 1
            latest == latest_schedule(b.state)
        IN  /\ cur_block_num <= MaxProposal
            /\ \A q \in b.proposed :
                  q.block_num = cur_block_num /\ q.schedule.producers # producers
            /\ producers # latest.producers
            /\ pending' = {[state |-> b.state, new_producers |-> b.new_producers,
                            proposed |-> {proposal(cur_block_num, latest, producers)}]}
            /\ UNCHANGED <<head, proposed, watermark, confirmed_by, needed>>

(* producer_plugin_impl::on_block looks one block ahead: producers that the next
   block is about to install get the accepted block as their watermark. *)
newly_installed(s) ==
    LET ahead == maybe_promote_pending(generate_next(s, s.slot + 1))
        Members(schedule) == {schedule.producers[i] : i \in DOMAIN schedule.producers}
    IN  IF ahead.active_schedule.version # s.active_schedule.version
        THEN Members(ahead.active_schedule) \ Members(s.active_schedule) ELSE {}

(* finalize_block, sign_block and commit_block of the node whose turn it is;
   commit_block emits accepted_block, so on_block runs on every node, and
   produce_block then raises the producer's own watermark. *)
CommitBlock ==
    \E b \in pending : \E s \in {b.state}, installed \in {newly_installed(b.state)} :
        /\ head' = s
        /\ proposed' = b.proposed
        /\ pending' = {}
        /\ watermark' = [p \in DOMAIN watermark \cup installed \cup {s.producer} |->
              IF p \in installed \cup {s.producer} THEN s.block_num ELSE watermark[p]]
        /\ confirmed_by' = [n \in 1 .. s.block_num |->
              (IF n < s.block_num THEN confirmed_by[n] ELSE {})
                 \cup (IF n >= s.block_num - s.confirmed THEN {s.producer} ELSE {})]
        /\ needed' = Append(needed, required_confirmations(Len(head.active_schedule.producers)))

(* The node of p stops and starts again: its watermarks are not durable, and a
   pending block of its own is dropped with its undo session. *)
Restart(p) ==
    /\ p \in MayRestart \cap DOMAIN watermark
    /\ watermark' = [q \in DOMAIN watermark \ {p} |-> watermark[q]]
    /\ pending' = {b \in pending : b.state.producer # p}
    /\ UNCHANGED <<head, proposed, confirmed_by, needed>>

(* The bound on the length of the chain is reached. *)
Done == head.block_num = MaxBlock /\ UNCHANGED vars

Next ==
    \/ \E skip \in 0 .. MaxSkip : StartBlock(head.slot + 1 + skip)
    \/ \E producers \in Schedules : SetProposedProducers(producers)
    \/ CommitBlock
    \/ \E p \in Producer : Restart(p)
    \/ Done

Spec == Init /\ [][Next]_vars

(* The production timer fires for every slot of a running producer, and the
   block it started is finished when its deadline passes. *)
FairSpec ==
    /\ Spec
    /\ WF_vars(\E skip \in 0 .. MaxSkip : StartBlock(head.slot + 1 + skip))
    /\ WF_vars(CommitBlock)
-----------------------------------------------------------------------------
(* Properties.                                                             *)

Schedule == [version : Nat, producers : Seq(Producer)]
Proposal == [block_num : Nat, schedule : Schedule]

IsNumbering(f) ==
    /\ f = [p \in DOMAIN f |-> f[p]]
    /\ DOMAIN f \subseteq Producer
    /\ \A p \in DOMAIN f : f[p] \in Nat

IsRecord(s) == s = [f \in HeaderFields |-> s[f]]

IsHeaderState(s) ==
    /\ IsRecord(s)
    /\ s.block_num \in Nat \ {0} /\ s.slot \in Nat /\ s.confirmed \in Nat
    /\ s.producer \in Producer \cup {NoProducer}
    /\ s.active_schedule \in Schedule /\ s.active_schedule.producers # NoProducers
    /\ s.pending_schedule \in Schedule
    /\ s.pending_schedule_lib_num \in Nat
    /\ s.proposed_irb \in Nat /\ s.irb \in Nat
    /\ IsNumbering(s.last_produced) /\ IsNumbering(s.last_implied_irb)
    /\ s.confirm_count \in Seq(Nat \ {0})

(* The types of the code's fields: the optionals hold at most one value, the
   active schedule is never empty and no counter of confirm_count stays at zero. *)
TypeOK ==
    /\ IsHeaderState(head)
    /\ proposed \subseteq Proposal /\ \A q, r \in proposed : q = r
    /\ \A b \in pending :
          /\ IsHeaderState(b.state)
          /\ b.new_producers \subseteq Schedule
          /\ b.proposed \subseteq Proposal /\ \A q, r \in b.proposed : q = r
    /\ \A b, c \in pending : b = c
    /\ IsNumbering(watermark)
    /\ confirmed_by \in [1 .. head.block_num -> SUBSET Producer]
    /\ needed \in Seq(Nat) /\ Len(needed) = head.block_num

(* Header states only become proposed irreversible in order, and the head is
   never its own last irreversible block: fork_database::add prunes up to the
   LIB and must keep the block the next one builds on. *)
LibBelowHead ==
    head.irb < head.block_num /\ head.irb <= head.proposed_irb

(* set_confirmed proposes a block as irreversible only when enough DIFFERENT
   producers confirmed it: the counters of confirm_count count producers, not
   blocks, because no producer confirms the same block twice. *)
QuorumBehindProposed ==
    head.proposed_irb > 0 =>
        Cardinality(confirmed_by[head.proposed_irb]) >= needed[head.proposed_irb]

(* The LIB of the head is implied by the last block of more than two thirds of
   the active producers, even right after the schedule changed. *)
QuorumBehindLib ==
    LET implied == head.last_implied_irb
        n == Cardinality(DOMAIN implied)
    IN  n > 0 => Cardinality({p \in DOMAIN implied : implied[p] >= head.irb})
                     >= required_confirmations(n)

(* Irreversibility has a quorum behind it in both stages of the DPOS rule. *)
QuorumBehind == QuorumBehindProposed /\ QuorumBehindLib

(* The header a node broadcasts for its pending block. *)
header(b) ==
    [slot |-> b.state.slot, producer |-> b.state.producer,
     schedule_version |-> head.active_schedule.version,
     confirmed |-> b.state.confirmed, new_producers |-> b.new_producers]

(* A producer that came back into the schedule although on_block had not foreseen
   it: its watermark is older than the block the schedule lets it start from. *)
came_back_unforeseen(p) ==
    /\ p \in DOMAIN watermark /\ p \in DOMAIN head.last_produced
    /\ watermark[p] < head.last_produced[p]

(* The block a node produces through start_block gives the same header state on
   every other node, which builds it with block_header_state::next, and passes
   next's checks there: the two code paths agree on confirmations and schedules,
   except for a producer that came back unforeseen. *)
ProducedBlockAccepted ==
    \A b \in pending :
        /\ next(head, header(b)) = b.state
        /\ next_accepts(head, header(b)) \/ came_back_unforeseen(b.state.producer)

(* Nobody rejects a block that its producer made by the rules. *)
EveryBlockAccepted == \A b \in pending : next_accepts(head, header(b))

(* set_new_producers never throws out of start_block: whatever the sequence of
   proposals and promotions, the proposed schedule carries the version that
   follows the one it will replace. *)
ProposedScheduleInstallable ==
    \A q \in proposed : q.schedule.version = latest_schedule(head).version + 1

(* The block that introduced the active schedule is irreversible: no fork can
   drop the schedule that signs the chain. *)
ActiveScheduleIrreversible ==
    head.pending_schedule.version = head.active_schedule.version
        => head.irb >= head.pending_schedule_lib_num

(* A committed block beats its parent in fork_database's order, (LIB, number)
   descending: what the assertion of controller_impl::commit_block relies on. *)
CommittedBlockBecomesHead ==
    [][head' # head =>
          \/ head'.irb > head.irb
          \/ head'.irb = head.irb /\ head'.block_num > head.block_num]_vars

(* While more than two thirds of the producers do not miss their slots the LIB
   keeps advancing. *)
LibAdvances == <>(head.irb > MaxProposal + Cardinality(Producer))

(* A proposed schedule eventually signs blocks, whoever is silent. *)
ProposedBecomesActive ==
    \A v \in 1 .. 2 :
        (\E q \in proposed : q.schedule.version = v /\ q.schedule.producers # NoProducers)
            ~> (head.active_schedule.version >= v)
=============================================================================
