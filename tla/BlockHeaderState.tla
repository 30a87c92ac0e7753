-------------------------- MODULE BlockHeaderState --------------------------
(***************************************************************************)
(* The DPOS header state of libraries/chain/block_header_state.cpp as pure *)
(* operators on a record.  A record holds the fields that decide fork      *)
(* choice, irreversibility and the producer schedule; ids, signatures, the *)
(* block merkle root and the (never fed) BFT confirmations are left out.   *)
(* Loops of the code appear as closed forms.                               *)
(*                                                                         *)
(*   slot                    header.timestamp.slot                         *)
(*   producer, confirmed     header.producer, header.confirmed             *)
(*   last_produced           producer_to_last_produced                     *)
(*   last_implied_irb        producer_to_last_implied_irb                  *)
(*   proposed_irb            dpos_proposed_irreversible_blocknum           *)
(*   irb                     dpos_irreversible_blocknum                    *)
(***************************************************************************)
EXTENDS Integers, Sequences, FiniteSets, FiniteSetsExt

CONSTANTS
    producer_repetitions,                \* config::producer_repetitions
    maximum_tracked_dpos_confirmations   \* config::maximum_tracked_dpos_confirmations

ASSUME RepetitionsAssumption == producer_repetitions \in Nat \ {0}
ASSUME TrackedAssumption == maximum_tracked_dpos_confirmations \in Nat \ {0}

HeaderFields ==
    {"block_num", "slot", "producer", "confirmed", "active_schedule", "pending_schedule",
     "pending_schedule_lib_num", "proposed_irb", "irb", "last_produced", "last_implied_irb",
     "confirm_count"}

(* The producer_name whose turn slot t is under the active schedule. *)
get_scheduled_producer(s, t) ==
    LET producers == s.active_schedule.producers
        index == (t % (Len(producers) * producer_repetitions)) \div producer_repetitions
    IN  producers[index + 1]

(* Mutant: the minimum instead. *)
calc_minimum(implied) ==
    IF DOMAIN implied = {} THEN 0 ELSE Min({implied[p] : p \in DOMAIN implied})

(* Sorted from low to high, the value (n - 1) / 3 into the list: the largest
   value with at most (n - 1) / 3 values below it. *)
calc_dpos_last_irreversible(implied) ==
    IF DOMAIN implied = {} THEN 0
    ELSE LET Below(v) == {p \in DOMAIN implied : implied[p] < v}
             third == (Cardinality(DOMAIN implied) - 1) \div 3
         IN  Max({implied[p] : p \in {q \in DOMAIN implied :
                                       Cardinality(Below(implied[q])) <= third}})

(* flat_map::operator[] = : overwrites the entry or inserts it. *)
Put(f, key, value) ==
    [k \in DOMAIN f \cup {key} |-> IF k = key THEN value ELSE f[k]]

required_confirmations(n) == (n * 2) \div 3 + 1

(* The template of the successor of s at slot `when`. *)
generate_next(s, when) ==
    LET pro     == get_scheduled_producer(s, when)
        num     == s.block_num + 1
        implied == Put(s.last_implied_irb, pro, s.proposed_irb)
        tracked == IF Len(s.confirm_count) < maximum_tracked_dpos_confirmations
                   THEN s.confirm_count ELSE Tail(s.confirm_count)
    IN  [s EXCEPT !.slot = when,
                  !.producer = pro,
                  !.confirmed = 1,
                  !.block_num = num,
                  !.last_produced = Put(s.last_produced, pro, num),
                  !.last_implied_irb = implied,
                  !.irb = calc_dpos_last_irreversible(implied),
                  !.confirm_count = Append(tracked,
                      required_confirmations(Len(s.active_schedule.producers)))]

NoProducers == <<>>
NoProducer == ""

(* Mutant: promotes without waiting for irreversibility. *)
promote_at_once(s) == s.pending_schedule.producers # NoProducers

will_promote_pending(s) ==
    s.pending_schedule.producers # NoProducers /\ s.irb >= s.pending_schedule_lib_num

(* Mutant: the new producers start at zero. *)
carried_from_zero(schedule, old, default) ==
    [p \in {schedule.producers[i] : i \in DOMAIN schedule.producers} |->
        IF p \in DOMAIN old THEN old[p] ELSE 0]

(* Entries of producers that stay are kept, the others start at the LIB. *)
Carried(schedule, old, default) ==
    [p \in {schedule.producers[i] : i \in DOMAIN schedule.producers} |->
        IF p \in DOMAIN old THEN old[p] ELSE default]

not_cleared(schedule) == schedule  \* mutant: the pending schedule stays
cleared(schedule) == [version |-> schedule.version, producers |-> NoProducers]

maybe_promote_pending(s) ==
    IF ~ will_promote_pending(s) THEN s
    ELSE [s EXCEPT !.active_schedule = s.pending_schedule,
                   !.pending_schedule = cleared(s.pending_schedule),
                   !.last_produced =
                       Put(Carried(s.pending_schedule, s.last_produced, s.irb),
                           s.producer, s.block_num),
                   !.last_implied_irb =
                       Carried(s.pending_schedule, s.last_implied_irb, s.irb)]

can_set_new_producers(s, pending) ==
    pending.version = s.active_schedule.version + 1
    /\ s.pending_schedule.producers = NoProducers

set_new_producers(s, pending) ==
    [s EXCEPT !.pending_schedule = pending, !.pending_schedule_lib_num = s.block_num]

(* Mutants: the entry that reached zero is kept, or counted one too high. *)
set_confirmed_keeps_zero(s, num_prev_blocks) ==
    LET n == Len(s.confirm_count)
    IN  [s EXCEPT !.confirmed = num_prev_blocks,
                  !.confirm_count = [i \in 1..n |->
                      IF i >= n - num_prev_blocks /\ @[i] > 0 THEN @[i] - 1 ELSE @[i]]]
set_confirmed_one_high(s, num_prev_blocks) ==
    LET n       == Len(s.confirm_count)
        reached == {i \in 1..n : i >= n - num_prev_blocks /\ s.confirm_count[i] = 1}
        stop    == IF reached = {} THEN 0 ELSE Max(reached)
    IN  [s EXCEPT !.proposed_irb = IF stop = 0 THEN @ ELSE s.block_num - (n - stop - 1),
                  !.confirm_count = SubSeq(s.confirm_count, stop + 1, n)]

(* The loop walks down from the newest entry, decrementing up to
   num_prev_blocks + 1 entries, and stops at the first that reaches zero (index
   0 when none does): that block becomes the proposed irreversible one, and it
   and everything older leaves the vector. *)
walked_to(counts, num_prev_blocks) ==
    LET reached == {i \in 1 .. Len(counts) :
                       i >= Len(counts) - num_prev_blocks /\ counts[i] = 1}
    IN  IF reached = {} THEN 0 ELSE Max(reached)

counted_down(counts, num_prev_blocks) ==
    [i \in 1 .. Len(counts) |->
        IF i >= Len(counts) - num_prev_blocks THEN counts[i] - 1 ELSE counts[i]]

set_confirmed(s, num_prev_blocks) ==
    LET n    == Len(s.confirm_count)
        stop == walked_to(s.confirm_count, num_prev_blocks)
    IN  [s EXCEPT !.confirmed = num_prev_blocks,
                  !.proposed_irb = IF stop = 0 THEN @ ELSE s.block_num - (n - stop),
                  !.confirm_count =
                      SubSeq(counted_down(s.confirm_count, num_prev_blocks), stop + 1, n)]

(* producer_double_confirm: the subtraction is unsigned, so a count beyond the
   block number wraps above every block number. *)
double_confirms(s, producer, num, confirmed) ==
    /\ producer \in DOMAIN s.last_produced
    /\ confirmed <= num
    /\ s.last_produced[producer] >= num - confirmed

(* The checks of next() on a header h that links to s.  h.new_producers, an
   optional in the code, is a set of at most one schedule. *)
next_accepts(s, h) ==
    LET template == generate_next(s, h.slot)
        counted  == set_confirmed(template, h.confirmed)
    IN  /\ h.slot > s.slot
        /\ template.producer = h.producer
        /\ s.active_schedule.version = h.schedule_version
        /\ ~ double_confirms(s, h.producer, template.block_num, h.confirmed)
        /\ \A pending \in h.new_producers :
              /\ ~ will_promote_pending(counted)
              /\ can_set_new_producers(counted, pending)

(* The successor of s described by an accepted header h. *)
next(s, h) ==
    LET promoted == maybe_promote_pending(set_confirmed(generate_next(s, h.slot), h.confirmed))
    IN  IF h.new_producers = {} THEN promoted
        ELSE set_new_producers(promoted, CHOOSE pending \in h.new_producers : TRUE)

(* The genesis header state of controller_impl::initialize_fork_db: the initial
   schedule is both active and pending, so the first block promotes it. *)
genesis(initial_schedule, initial_slot) ==
    [block_num |-> 1, slot |-> initial_slot, producer |-> NoProducer, confirmed |-> 1,
     active_schedule |-> initial_schedule, pending_schedule |-> initial_schedule,
     pending_schedule_lib_num |-> 0, proposed_irb |-> 0, irb |-> 0,
     last_produced |-> <<>>, last_implied_irb |-> <<>>, confirm_count |-> <<>>]
=============================================================================
