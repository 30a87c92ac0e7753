--------------------------- MODULE ProducerPlugin ---------------------------
(***************************************************************************)
(* The production loop of plugins/producer_plugin/producer_plugin.cpp on   *)
(* one node: which slot the pending block is for, whether it is produced   *)
(* or only speculated on, and the one deadline timer that ships it or      *)
(* wakes the node for its next turn.  Every action is one handler of the   *)
(* application thread; peers' blocks, operator calls and the clock come in *)
(* between in any order.                                                   *)
(*                                                                         *)
(* Handlers carry _timer_corelation_id and do nothing when another timer   *)
(* was armed since.  Such a handler leaves no trace, so `fired` only holds *)
(* an expired handler whose id is still the current one.                   *)
(*                                                                         *)
(* Time is counted in ticks.  The active schedule does not change here     *)
(* (HeaderChain has that), and a branch is known by its head's number and  *)
(* slot.                                                                   *)
(***************************************************************************)
EXTENDS BlockHeaderState, ProducerWatermarks

CONSTANTS
    Active,                 \* producer names of the active schedule
    Mine,                   \* _producers
    Keys,                   \* the producers whose key is in _signature_providers
    block_interval,         \* config::block_interval_us
    least_sleep,            \* block_interval / 10
    produce_time_offset,    \* _produce_time_offset_us
    last_block_time_offset, \* _last_block_time_offset_us
    head_too_old,           \* 5 seconds
    future_limit,           \* 7 seconds
    stale_production,       \* option enable-stale-production
    Ages,                   \* values of max_irreversible_block_age, -1 for none
    MayFail,                \* what may happen: starting or signing a block fails
    MayRestart,             \* whether the node may crash and start again
    Punctual,               \* whether handlers run before the clock moves on
    MaxSpent,               \* bound: ticks that transactions keep start_block busy
    MaxTime,                \* bound: last tick
    MaxPeerSlot,            \* bound: last slot of a peer's block
    MaxEvents,              \* bound: peers' blocks, operator calls and crashes
    MaxEventTime            \* bound: the last tick at which there is one

ASSUME ActiveAssumption ==
    /\ Active \in Seq(STRING) /\ Active # <<>>
    /\ \A i, j \in DOMAIN Active : Active[i] = Active[j] => i = j
ASSUME MineAssumption == Mine \subseteq STRING /\ Keys \subseteq Mine
ASSUME TimeAssumption ==
    /\ block_interval \in Nat \ {0} /\ least_sleep \in Nat
    /\ produce_time_offset \in Int /\ last_block_time_offset \in Int
    /\ head_too_old \in Nat /\ future_limit \in Nat
ASSUME ChoicesAssumption ==
    /\ stale_production \in BOOLEAN /\ MayRestart \in BOOLEAN /\ Punctual \in BOOLEAN
    /\ MayFail \in {{FALSE}, {FALSE, TRUE}}
    /\ Ages \subseteq Int /\ Ages # {}
ASSUME LimitsAssumption ==
    /\ MaxSpent \in Nat /\ MaxTime \in Nat /\ MaxPeerSlot \in Nat
    /\ MaxEvents \in Nat /\ MaxEventTime \in Nat

VARIABLES
    now,        \* the clock
    head,       \* head_block_state: block_num and slot
    lib_time,   \* _irreversible_block_time
    enabled,    \* _production_enabled
    paused,     \* _pause_production
    max_age,    \* _max_irreversible_block_age_us
    watermark,  \* _producer_watermarks, partial function
    pending,    \* pending_block_state: {} or {[block_num, slot, confirmed]}
    mode,       \* _pending_block_mode, "none" before plugin_startup
    timer,      \* _timer: {} or {[kind, at]}
    fired,      \* the kind of handler that is due and not outdated: {} or one
    signed,     \* history: the blocks this node signed and published
    events      \* how much of MaxEvents is used up

chain_vars == <<head, lib_time, watermark, signed>>
policy_vars == <<enabled, paused, max_age>>
vars == <<now, chain_vars, policy_vars, pending, mode, timer, fired, events>>

time(slot) == slot * block_interval
scheduled(slot) == get_scheduled_producer([active_schedule |-> [producers |-> Active]], slot)

Init ==
    /\ now = time(1)
    /\ head = [block_num |-> 2, slot |-> 1]
    /\ lib_time = 0
    /\ enabled = stale_production
    /\ paused = FALSE
    /\ max_age \in Ages
    /\ watermark = <<>>
    /\ pending = {}
    /\ mode = "none"
    /\ timer = {}
    /\ fired = {}
    /\ signed = {}
    /\ events = 0

-----------------------------------------------------------------------------
(* The slot of calculate_pending_block_time at time t: the next one, or the one
   after when less than least_sleep is left. *)
calculate_pending_block_time(t) ==
    LET base == IF t > time(head.slot) THEN t ELSE time(head.slot)
        slot == base \div block_interval + 1
    IN  IF time(slot) - t < least_sleep THEN slot + 1 ELSE slot

calculate_block_deadline(slot) ==
    time(slot) + (IF slot % producer_repetitions = producer_repetitions - 1
                  THEN last_block_time_offset ELSE produce_time_offset)

(* get_irreversible_block_age against the limit. *)
irreversible_too_old(t) ==
    max_age >= 0 /\ (IF t < lib_time THEN 0 ELSE t - lib_time) >= max_age

production_disabled_by_policy(t) == ~ enabled \/ paused \/ irreversible_too_old(t)

(* start_block: produce at this slot, or only speculate. *)
block_mode(t, slot) ==
    IF /\ ~ production_disabled_by_policy(t)
       /\ scheduled(slot) \in Keys
       /\ watermark_allows(watermark, scheduled(slot), head.block_num)
    THEN "producing" ELSE "speculating"

new_pending(slot, m) ==
    [block_num |-> head.block_num + 1, slot |-> slot,
     confirmed |-> IF m = "producing"
                   THEN blocks_to_confirm(watermark, scheduled(slot), head.block_num) ELSE 0]

(* The position of p after that of the minimum slot, around the schedule; the
   code adds the schedule's length when the unsigned difference underflows. *)
distance_one_round(index, minimum_index) ==  \* mutant: always goes around
    index - minimum_index + Len(Active)
producer_distance(index, minimum_index) ==
    IF index < minimum_index THEN index - minimum_index + Len(Active) ELSE index - minimum_index

(* calculate_next_block_time: p's first slot after `current` at which, if no
   block is dropped, the number is above p's watermark. *)
calculate_next_block_time(p, current) ==
    LET index == (CHOOSE i \in DOMAIN Active : Active[i] = p) - 1
        block_num == head.block_num + Cardinality(pending)
        minimum_offset == IF p \in DOMAIN watermark /\ watermark[p] > block_num
                          THEN watermark[p] - block_num + 1 ELSE 1
        minimum_slot == current + minimum_offset
        minimum_index == (minimum_slot % (Len(Active) * producer_repetitions))
                             \div producer_repetitions
    IN  IF index = minimum_index THEN minimum_slot
        ELSE minimum_slot - (minimum_slot % producer_repetitions)
                 + producer_distance(index, minimum_index) * producer_repetitions

wake_up_slots(current) ==
    {calculate_next_block_time(p, current) : p \in Mine \cap {Active[i] : i \in DOMAIN Active}}

(* expires_at and async_wait: the correlation id moves on, so a handler that is
   already queued is outdated. *)
arm_same_id(kind, at) == timer' = {[kind |-> kind, at |-> at]} /\ UNCHANGED fired  \* mutant
arm(kind, at) == timer' = {[kind |-> kind, at |-> at]} /\ fired' = {}

(* _timer.cancel() alone: an expired handler is past cancelling. *)
cancel(queued) == timer' = {} /\ fired' = queued

schedule_delayed_production_loop(current, later, queued) ==
    LET wakes == wake_up_slots(current)'
    IN  IF production_disabled_by_policy(later)' \/ wakes = {} THEN cancel(queued)
        ELSE arm("loop", time(Min(wakes)) - block_interval)

(* When a block for `slot` leaves: at its deadline or, when that has passed, up
   to one interval early. *)
ship_at_once(slot, later) == later  \* mutant: does not wait for the deadline
ship_time(slot, later) ==
    IF calculate_block_deadline(slot) > later THEN calculate_block_deadline(slot)
    ELSE IF later >= time(slot) - block_interval THEN later ELSE time(slot) - block_interval

retry(later, queued) == arm("loop", later + least_sleep)

(* start_block does not even try: not our turn, and the head is old. *)
waits(t, m) == m = "speculating" /\ t - time(head.slot) > head_too_old

(* schedule_production_loop at `later`, after start_block looked at time t and
   found mode m for `slot`. *)
ScheduleNext(t, later, fails, slot, m, block, queued) ==
    /\ now' = later
    /\ mode' = m
    /\ \/ /\ waits(t, m)'
          /\ pending' = block
          /\ \E current \in {calculate_pending_block_time(later)'} :
                schedule_delayed_production_loop(current, later, queued)
       \/ /\ ~ waits(t, m)' /\ fails
          /\ pending' = {}
          /\ retry(later, queued)
       \/ /\ ~ waits(t, m)' /\ ~ fails
          /\ pending' = {new_pending(slot, m)'}
          /\ \/ m = "producing" /\ arm("produce", ship_time(slot, later))
             \/ m = "speculating" /\ schedule_delayed_production_loop(slot, later, queued)

(* schedule_production_loop with start_block, on the state the caller leaves:
   `block` is the pending block and `queued` the expired handler it leaves.
   Transactions keep start_block busy for a while. *)
schedule_production_loop(block, queued) ==
    \E t \in {now}, fails \in MayFail, later \in now .. now + MaxSpent :
    \E slot \in {calculate_pending_block_time(t)'} :
    \E m \in {block_mode(t, slot)'} :
        /\ later = now \/ later <= MaxTime
        /\ ScheduleNext(t, later, fails, slot, m, block, queued)

-----------------------------------------------------------------------------
plugin_startup ==
    /\ mode = "none"
    /\ UNCHANGED <<chain_vars, policy_vars, events>>
    /\ schedule_production_loop(pending, fired)

Started == mode # "none"
Event ==
    /\ Started
    /\ events < MaxEvents /\ now <= MaxEventTime
    /\ events' = events + 1

(* on_incoming_block, once the block is new and links: the pending block is
   aborted whatever becomes of the new one.  It may be rejected or end up on a
   worse branch ... *)
caught_up(h) == time(h.slot + 1) >= now

OnOtherBlock ==
    /\ Event
    /\ enabled' \in {enabled, enabled \/ caught_up(head)}
    /\ UNCHANGED <<chain_vars, paused, max_age>>
    /\ schedule_production_loop({}, fired)

(* ... or become the head.  A branch whose head has no higher number only wins
   with a higher LIB. *)
OnIncomingBlock(block_num, slot, lib_slot) ==
    /\ Event
    /\ scheduled(slot) \notin Mine
    /\ time(slot) < now + future_limit
    /\ block_num \in 2 .. slot + 1
    /\ lib_slot < slot /\ time(lib_slot) >= lib_time
    /\ block_num > head.block_num \/ time(lib_slot) > lib_time
    /\ head' = [block_num |-> block_num, slot |-> slot]
    /\ lib_time' = time(lib_slot)
    /\ enabled' = (enabled \/ caught_up(head'))
    /\ UNCHANGED <<watermark, signed, paused, max_age>>
    /\ schedule_production_loop({}, fired)

(* The timer expires: its handler can no longer be cancelled. *)
Expire ==
    \E x \in timer :
        /\ x.at <= now
        /\ timer' = {}
        /\ fired' = {x.kind}
        /\ UNCHANGED <<now, chain_vars, policy_vars, pending, mode, events>>

(* The handler of a wake-up or of a retry. *)
WakeUp ==
    /\ Started /\ "loop" \in fired
    /\ UNCHANGED <<chain_vars, policy_vars, events>>
    /\ schedule_production_loop(pending, {})

(* produce_block's assertions. *)
can_produce == mode = "producing" /\ \A b \in pending : scheduled(b.slot) \in Keys

raise_watermark(b) == watermark' = Put(watermark, scheduled(b.slot), b.block_num)

(* maybe_produce_block, the handler that ships the pending block; the new block
   may make an older one irreversible. *)
ProduceBlock ==
    /\ Started /\ "produce" \in fired
    /\ can_produce
    /\ \E b \in pending, lib_slot \in 0 .. head.slot :
          /\ time(lib_slot) >= lib_time
          /\ head' = [block_num |-> b.block_num, slot |-> b.slot]
          /\ lib_time' = time(lib_slot)
          /\ raise_watermark(b)
          /\ signed' = signed \cup {[producer |-> scheduled(b.slot), block_num |-> b.block_num,
                                     slot |-> b.slot, confirmed |-> b.confirmed, at |-> now,
                                     parent_slot |-> head.slot]}
    /\ UNCHANGED <<policy_vars, events>>
    /\ schedule_production_loop({}, {})

(* maybe_produce_block when an assertion of produce_block, the signature
   provider or the controller throws. *)
ProduceBlockFails ==
    /\ Started /\ "produce" \in fired
    /\ ~ (can_produce /\ pending # {}) \/ TRUE \in MayFail
    /\ UNCHANGED <<chain_vars, policy_vars, events>>
    /\ schedule_production_loop({}, {})

Pause ==
    /\ Event
    /\ paused' = TRUE
    /\ UNCHANGED <<now, chain_vars, enabled, max_age, pending, mode, timer, fired>>

(* What resume and update_runtime_options do about a speculative block. *)
re_evaluate_never == UNCHANGED <<now, pending, mode, timer, fired>>  \* mutant
re_evaluate ==
    \/ mode = "speculating" /\ schedule_production_loop({}, fired)
    \/ mode = "producing" /\ UNCHANGED <<now, pending, mode, timer, fired>>

Resume ==
    /\ Event
    /\ paused' = FALSE
    /\ UNCHANGED <<chain_vars, enabled, max_age>>
    /\ re_evaluate

UpdateRuntimeOptions(age) ==
    /\ Event
    /\ max_age' = age
    /\ UNCHANGED <<chain_vars, enabled, paused>>
    /\ re_evaluate

(* create_snapshot and get_integrity_hash need the state without a pending
   block. *)
CreateSnapshot ==
    /\ Event
    /\ pending # {}
    /\ UNCHANGED <<chain_vars, policy_vars>>
    /\ schedule_production_loop({}, fired)

(* The process dies and comes back, perhaps without the block it signed last;
   neither the watermarks nor the operator's settings are durable. *)
Restart(age) ==
    /\ MayRestart /\ Event
    /\ \/ head' = head
       \/ \E b \in signed :
             /\ b.block_num = head.block_num /\ b.slot = head.slot
             /\ time(b.parent_slot) >= lib_time
             /\ head' = [block_num |-> head.block_num - 1, slot |-> b.parent_slot]
    /\ watermark' = <<>>
    /\ enabled' = stale_production
    /\ paused' = FALSE
    /\ max_age' = age
    /\ pending' = {} /\ mode' = "none" /\ timer' = {} /\ fired' = {}
    /\ UNCHANGED <<now, lib_time, signed>>

Tick ==
    /\ now < MaxTime
    /\ Punctual => Started /\ fired = {} /\ \A x \in timer : x.at > now
    /\ now' = now + 1
    /\ UNCHANGED <<chain_vars, policy_vars, pending, mode, timer, fired, events>>

(* The bound on time is reached. *)
Done == now >= MaxTime /\ UNCHANGED vars

Next ==
    \/ plugin_startup
    \/ \E block_num \in head.block_num - 1 .. head.block_num + 1,
          slot \in 2 .. MaxPeerSlot, lib_slot \in 0 .. MaxPeerSlot :
             OnIncomingBlock(block_num, slot, lib_slot)
    \/ OnOtherBlock
    \/ Expire
    \/ WakeUp
    \/ ProduceBlock
    \/ ProduceBlockFails
    \/ Pause
    \/ Resume
    \/ \E age \in Ages : UpdateRuntimeOptions(age)
    \/ CreateSnapshot
    \/ \E age \in Ages : Restart(age)
    \/ Tick
    \/ Done

Spec == Init /\ [][Next]_vars

(* The clock, the timer and the application's event loop do not stop. *)
FairSpec ==
    /\ Spec
    /\ WF_vars(plugin_startup) /\ WF_vars(Tick) /\ WF_vars(Expire)
    /\ WF_vars(WakeUp) /\ WF_vars(ProduceBlock \/ ProduceBlockFails)

-----------------------------------------------------------------------------
(* Properties.                                                             *)

(* The types of the fields; the pending block builds on the head, and at most
   one handler is armed or due: two would ship a block twice. *)
TypeOK ==
    /\ now \in Nat /\ lib_time \in Nat /\ events \in 0 .. MaxEvents
    /\ head \in [block_num : Nat, slot : Nat]
    /\ enabled \in BOOLEAN /\ paused \in BOOLEAN /\ max_age \in Ages
    /\ DOMAIN watermark \subseteq Mine /\ \A p \in DOMAIN watermark : watermark[p] \in Nat
    /\ pending \subseteq [block_num : Nat, slot : Nat, confirmed : Nat]
    /\ \A b \in pending : b.block_num = head.block_num + 1 /\ b.slot > head.slot
    /\ mode \in {"none", "speculating", "producing"}
    /\ timer \subseteq [kind : {"loop", "produce"}, at : Int]
    /\ fired \subseteq {"loop", "produce"}
    /\ Cardinality(pending) <= 1 /\ Cardinality(timer) + Cardinality(fired) <= 1
    /\ signed \subseteq [producer : Mine, block_num : Nat, slot : Nat, confirmed : Nat, at : Nat,
                         parent_slot : Nat]

(* No producer of this node confirms one block number twice, on whatever
   branches its blocks are: their confirmed ranges are disjoint, which is what
   lets set_confirmed count confirmations of different producers. *)
ConfirmsOnce ==
    \A a, b \in signed :
        a # b /\ a.producer = b.producer =>
            \/ a.block_num < b.block_num - b.confirmed
            \/ b.block_num < a.block_num - a.confirmed

(* A node whose producers are scheduled and whose production is allowed always
   has something to wake it: no sequence of blocks, pauses, failures and
   option changes leaves the loop without a timer. *)
NeverAsleep ==
    /\ Started
    /\ ~ production_disabled_by_policy(now)
    /\ Mine \cap {Active[i] : i \in DOMAIN Active} # {}
    => timer # {} \/ fired # {}

(* The wake-up set behind a speculative block sleeps through no later slot in
   which one of the node's producers could sign. *)
NoTurnSleptThrough ==
    \A x \in timer, b \in pending :
        x.kind = "loop" /\ mode = "speculating" =>
            LET current == calculate_pending_block_time(now)
            IN  \A slot \in current + 1 .. x.at \div block_interval :
                    scheduled(slot) \in Mine =>
                        /\ scheduled(slot) \in DOMAIN watermark
                        /\ watermark[scheduled(slot)] >= b.block_num + (slot - current)

(* A block is shipped at most one interval before its slot, also when it is
   exhausted and when a peer's head is ahead of the clock. *)
NotTooEarly == \A b \in signed : b.at >= time(b.slot) - block_interval

(* The handler that is about to ship a block finds the block its timer was set
   for: what the correlation id is there to guarantee. *)
TimerMeansPending ==
    "produce" \in fired => mode = "producing" /\ pending # {}

(* Whatever peers' blocks, fork switches, pauses and option changes happened,
   every scheduled producer of the node gets to sign, unless production stays
   disabled. *)
Produces ==
    []<>(~ production_disabled_by_policy(now)) =>
        \A p \in Keys \cap {Active[i] : i \in DOMAIN Active} :
            <>(\E b \in signed : b.producer = p)
=============================================================================
