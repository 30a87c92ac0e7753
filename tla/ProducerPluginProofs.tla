------------------------ MODULE ProducerPluginProofs ------------------------
(***************************************************************************)
(* Properties of the production loop, for every schedule, set of local     *)
(* producers, timing and bound: the loop always has a timer to wake it,    *)
(* while the node does not lose its watermarks none of its producers       *)
(* confirms a block number twice, its state keeps its types, no block      *)
(* leaves too early, and no turn of a local producer is slept through.     *)
(***************************************************************************)
EXTENDS ProducerPlugin, NumberFacts, FiniteSetTheorems, TLAPS

-----------------------------------------------------------------------------
(* The loop never falls asleep.  NeverAsleep alone is not inductive: resume  *)
(* leaves a block that is being produced alone, so such a block must have a  *)
(* timer whatever the policy says.                                           *)

Modes == {"none", "speculating", "producing"}

Clocks == now \in Int /\ lib_time \in Int /\ max_age \in Int

ProducingHasTimer == mode = "producing" => timer # {} \/ fired # {}

AwakeInv == Clocks /\ mode \in Modes /\ ProducingHasTimer /\ NeverAsleep

(* schedule_delayed_production_loop arms the timer unless policy forbids
   production or no local producer is scheduled. *)
LEMMA DelayedLoopAwake ==
    ASSUME NEW current, NEW later, NEW queued,
           schedule_delayed_production_loop(current, later, queued)
    PROVE  \/ timer' # {}
           \/ production_disabled_by_policy(later)'
           \/ Mine \cap {Active[i] : i \in DOMAIN Active} = {}
BY DEF schedule_delayed_production_loop, arm, cancel, wake_up_slots

(* Whatever start_block comes to, schedule_production_loop leaves the loop with
   a timer or with a reason to have none. *)
LEMMA LoopAwake ==
    ASSUME NEW block, NEW queued, now \in Int,
           schedule_production_loop(block, queued)
    PROVE  /\ now' \in Int
           /\ mode' \in Modes
           /\ ProducingHasTimer'
           /\ NeverAsleep'
<1>1. PICK t \in {now}, fails \in MayFail, later \in now .. now + MaxSpent :
         \E slot \in {calculate_pending_block_time(t)'} :
         \E m \in {block_mode(t, slot)'} :
            ScheduleNext(t, later, fails, slot, m, block, queued)
    BY DEF schedule_production_loop
<1>2. PICK slot \in {calculate_pending_block_time(t)'} :
         \E m \in {block_mode(t, slot)'} :
            ScheduleNext(t, later, fails, slot, m, block, queued)
    BY <1>1
<1>3. PICK m \in {block_mode(t, slot)'} :
            ScheduleNext(t, later, fails, slot, m, block, queued)
    BY <1>2
<1>4. now' = later /\ later \in Int /\ mode' = m /\ m \in {"speculating", "producing"}
    BY <1>3, LimitsAssumption DEF ScheduleNext, block_mode
<1>5. \/ timer' # {}
      \/ m = "speculating" /\ \E current : schedule_delayed_production_loop(current, later, queued)
    BY <1>3 DEF ScheduleNext, retry, arm, waits
<1>6. \/ timer' # {}
      \/ m = "speculating" /\ production_disabled_by_policy(later)'
      \/ m = "speculating" /\ Mine \cap {Active[i] : i \in DOMAIN Active} = {}
    BY <1>5, DelayedLoopAwake
<1>7. ProducingHasTimer'
    BY <1>4, <1>6 DEF ProducingHasTimer
<1>8. NeverAsleep'
    <2>1. CASE timer' # {}
        BY <2>1 DEF NeverAsleep
    <2>2. CASE production_disabled_by_policy(later)'
        BY <2>2, <1>4 DEF NeverAsleep, production_disabled_by_policy, irreversible_too_old
    <2>3. CASE Mine \cap {Active[i] : i \in DOMAIN Active} = {}
        BY <2>3 DEF NeverAsleep
    <2> QED BY <1>6, <2>1, <2>2, <2>3
<1> QED BY <1>4, <1>7, <1>8 DEF Modes

(* Time only makes the last irreversible block older. *)
LEMMA AgeGrows ==
    ASSUME NEW earlier \in Int, NEW later \in Int, later >= earlier,
           NEW lib \in Int, NEW age \in Int,
           (IF earlier < lib THEN 0 ELSE earlier - lib) >= age
    PROVE  (IF later < lib THEN 0 ELSE later - lib) >= age
OBVIOUS

(* So production that policy disables stays disabled as the clock moves on. *)
LEMMA DisabledStaysDisabled ==
    ASSUME Clocks, production_disabled_by_policy(now), now' \in Int, now' >= now,
           lib_time' = lib_time, max_age' = max_age, enabled' = enabled, paused' = paused
    PROVE  production_disabled_by_policy(now)'
<1>1. CASE irreversible_too_old(now)
    <2>1. (IF now' < lib_time THEN 0 ELSE now' - lib_time) >= max_age
        BY <1>1, AgeGrows DEF Clocks, irreversible_too_old
    <2>2. (IF now' < lib_time' THEN 0 ELSE now' - lib_time') >= max_age'
        BY <2>1, Zenon
    <2>3. max_age' >= 0
        BY <1>1 DEF irreversible_too_old
    <2> QED BY <2>2, <2>3 DEF production_disabled_by_policy, irreversible_too_old
<1>2. CASE ~ enabled
    <2>1. ~ enabled'
        BY <1>2, Zenon
    <2> QED BY <2>1, Zenon DEF production_disabled_by_policy
<1>3. CASE paused
    <2>1. paused'
        BY <1>3, Zenon
    <2> QED BY <2>1, Zenon DEF production_disabled_by_policy
<1> QED BY <1>1, <1>2, <1>3, Zenon DEF production_disabled_by_policy

(* The first block of the chain is irreversible and nothing runs yet. *)
LEMMA AwakeInit == Init => AwakeInv
BY TimeAssumption, ChoicesAssumption
   DEF Init, AwakeInv, Clocks, Modes, ProducingHasTimer, NeverAsleep, Started, time

(* Every handler keeps AwakeInv, one step per action. *)
LEMMA AwakeNext == AwakeInv /\ [Next]_vars => AwakeInv'
<1> SUFFICES ASSUME AwakeInv, [Next]_vars PROVE AwakeInv'
    OBVIOUS
<1> USE TimeAssumption, ChoicesAssumption
<1>0. now \in Int /\ lib_time \in Int /\ max_age \in Int /\ mode \in Modes
    BY DEF AwakeInv, Clocks
<1>1. CASE plugin_startup
    <2>1. schedule_production_loop(pending, fired) /\ UNCHANGED <<lib_time, max_age>>
        BY <1>1 DEF plugin_startup, chain_vars, policy_vars
    <2> QED BY <2>1, <1>0, LoopAwake DEF AwakeInv, Clocks
<1>2. ASSUME NEW block_num, NEW slot \in 2 .. MaxPeerSlot, NEW lib_slot \in 0 .. MaxPeerSlot,
             OnIncomingBlock(block_num, slot, lib_slot)
      PROVE  AwakeInv'
    <2>1. schedule_production_loop({}, fired) /\ lib_time' = time(lib_slot) /\ max_age' = max_age
        BY <1>2 DEF OnIncomingBlock
    <2>2. lib_time' \in Int
        BY <2>1, LimitsAssumption DEF time
    <2> QED BY <2>1, <2>2, <1>0, LoopAwake DEF AwakeInv, Clocks
<1>3. CASE OnOtherBlock
    <2>1. schedule_production_loop({}, fired) /\ UNCHANGED <<lib_time, max_age>>
        BY <1>3 DEF OnOtherBlock, chain_vars
    <2> QED BY <2>1, <1>0, LoopAwake DEF AwakeInv, Clocks
<1>4. CASE Expire
    <2>1. fired' # {} /\ UNCHANGED <<now, lib_time, max_age, mode>>
        BY <1>4 DEF Expire, chain_vars, policy_vars
    <2> QED BY <2>1, <1>0 DEF AwakeInv, Clocks, ProducingHasTimer, NeverAsleep
<1>5. CASE WakeUp
    <2>1. schedule_production_loop(pending, {}) /\ UNCHANGED <<lib_time, max_age>>
        BY <1>5 DEF WakeUp, chain_vars, policy_vars
    <2> QED BY <2>1, <1>0, LoopAwake DEF AwakeInv, Clocks
<1>6. CASE ProduceBlock
    <2>1. PICK lib_slot \in 0 .. head.slot :
             schedule_production_loop({}, {}) /\ lib_time' = time(lib_slot) /\ max_age' = max_age
        BY <1>6 DEF ProduceBlock, policy_vars
    <2>2. lib_time' \in Int
        BY <2>1 DEF time
    <2> QED BY <2>1, <2>2, <1>0, LoopAwake DEF AwakeInv, Clocks
<1>7. CASE ProduceBlockFails
    <2>1. schedule_production_loop({}, {}) /\ UNCHANGED <<lib_time, max_age>>
        BY <1>7 DEF ProduceBlockFails, chain_vars, policy_vars
    <2> QED BY <2>1, <1>0, LoopAwake DEF AwakeInv, Clocks
<1>8. CASE Pause
    <2>1. paused' = TRUE /\ UNCHANGED <<now, lib_time, max_age, mode, timer, fired>>
        BY <1>8 DEF Pause, chain_vars
    <2> QED BY <2>1, <1>0
            DEF AwakeInv, Clocks, ProducingHasTimer, NeverAsleep, production_disabled_by_policy
<1>9. ASSUME re_evaluate, lib_time' = lib_time, max_age' \in Int
      PROVE  AwakeInv'
    <2>1. CASE schedule_production_loop({}, fired)
        BY <2>1, <1>9, <1>0, LoopAwake DEF AwakeInv, Clocks
    <2>2. CASE mode = "producing" /\ UNCHANGED <<now, pending, mode, timer, fired>>
        BY <2>2, <1>9, <1>0 DEF AwakeInv, Clocks, ProducingHasTimer, NeverAsleep
    <2> QED BY <1>9, <2>1, <2>2 DEF re_evaluate
<1>10. CASE Resume
    BY <1>10, <1>9, <1>0 DEF Resume, chain_vars
<1>11. ASSUME NEW age \in Ages, UpdateRuntimeOptions(age)
       PROVE  AwakeInv'
    BY <1>11, <1>9 DEF UpdateRuntimeOptions, chain_vars
<1>12. CASE CreateSnapshot
    <2>1. schedule_production_loop({}, fired) /\ UNCHANGED <<lib_time, max_age>>
        BY <1>12 DEF CreateSnapshot, chain_vars, policy_vars
    <2> QED BY <2>1, <1>0, LoopAwake DEF AwakeInv, Clocks
<1>13. ASSUME NEW age \in Ages, Restart(age)
       PROVE  AwakeInv'
    BY <1>13, <1>0
       DEF Restart, AwakeInv, Clocks, Modes, ProducingHasTimer, NeverAsleep, Started
<1>14. CASE Tick
    <2>1. /\ now' = now + 1
          /\ UNCHANGED <<lib_time, max_age, enabled, paused, mode, timer, fired>>
        BY <1>14 DEF Tick, chain_vars, policy_vars
    <2>2. production_disabled_by_policy(now) => production_disabled_by_policy(now)'
        BY <2>1, <1>0, DisabledStaysDisabled DEF AwakeInv
    <2> QED BY <2>1, <2>2, <1>0
            DEF AwakeInv, Clocks, ProducingHasTimer, NeverAsleep, Started
<1>15. CASE UNCHANGED vars
    BY <1>15 DEF vars, chain_vars, policy_vars, AwakeInv, Clocks, ProducingHasTimer,
                 NeverAsleep, Started, production_disabled_by_policy, irreversible_too_old
<1>16. CASE Done
    BY <1>16, <1>15 DEF Done
<1> QED
    BY <1>1, <1>2, <1>3, <1>4, <1>5, <1>6, <1>7, <1>8, <1>10, <1>11, <1>12, <1>13, <1>14,
       <1>15, <1>16 DEF Next

(* The production loop of a node with a scheduled producer and production
   allowed always has a timer that is set or a handler that is due, whatever
   blocks, operator calls, failures, delays and restarts come in between. *)
THEOREM LoopNeverAsleep == Spec => []NeverAsleep
<1>1. AwakeInv => NeverAsleep
    BY DEF AwakeInv
<1> QED BY <1>1, AwakeInit, AwakeNext, PTL DEF Spec

-----------------------------------------------------------------------------
(* No number is confirmed twice.  The watermark of a producer is at least every  *)
(* number it signed, and the range of a block about to be signed lies above it.  *)

Numbers ==
    /\ head.block_num \in Nat
    /\ \A p \in DOMAIN watermark : watermark[p] \in Nat
    /\ \A b \in pending : b.block_num \in Nat /\ b.confirmed \in Nat

BelowWatermark(b) ==
    /\ b.block_num \in Nat /\ b.confirmed \in Nat
    /\ b.producer \in DOMAIN watermark
    /\ b.block_num <= watermark[b.producer]

AboveWatermark(b) ==
    scheduled(b.slot) \in DOMAIN watermark
        => watermark[scheduled(b.slot)] < b.block_num - b.confirmed

PendingAbove == mode = "producing" => \A b \in pending : AboveWatermark(b)

ConfirmInv ==
    /\ Numbers
    /\ \A b \in signed : BelowWatermark(b)
    /\ PendingAbove
    /\ ConfirmsOnce

(* blocks_to_confirm stays above the watermark, also when its 16 bits wrap. *)
LEMMA ConfirmAbove ==
    ASSUME NEW marks, NEW p \in DOMAIN marks, marks[p] \in Nat, NEW head_num \in Nat,
           watermark_allows(marks, p, head_num)
    PROVE  marks[p] < head_num + 1 - blocks_to_confirm(marks, p, head_num)
<1>1. CASE marks[p] < head_num
    <2>1. (head_num - marks[p]) % uint16_values <= head_num - marks[p]
        BY <1>1, Uint16Assumption
    <2> QED BY <1>1, <2>1, Uint16Assumption DEF blocks_to_confirm
<1>2. CASE ~ (marks[p] < head_num)
    BY <1>2 DEF blocks_to_confirm, watermark_allows
<1> QED BY <1>1, <1>2

(* The number of blocks to confirm is a number. *)
LEMMA ConfirmIsNat ==
    ASSUME NEW marks, NEW p, NEW head_num \in Nat, \A q \in DOMAIN marks : marks[q] \in Nat
    PROVE  blocks_to_confirm(marks, p, head_num) \in Nat
BY Uint16Assumption DEF blocks_to_confirm

(* start_block only begins to produce a block whose confirmations lie above the
   producer's watermark. *)
LEMMA LoopAbove ==
    ASSUME NEW block, NEW queued,
           head'.block_num \in Nat, \A p \in DOMAIN watermark' : watermark'[p] \in Nat,
           \A b \in block : b.block_num \in Nat /\ b.confirmed \in Nat,
           schedule_production_loop(block, queued)
    PROVE  Numbers' /\ PendingAbove'
<1>1. PICK t, later, fails, slot, m :
            m = block_mode(t, slot)' /\ ScheduleNext(t, later, fails, slot, m, block, queued)
    BY DEF schedule_production_loop
<1>2. mode' = m
    BY <1>1 DEF ScheduleNext
<1>3. CASE pending' = {new_pending(slot, m)'}
    <2>1. blocks_to_confirm(watermark', scheduled(slot), head'.block_num) \in Nat
        BY ConfirmIsNat
    <2>2. Numbers'
        BY <1>3, <2>1 DEF Numbers, new_pending
    <2>3. ASSUME m = "producing", scheduled(slot) \in DOMAIN watermark'
          PROVE  watermark'[scheduled(slot)] < head'.block_num + 1
                     - blocks_to_confirm(watermark', scheduled(slot), head'.block_num)
        <3>1. watermark_allows(watermark', scheduled(slot), head'.block_num)
            BY <1>1, <2>3 DEF block_mode, scheduled
        <3> QED BY <2>3, <3>1, ConfirmAbove
    <2>4. ASSUME m = "producing", NEW b \in pending'
          PROVE  AboveWatermark(b)'
        <3>1. /\ b.slot = slot
              /\ b.block_num = head'.block_num + 1
              /\ b.confirmed = blocks_to_confirm(watermark', scheduled(slot), head'.block_num)
            BY <1>3, <2>4 DEF new_pending, scheduled
        <3>2. ASSUME scheduled(b.slot) \in DOMAIN watermark'
              PROVE  watermark'[scheduled(b.slot)] < b.block_num - b.confirmed
            <4>1. scheduled(b.slot) = scheduled(slot)
                BY <3>1
            <4>2. watermark'[scheduled(slot)] < head'.block_num + 1
                      - blocks_to_confirm(watermark', scheduled(slot), head'.block_num)
                BY <2>3, <2>4, <3>2, <4>1
            <4> QED BY <3>1, <4>1, <4>2, <2>1
        <3> QED BY <3>2 DEF AboveWatermark, scheduled
    <2> QED BY <2>2, <2>4, <1>2 DEF PendingAbove
<1>4. CASE pending' = {}
    BY <1>4 DEF Numbers, PendingAbove
<1>5. CASE pending' = block /\ m = "speculating"
    BY <1>5, <1>2 DEF Numbers, PendingAbove
<1> QED BY <1>1, <1>3, <1>4, <1>5 DEF ScheduleNext, waits

(* Nothing is signed and nobody has a watermark. *)
LEMMA ConfirmInit == Init => ConfirmInv
BY DEF Init, ConfirmInv, Numbers, PendingAbove, ConfirmsOnce

(* The watermark after produce_block. *)
LEMMA WatermarkRaised ==
    ASSUME NEW b, Numbers, b \in pending, raise_watermark(b)
    PROVE  /\ DOMAIN watermark' = DOMAIN watermark \cup {scheduled(b.slot)}
           /\ watermark'[scheduled(b.slot)] = b.block_num
           /\ \A p \in DOMAIN watermark : p # scheduled(b.slot) => watermark'[p] = watermark[p]
           /\ \A p \in DOMAIN watermark' : watermark'[p] \in Nat
BY DEF Numbers, raise_watermark, Put

(* A handler that signs nothing keeps the invariant if the loop it runs does. *)
LEMMA SignsNothing ==
    ASSUME ConfirmInv, Numbers', PendingAbove', watermark' = watermark, signed' = signed
    PROVE  ConfirmInv'
BY DEF ConfirmInv, BelowWatermark, ConfirmsOnce

(* produce_block: the new range lies above the old watermark, the signed ones
   at or below it. *)
LEMMA ProduceKeepsConfirmInv ==
    ASSUME ConfirmInv, ProduceBlock
    PROVE  ConfirmInv'
<1>1. PICK b \in pending :
         /\ head'.block_num = b.block_num
         /\ raise_watermark(b)
         /\ signed' = signed \cup {[producer |-> scheduled(b.slot), block_num |-> b.block_num,
                                    slot |-> b.slot, confirmed |-> b.confirmed, at |-> now,
                                    parent_slot |-> head.slot]}
    BY DEF ProduceBlock
<1> DEFINE p == scheduled(b.slot)
           new == [producer |-> p, block_num |-> b.block_num, slot |-> b.slot,
                   confirmed |-> b.confirmed, at |-> now, parent_slot |-> head.slot]
<1>2. /\ DOMAIN watermark' = DOMAIN watermark \cup {p}
      /\ watermark'[p] = b.block_num
      /\ \A q \in DOMAIN watermark : q # p => watermark'[q] = watermark[q]
      /\ \A q \in DOMAIN watermark' : watermark'[q] \in Nat
    BY <1>1, WatermarkRaised DEF ConfirmInv
<1>3. b.block_num \in Nat /\ b.confirmed \in Nat
    BY <1>1 DEF ConfirmInv, Numbers
<1>4. p \in DOMAIN watermark => watermark[p] \in Nat /\ watermark[p] < b.block_num - b.confirmed
    BY <1>1 DEF ConfirmInv, PendingAbove, AboveWatermark, ProduceBlock, can_produce, Numbers
<1>5. Numbers' /\ PendingAbove'
    <2>1. schedule_production_loop({}, {}) /\ head'.block_num \in Nat
        BY <1>1, <1>3 DEF ProduceBlock
    <2> QED BY <2>1, <1>2, LoopAbove
<1>6. signed' = signed \cup {new}
    BY <1>1
<1>7. ASSUME NEW a \in signed
      PROVE  /\ a.block_num \in Nat /\ a.confirmed \in Nat
             /\ a.producer \in DOMAIN watermark /\ watermark[a.producer] \in Nat
             /\ a.block_num <= watermark[a.producer]
    BY <1>7 DEF ConfirmInv, BelowWatermark, Numbers
<1>8. ASSUME NEW a \in signed, a.producer = p
      PROVE  a.block_num < b.block_num - b.confirmed
    BY <1>3, <1>4, <1>7, <1>8
<1>9. ASSUME NEW a \in signed'
      PROVE  BelowWatermark(a)'
    <2>1. CASE a = new
        BY <2>1, <1>2, <1>3 DEF BelowWatermark
    <2>2. CASE a \in signed /\ a.producer = p
        BY <2>2, <1>2, <1>3, <1>7, <1>8 DEF BelowWatermark
    <2>3. CASE a \in signed /\ a.producer # p
        BY <2>3, <1>2, <1>7 DEF BelowWatermark
    <2> QED BY <1>6, <1>9, <2>1, <2>2, <2>3
<1>10. ConfirmsOnce'
    <2> SUFFICES ASSUME NEW a \in signed', NEW c \in signed', a # c, a.producer = c.producer
                 PROVE  \/ a.block_num < c.block_num - c.confirmed
                        \/ c.block_num < a.block_num - a.confirmed
        BY DEF ConfirmsOnce
    <2>1. CASE a \in signed /\ c \in signed
        BY <2>1 DEF ConfirmInv, ConfirmsOnce
    <2>2. CASE a \in signed /\ c = new
        BY <2>2, <1>8
    <2>3. CASE a = new /\ c \in signed
        BY <2>3, <1>8
    <2> QED BY <1>6, <2>1, <2>2, <2>3
<1> QED BY <1>5, <1>9, <1>10 DEF ConfirmInv

(* Every handler of a node that does not restart keeps ConfirmInv. *)
LEMMA ConfirmNext ==
    ASSUME MayRestart = FALSE, ConfirmInv, [Next]_vars
    PROVE  ConfirmInv'
<1>0. /\ head.block_num \in Nat
      /\ \A p \in DOMAIN watermark : watermark[p] \in Nat
      /\ \A b \in pending : b.block_num \in Nat /\ b.confirmed \in Nat
      /\ Numbers /\ PendingAbove
    BY DEF ConfirmInv, Numbers
<1>1. ASSUME NEW block, NEW queued, schedule_production_loop(block, queued),
             block = {} \/ block = pending,
             head'.block_num \in Nat, watermark' = watermark, signed' = signed
      PROVE  ConfirmInv'
    <2>1. \A b \in block : b.block_num \in Nat /\ b.confirmed \in Nat
        BY <1>0, <1>1
    <2>2. \A p \in DOMAIN watermark' : watermark'[p] \in Nat
        BY <1>0, <1>1
    <2> QED BY <1>1, <2>1, <2>2, LoopAbove, SignsNothing
<1>2. ASSUME UNCHANGED <<head, watermark, pending, mode, signed>>
      PROVE  ConfirmInv'
    <2>1. Numbers' /\ PendingAbove'
        BY <1>0, <1>2 DEF Numbers, PendingAbove, AboveWatermark, scheduled
    <2> QED BY <1>2, <2>1, SignsNothing
<1>3. CASE plugin_startup
    BY <1>3, <1>0, <1>1 DEF plugin_startup, chain_vars
<1>4. ASSUME NEW block_num, NEW slot \in 2 .. MaxPeerSlot, NEW lib_slot,
             OnIncomingBlock(block_num, slot, lib_slot)
      PROVE  ConfirmInv'
    <2>1. /\ schedule_production_loop({}, fired)
          /\ watermark' = watermark /\ signed' = signed
          /\ head'.block_num = block_num /\ block_num \in 2 .. slot + 1
        BY <1>4 DEF OnIncomingBlock
    <2>2. head'.block_num \in Nat
        BY <2>1, <1>4, LimitsAssumption
    <2> QED BY <2>1, <2>2, <1>1
<1>5. CASE OnOtherBlock
    BY <1>5, <1>0, <1>1 DEF OnOtherBlock, chain_vars
<1>6. CASE Expire
    BY <1>6, <1>2 DEF Expire, chain_vars
<1>7. CASE WakeUp
    BY <1>7, <1>0, <1>1 DEF WakeUp, chain_vars
<1>8. CASE ProduceBlockFails
    BY <1>8, <1>0, <1>1 DEF ProduceBlockFails, chain_vars
<1>9. CASE Pause
    BY <1>9, <1>2 DEF Pause, chain_vars
<1>10. ASSUME re_evaluate, UNCHANGED chain_vars
       PROVE  ConfirmInv'
    BY <1>10, <1>0, <1>1, <1>2 DEF re_evaluate, chain_vars
<1>11. CASE Resume
    BY <1>11, <1>10 DEF Resume
<1>12. ASSUME NEW age, UpdateRuntimeOptions(age)
       PROVE  ConfirmInv'
    BY <1>12, <1>10 DEF UpdateRuntimeOptions
<1>13. CASE CreateSnapshot
    BY <1>13, <1>0, <1>1 DEF CreateSnapshot, chain_vars
<1>14. CASE Tick
    BY <1>14, <1>2 DEF Tick, chain_vars
<1>15. CASE UNCHANGED vars
    BY <1>15, <1>2 DEF vars, chain_vars
<1>16. ASSUME NEW age
       PROVE  ~ Restart(age)
    BY DEF Restart
<1> QED
    BY <1>3, <1>4, <1>5, <1>6, <1>7, <1>8, <1>9, <1>11, <1>12, <1>13, <1>14, <1>15, <1>16,
       ProduceKeepsConfirmInv DEF Next, Done

(* A node that keeps its watermarks never lets a producer confirm one block
   number twice, whatever branches it is moved to.  producer_plugin.cpp does not
   make them durable, hence the assumption. *)
THEOREM WatermarksSeparate ==
    ASSUME MayRestart = FALSE
    PROVE  Spec => []ConfirmsOnce
<1>1. ConfirmInv /\ [Next]_vars => ConfirmInv'
    BY ConfirmNext
<1>2. ConfirmInv => ConfirmsOnce
    BY DEF ConfirmInv
<1> QED BY <1>1, <1>2, ConfirmInit, PTL DEF Spec

-----------------------------------------------------------------------------
(* Types.  What TypeOK counts with Cardinality is stated with Small, and a block
   that was signed is not the first of the chain, so that a restarted node that
   lost it still has a head. *)

Small(S) == \A x, y \in S : x = y

LoopState ==
    /\ now \in Nat
    /\ mode \in Modes
    /\ pending \subseteq [block_num : Nat, slot : Nat, confirmed : Nat] /\ Small(pending)
    /\ \A b \in pending : b.block_num = head.block_num + 1 /\ b.slot > head.slot
    /\ timer \subseteq [kind : {"loop", "produce"}, at : Int] /\ Small(timer)
    /\ fired \subseteq {"loop", "produce"} /\ Small(fired)
    /\ timer = {} \/ fired = {}

ChainState ==
    /\ lib_time \in Nat
    /\ head \in [block_num : Nat, slot : Nat]
    /\ DOMAIN watermark \subseteq Mine /\ \A p \in DOMAIN watermark : watermark[p] \in Nat
    /\ signed \subseteq [producer : Mine, block_num : Nat, slot : Nat, confirmed : Nat, at : Nat,
                         parent_slot : Nat]
    /\ \A b \in signed : b.block_num >= 1

PolicyState ==
    /\ events \in 0 .. MaxEvents
    /\ enabled \in BOOLEAN /\ paused \in BOOLEAN /\ max_age \in Ages

TypeInv == LoopState /\ ChainState /\ PolicyState

(* A set with at most one element. *)
LEMMA SmallCounted ==
    ASSUME NEW S, Small(S)
    PROVE  Cardinality(S) \in 0 .. 1 /\ (S = {} => Cardinality(S) = 0)
<1>1. CASE S = {}
    BY <1>1, FS_EmptySet
<1>2. ASSUME NEW x \in S PROVE Cardinality(S) = 1
  <2>1. S = {x}
    BY <1>2 DEF Small
  <2> QED BY <2>1, FS_Singleton
<1> QED BY <1>1, <1>2

(* The pending slot lies beyond that of the head. *)
LEMMA PendingSlot ==
    ASSUME NEW t \in Nat, head'.slot \in Nat
    PROVE  /\ calculate_pending_block_time(t)' \in Nat
           /\ calculate_pending_block_time(t)' > head'.slot
<1> DEFINE base == IF t > time(head'.slot) THEN t ELSE time(head'.slot)
           slot == base \div block_interval + 1
<1>1. base \in Nat /\ head'.slot * block_interval <= base
    BY TimeAssumption DEF time
<1> HIDE DEF base
<1>2. slot \in Nat /\ slot > head'.slot
    BY <1>1, TimeAssumption, QuotientAtLeast
<1>3. calculate_pending_block_time(t)' = IF time(slot) - t < least_sleep THEN slot + 1 ELSE slot
    BY DEF calculate_pending_block_time, base, time
<1> HIDE DEF slot
<1> QED BY <1>2, <1>3

(* The next turn of a scheduled producer is a slot number. *)
LEMMA NextBlockTime ==
    ASSUME NEW p \in {Active[i] : i \in DOMAIN Active}, NEW current \in Nat,
           head'.block_num \in Nat, Small(pending'), \A q \in DOMAIN watermark' : watermark'[q] \in Nat
    PROVE  calculate_next_block_time(p, current)' \in Nat
<1> DEFINE index == (CHOOSE i \in DOMAIN Active : Active[i] = p) - 1
           block_num == head'.block_num + Cardinality(pending')
           minimum_offset == IF p \in DOMAIN watermark' /\ watermark'[p] > block_num
                             THEN watermark'[p] - block_num + 1 ELSE 1
           minimum_slot == current + minimum_offset
           minimum_index == (minimum_slot % (Len(Active) * producer_repetitions))
                                \div producer_repetitions
<1>1. Len(Active) \in Nat \ {0} /\ producer_repetitions \in Nat \ {0}
    BY ActiveAssumption, RepetitionsAssumption
<1>2. index \in 0 .. Len(Active) - 1
  <2>1. \E i \in DOMAIN Active : Active[i] = p
    OBVIOUS
  <2>2. (CHOOSE i \in DOMAIN Active : Active[i] = p) \in DOMAIN Active
    BY <2>1
  <2> QED BY <1>1, <2>2, ActiveAssumption
<1>3. block_num \in Nat
    BY SmallCounted
<1> HIDE DEF index, block_num
<1>4. minimum_slot \in Nat
    BY <1>3
<1> HIDE DEF minimum_slot
<1>5. minimum_index + 1 \in 1 .. Len(Active)
    BY <1>1, <1>4, ScheduledInRange
<1>6. minimum_index \in 0 .. Len(Active) - 1
  <2>1. minimum_index \in Int
    BY <1>1, <1>4
  <2> HIDE DEF minimum_index
  <2> QED BY <1>1, <1>5, <2>1
<1> HIDE DEF minimum_index
<1>7. producer_distance(index, minimum_index) \in Nat
    BY <1>1, <1>2, <1>6 DEF producer_distance
<1>8. producer_distance(index, minimum_index) * producer_repetitions \in Nat
    BY <1>1, <1>7
<1>9. minimum_slot - (minimum_slot % producer_repetitions) \in Nat
    BY <1>1, <1>4, RemainderBelow
<1>10. calculate_next_block_time(p, current)'
          = IF index = minimum_index THEN minimum_slot
            ELSE minimum_slot - (minimum_slot % producer_repetitions)
                     + producer_distance(index, minimum_index) * producer_repetitions
    BY DEF calculate_next_block_time, index, minimum_index, minimum_slot, block_num
<1> QED BY <1>4, <1>8, <1>9, <1>10

(* So schedule_delayed_production_loop arms the timer for a point in time. *)
LEMMA DelayedLoopTyped ==
    ASSUME NEW current \in Nat, NEW later, NEW queued,
           head'.block_num \in Nat, Small(pending'), \A q \in DOMAIN watermark' : watermark'[q] \in Nat,
           queued \subseteq {"loop", "produce"}, Small(queued),
           schedule_delayed_production_loop(current, later, queued)
    PROVE  /\ timer' \subseteq [kind : {"loop"}, at : Int] /\ Small(timer')
           /\ fired' \subseteq {"loop", "produce"} /\ Small(fired')
           /\ timer' = {} \/ fired' = {}
<1> DEFINE wakes == wake_up_slots(current)'
<1>1. wakes \subseteq Nat
    BY NextBlockTime DEF wake_up_slots
<1>2. wakes # {} => Min(wakes) \in Nat
    BY <1>1, LeastExists DEF Min
<1> HIDE DEF wakes
<1>3. \/ timer' = {} /\ fired' = queued
      \/ /\ wakes # {} /\ fired' = {}
         /\ timer' = {[kind |-> "loop", at |-> time(Min(wakes)) - block_interval]}
    BY DEF schedule_delayed_production_loop, arm, cancel, wakes
<1>4. wakes # {} => time(Min(wakes)) - block_interval \in Int
    BY <1>2, TimeAssumption DEF time
<1>5. CASE timer' = {} /\ fired' = queued
    BY <1>5 DEF Small
<1>6. ASSUME NEW at \in Int, timer' = {[kind |-> "loop", at |-> at]}, fired' = {}
      PROVE  timer' \subseteq [kind : {"loop"}, at : Int] /\ Small(timer') /\ Small(fired')
    BY <1>6 DEF Small
<1> QED BY <1>3, <1>4, <1>5, <1>6

(* The deadline of a block is a point in time. *)
LEMMA ShipTimeTyped ==
    ASSUME NEW slot \in Nat, NEW later \in Nat
    PROVE  ship_time(slot, later) \in Int
BY TimeAssumption DEF ship_time, calculate_block_deadline, time

(* schedule_production_loop, whatever start_block comes to. *)
LEMMA LoopTyped ==
    ASSUME NEW block, NEW queued, now \in Nat, ChainState',
           block \subseteq [block_num : Nat, slot : Nat, confirmed : Nat], Small(block),
           \A b \in block : b.block_num = head'.block_num + 1 /\ b.slot > head'.slot,
           queued \subseteq {"loop", "produce"}, Small(queued),
           schedule_production_loop(block, queued)
    PROVE  LoopState'
<1>1. PICK t, later, fails, slot, m :
         /\ t = now /\ later \in now .. now + MaxSpent
         /\ slot = calculate_pending_block_time(t)' /\ m = block_mode(t, slot)'
         /\ ScheduleNext(t, later, fails, slot, m, block, queued)
    BY DEF schedule_production_loop
<1>2. now' = later /\ later \in Nat /\ mode' = m /\ m \in Modes
    BY <1>1, LimitsAssumption DEF ScheduleNext, block_mode, Modes
<1>3. /\ head'.block_num \in Nat /\ head'.slot \in Nat
      /\ \A p \in DOMAIN watermark' : watermark'[p] \in Nat
    BY DEF ChainState
<1>4. slot \in Nat /\ slot > head'.slot
    BY <1>1, <1>3, PendingSlot
<1>5. /\ pending' \subseteq [block_num : Nat, slot : Nat, confirmed : Nat] /\ Small(pending')
      /\ \A b \in pending' : b.block_num = head'.block_num + 1 /\ b.slot > head'.slot
  <2>1. CASE pending' = block
    BY <2>1
  <2>2. CASE pending' = {}
    BY <2>2 DEF Small
  <2>3. CASE pending' = {new_pending(slot, m)'}
    <3> DEFINE n == IF m = "producing"
                    THEN blocks_to_confirm(watermark', scheduled(slot), head'.block_num) ELSE 0
    <3>1. n \in Nat
      BY <1>3, ConfirmIsNat
    <3>2. pending' = {[block_num |-> head'.block_num + 1, slot |-> slot, confirmed |-> n]}
      BY <2>3 DEF new_pending, scheduled
    <3> HIDE DEF n
    <3> QED BY <1>3, <1>4, <3>1, <3>2 DEF Small
  <2> QED BY <1>1, <2>1, <2>2, <2>3 DEF ScheduleNext
<1>6. /\ timer' \subseteq [kind : {"loop", "produce"}, at : Int] /\ Small(timer')
      /\ fired' \subseteq {"loop", "produce"} /\ Small(fired')
      /\ timer' = {} \/ fired' = {}
  <2>1. ASSUME NEW current \in Nat, schedule_delayed_production_loop(current, later, queued)
        PROVE  /\ timer' \subseteq [kind : {"loop", "produce"}, at : Int] /\ Small(timer')
               /\ fired' \subseteq {"loop", "produce"} /\ Small(fired')
               /\ timer' = {} \/ fired' = {}
    <3>1. /\ timer' \subseteq [kind : {"loop"}, at : Int] /\ Small(timer')
          /\ fired' \subseteq {"loop", "produce"} /\ Small(fired')
          /\ timer' = {} \/ fired' = {}
      BY <1>3, <1>5, <2>1, DelayedLoopTyped
    <3> QED BY <3>1
  <2>2. ASSUME NEW kind \in {"loop", "produce"}, NEW at \in Int, arm(kind, at)
        PROVE  /\ timer' \subseteq [kind : {"loop", "produce"}, at : Int] /\ Small(timer')
               /\ fired' = {} /\ Small(fired')
    BY <2>2 DEF arm, Small
  <2>3. later + least_sleep \in Int /\ ship_time(slot, later) \in Int
    BY <1>2, <1>4, ShipTimeTyped, TimeAssumption
  <2>4. calculate_pending_block_time(later)' \in Nat
    BY <1>2, <1>3, PendingSlot
  <2>5. \/ \E current \in {calculate_pending_block_time(later)'} :
              schedule_delayed_production_loop(current, later, queued)
        \/ retry(later, queued)
        \/ arm("produce", ship_time(slot, later))
        \/ schedule_delayed_production_loop(slot, later, queued)
    BY <1>1, Zenon DEF ScheduleNext
  <2> QED BY <1>4, <2>1, <2>2, <2>3, <2>4, <2>5 DEF retry
<1> QED BY <1>2, <1>5, <1>6 DEF LoopState

(* Before plugin_startup. *)
LEMMA TypeInit == Init => TypeInv
<1> SUFFICES ASSUME Init PROVE TypeInv
    OBVIOUS
<1>1. LoopState
    BY TimeAssumption DEF Init, LoopState, Modes, Small, time
<1>2. ChainState
    BY DEF Init, ChainState
<1>3. PolicyState
    <2>1. events \in 0 .. MaxEvents
        BY LimitsAssumption DEF Init
    <2>2. enabled \in BOOLEAN /\ paused \in BOOLEAN /\ max_age \in Ages
        BY ChoicesAssumption, Zenon DEF Init
    <2> QED BY <2>1, <2>2, Zenon DEF PolicyState
<1> QED BY <1>1, <1>2, <1>3 DEF TypeInv

(* produce_block: the new head, its watermark and the published block. *)
LEMMA ProduceTyped ==
    ASSUME TypeInv, ProduceBlock
    PROVE  ChainState'
<1>1. PICK b \in pending, lib_slot \in 0 .. head.slot :
         /\ head' = [block_num |-> b.block_num, slot |-> b.slot]
         /\ lib_time' = time(lib_slot)
         /\ raise_watermark(b)
         /\ signed' = signed \cup {[producer |-> scheduled(b.slot), block_num |-> b.block_num,
                                    slot |-> b.slot, confirmed |-> b.confirmed, at |-> now,
                                    parent_slot |-> head.slot]}
    BY DEF ProduceBlock
<1>2. /\ b.block_num \in Nat /\ b.slot \in Nat /\ b.confirmed \in Nat
      /\ now \in Nat /\ head.slot \in Nat /\ head.block_num \in Nat
      /\ b.block_num = head.block_num + 1
    BY DEF TypeInv, LoopState, ChainState
<1>3. scheduled(b.slot) \in Mine
    BY MineAssumption DEF ProduceBlock, can_produce
<1>4. lib_time' \in Nat /\ head' \in [block_num : Nat, slot : Nat]
    BY <1>1, <1>2, TimeAssumption DEF time
<1>5. Numbers
    BY DEF TypeInv, LoopState, ChainState, Numbers
<1>6. DOMAIN watermark' \subseteq Mine /\ \A p \in DOMAIN watermark' : watermark'[p] \in Nat
    BY <1>1, <1>3, <1>5, WatermarkRaised DEF TypeInv, ChainState
<1>7. ASSUME NEW a \in signed'
      PROVE  /\ a \in [producer : Mine, block_num : Nat, slot : Nat, confirmed : Nat, at : Nat,
                       parent_slot : Nat]
             /\ a.block_num >= 1
    <2>1. CASE a \in signed
        BY <2>1 DEF TypeInv, ChainState
    <2>2. CASE a \notin signed
        <3>1. a = [producer |-> scheduled(b.slot), block_num |-> b.block_num,
                   slot |-> b.slot, confirmed |-> b.confirmed, at |-> now,
                   parent_slot |-> head.slot]
            BY <1>1, <1>7, <2>2
        <3> QED BY <1>2, <1>3, <3>1
    <2> QED BY <2>1, <2>2
<1> QED BY <1>4, <1>6, <1>7 DEF ChainState

(* Every handler keeps the types. *)
LEMMA TypeNext == TypeInv /\ [Next]_vars => TypeInv'
<1> SUFFICES ASSUME TypeInv, [Next]_vars PROVE TypeInv'
    OBVIOUS
<1>0. /\ LoopState /\ ChainState /\ PolicyState /\ now \in Nat
      /\ head.block_num \in Nat /\ head.slot \in Nat
      /\ pending \subseteq [block_num : Nat, slot : Nat, confirmed : Nat] /\ Small(pending)
      /\ \A b \in pending : b.block_num = head.block_num + 1 /\ b.slot > head.slot
      /\ fired \subseteq {"loop", "produce"} /\ Small(fired)
    BY DEF TypeInv, LoopState, ChainState
<1>1. Small({}) /\ \A x : Small({x})
    BY DEF Small
<1>2. ASSUME NEW queued, queued = fired \/ queued = {}, ChainState', PolicyState',
             schedule_production_loop({}, queued)
      PROVE  TypeInv'
    <2>1. LoopState'
        BY <1>0, <1>1, <1>2, LoopTyped
    <2> QED BY <1>2, <2>1 DEF TypeInv
<1>3. ASSUME NEW queued, queued = fired \/ queued = {}, PolicyState', UNCHANGED chain_vars,
             schedule_production_loop(pending, queued)
      PROVE  TypeInv'
    <2>1. ChainState' /\ head' = head
        BY <1>0, <1>3 DEF chain_vars, ChainState
    <2>2. LoopState'
        BY <1>0, <1>1, <1>3, <2>1, LoopTyped
    <2> QED BY <1>3, <2>1, <2>2 DEF TypeInv
<1>4. UNCHANGED chain_vars => ChainState'
    BY <1>0 DEF chain_vars, ChainState
<1>5. Event => events' \in 0 .. MaxEvents
    BY <1>0, LimitsAssumption DEF Event, PolicyState
<1>6. UNCHANGED <<policy_vars, events>> => PolicyState'
    BY <1>0 DEF policy_vars, PolicyState
<1>7. UNCHANGED <<head, pending, mode, timer, fired>> /\ now' \in Nat => LoopState'
    BY <1>0 DEF LoopState
<1>8. CASE plugin_startup
    BY <1>8, <1>3, <1>6 DEF plugin_startup
<1>9. ASSUME NEW block_num, NEW slot \in 2 .. MaxPeerSlot, NEW lib_slot \in 0 .. MaxPeerSlot,
             OnIncomingBlock(block_num, slot, lib_slot)
      PROVE  TypeInv'
    <2>1. /\ block_num \in 2 .. slot + 1
          /\ head' = [block_num |-> block_num, slot |-> slot] /\ lib_time' = time(lib_slot)
          /\ UNCHANGED <<watermark, signed, paused, max_age>>
          /\ enabled' \in BOOLEAN /\ Event /\ schedule_production_loop({}, fired)
        BY <1>9, <1>0 DEF OnIncomingBlock, caught_up, PolicyState
    <2>2. block_num \in Nat /\ slot \in Nat /\ lib_slot \in Nat
        BY <1>9, <2>1, LimitsAssumption
    <2>3. ChainState'
        BY <1>0, <2>1, <2>2, TimeAssumption DEF ChainState, time
    <2>4. PolicyState'
        BY <1>0, <1>5, <2>1 DEF PolicyState
    <2> QED BY <1>2, <2>1, <2>3, <2>4
<1>10. CASE OnOtherBlock
    <2>1. PolicyState'
        BY <1>0, <1>5, <1>10 DEF OnOtherBlock, caught_up, PolicyState
    <2> QED BY <1>2, <1>4, <1>10, <2>1 DEF OnOtherBlock
<1>11. CASE Expire
    <2>1. PICK x \in timer :
             /\ timer' = {} /\ fired' = {x.kind}
             /\ UNCHANGED <<now, chain_vars, policy_vars, pending, mode, events>>
        BY <1>11 DEF Expire
    <2>2. x.kind \in {"loop", "produce"}
        BY <1>0 DEF LoopState
    <2>3. LoopState'
        BY <1>0, <1>1, <2>1, <2>2 DEF LoopState, chain_vars
    <2> QED BY <1>4, <1>6, <2>1, <2>3 DEF TypeInv
<1>12. CASE WakeUp
    BY <1>12, <1>3, <1>6 DEF WakeUp
<1>13. CASE ProduceBlock
    <2>1. ChainState'
        BY <1>13, ProduceTyped
    <2> QED BY <1>13, <1>2, <1>6, <2>1 DEF ProduceBlock
<1>14. CASE ProduceBlockFails
    BY <1>14, <1>2, <1>4, <1>6 DEF ProduceBlockFails
<1>15. CASE Pause
    <2>1. PolicyState'
        BY <1>0, <1>5, <1>15 DEF Pause, PolicyState
    <2> QED BY <1>0, <1>4, <1>7, <1>15, <2>1 DEF Pause, TypeInv, chain_vars
<1>16. ASSUME re_evaluate, UNCHANGED chain_vars, PolicyState'
       PROVE  TypeInv'
    <2>1. CASE schedule_production_loop({}, fired)
        BY <1>2, <1>4, <1>16, <2>1
    <2>2. CASE UNCHANGED <<now, pending, mode, timer, fired>>
        BY <1>0, <1>4, <1>7, <1>16, <2>2 DEF TypeInv, chain_vars
    <2> QED BY <1>16, <2>1, <2>2 DEF re_evaluate
<1>17. CASE Resume
    <2>1. PolicyState'
        BY <1>0, <1>5, <1>17 DEF Resume, PolicyState
    <2> QED BY <1>16, <1>17, <2>1 DEF Resume
<1>18. ASSUME NEW age \in Ages, UpdateRuntimeOptions(age)
       PROVE  TypeInv'
    <2>1. PolicyState'
        BY <1>0, <1>5, <1>18 DEF UpdateRuntimeOptions, PolicyState
    <2> QED BY <1>16, <1>18, <2>1 DEF UpdateRuntimeOptions
<1>19. CASE CreateSnapshot
    <2>1. PolicyState'
        BY <1>0, <1>5, <1>19 DEF CreateSnapshot, PolicyState, policy_vars
    <2> QED BY <1>2, <1>4, <1>19, <2>1 DEF CreateSnapshot
<1>20. ASSUME NEW age \in Ages, Restart(age)
       PROVE  TypeInv'
    <2>1. PolicyState'
        BY <1>0, <1>5, <1>20, ChoicesAssumption DEF Restart, PolicyState
    <2>2. head' \in [block_num : Nat, slot : Nat]
        <3>1. CASE head' = head
            BY <3>1, <1>0 DEF ChainState
        <3>2. ASSUME NEW b \in signed, b.block_num = head.block_num,
                     head' = [block_num |-> head.block_num - 1, slot |-> b.parent_slot]
              PROVE  head' \in [block_num : Nat, slot : Nat]
            <4>1. b.block_num >= 1 /\ b.parent_slot \in Nat
                BY <1>0, <3>2 DEF ChainState
            <4>2. head.block_num - 1 \in Nat
                BY <1>0, <3>2, <4>1
            <4> QED BY <3>2, <4>1, <4>2
        <3> QED BY <1>20, <3>1, <3>2 DEF Restart
    <2>3. ChainState'
        BY <1>0, <1>20, <2>2 DEF Restart, ChainState
    <2>4. LoopState'
        BY <1>0, <1>1, <1>20 DEF Restart, LoopState, Modes
    <2> QED BY <2>1, <2>3, <2>4 DEF TypeInv
<1>21. CASE Tick
    BY <1>0, <1>4, <1>6, <1>7, <1>21 DEF Tick, TypeInv, chain_vars
<1>22. CASE UNCHANGED vars
    BY <1>0, <1>4, <1>6, <1>7, <1>22 DEF vars, TypeInv, chain_vars
<1> QED
    BY <1>8, <1>9, <1>10, <1>11, <1>12, <1>13, <1>14, <1>15, <1>17, <1>18, <1>19, <1>20,
       <1>21, <1>22 DEF Next, Done

(* In every state of the loop the pending block builds on the head and at most
   one handler is armed or due, for every schedule, timing and bound. *)
THEOREM TypeCorrect == Spec => []TypeOK
<1>1. TypeInv => TypeOK
    <2> SUFFICES ASSUME TypeInv PROVE TypeOK
        OBVIOUS
    <2>1. Cardinality(pending) <= 1
        BY SmallCounted DEF TypeInv, LoopState
    <2>2. Cardinality(timer) + Cardinality(fired) <= 1
        <3>1. Small(timer) /\ Small(fired) /\ (timer = {} \/ fired = {})
            BY DEF TypeInv, LoopState
        <3>2. Cardinality(timer) \in 0 .. 1 /\ (timer = {} => Cardinality(timer) = 0)
            BY <3>1, SmallCounted
        <3>3. Cardinality(fired) \in 0 .. 1 /\ (fired = {} => Cardinality(fired) = 0)
            BY <3>1, SmallCounted
        <3> QED BY <3>1, <3>2, <3>3
    <2> QED BY <2>1, <2>2 DEF TypeInv, LoopState, ChainState, PolicyState, TypeOK, Modes
<1> QED BY <1>1, TypeInit, TypeNext, PTL DEF Spec

-----------------------------------------------------------------------------
(* A block is not shipped more than one interval early.  NotTooEarly speaks of
   blocks that are signed; ShipsInTime of the one that is waiting: its timer, or
   the clock once its timer has expired. *)

(* The operator may set any offset; a block whose offset reaches back further
   than one interval leaves as early as he asked for. *)
OffsetsWithinInterval ==
    produce_time_offset >= 0 - block_interval /\ last_block_time_offset >= 0 - block_interval

InTime(b, at) == at >= time(b.slot) - block_interval

ShipsInTime ==
    mode = "producing" =>
        \A b \in pending :
            /\ \A x \in timer : x.kind = "produce" => InTime(b, x.at)
            /\ "produce" \in fired => InTime(b, now)

EarlyInv == TypeInv /\ ShipsInTime /\ NotTooEarly

(* The deadline of a block, and the time it leaves when that has passed. *)
LEMMA ShipTimeInTime ==
    ASSUME OffsetsWithinInterval, NEW slot \in Nat, NEW later \in Nat
    PROVE  ship_time(slot, later) >= time(slot) - block_interval
<1>1. time(slot) \in Int
    BY TimeAssumption DEF time
<1>2. /\ calculate_block_deadline(slot) \in Int
      /\ calculate_block_deadline(slot) >= time(slot) - block_interval
    BY <1>1, TimeAssumption DEF OffsetsWithinInterval, calculate_block_deadline
<1> QED BY <1>1, <1>2, TimeAssumption DEF ship_time

(* What schedule_production_loop arms for the block it starts. *)
LEMMA LoopShipsInTime ==
    ASSUME OffsetsWithinInterval, NEW block, NEW queued, now \in Nat, ChainState',
           schedule_production_loop(block, queued)
    PROVE  ShipsInTime'
<1>1. PICK t, later, fails, slot, m :
         /\ t = now /\ later \in now .. now + MaxSpent
         /\ slot = calculate_pending_block_time(t)' /\ m = block_mode(t, slot)'
         /\ ScheduleNext(t, later, fails, slot, m, block, queued)
    BY DEF schedule_production_loop
<1>2. later \in Nat /\ slot \in Nat
    BY <1>1, PendingSlot, LimitsAssumption DEF ChainState
<1>3. mode' = m
    BY <1>1 DEF ScheduleNext
<1>4. CASE m # "producing" \/ pending' = {}
    BY <1>3, <1>4 DEF ShipsInTime
<1>5. CASE pending' = {new_pending(slot, m)'} /\ arm("produce", ship_time(slot, later))
    <2>1. \A b \in pending' : b.slot = slot
        BY <1>5 DEF new_pending
    <2>2. fired' = {} /\ \A x \in timer' : x.at = ship_time(slot, later)
        BY <1>5 DEF arm
    <2>3. ship_time(slot, later) >= time(slot) - block_interval
        BY <1>2, ShipTimeInTime
    <2> QED BY <2>1, <2>2, <2>3 DEF ShipsInTime, InTime, time
<1> QED BY <1>1, <1>4, <1>5 DEF ScheduleNext, waits

(* Every handler keeps EarlyInv: the timer is only changed by the loop and by
   its expiry, and only produce_block signs. *)
LEMMA EarlyNext ==
    ASSUME OffsetsWithinInterval, EarlyInv, [Next]_vars
    PROVE  EarlyInv'
<1>0. TypeInv' /\ ChainState' /\ now \in Nat /\ ShipsInTime /\ NotTooEarly
    BY TypeNext DEF EarlyInv, TypeInv, LoopState
<1>1. ASSUME NEW block, NEW queued, schedule_production_loop(block, queued), signed' = signed
      PROVE  EarlyInv'
    <2>1. ShipsInTime'
        BY <1>0, <1>1, LoopShipsInTime
    <2> QED BY <1>0, <1>1, <2>1 DEF EarlyInv, NotTooEarly
<1>2. ASSUME UNCHANGED <<pending, mode, timer, fired, signed>>, now' \in Nat, now' >= now
      PROVE  EarlyInv'
    <2>1. \A b \in pending : b.slot \in Nat
        BY DEF EarlyInv, TypeInv, LoopState
    <2>2. ShipsInTime'
        BY <1>0, <1>2, <2>1, TimeAssumption DEF ShipsInTime, InTime, time
    <2> QED BY <1>0, <1>2, <2>2 DEF EarlyInv, NotTooEarly
<1>3. CASE plugin_startup
    BY <1>1, <1>3 DEF plugin_startup, chain_vars
<1>4. ASSUME NEW block_num, NEW slot, NEW lib_slot, OnIncomingBlock(block_num, slot, lib_slot)
      PROVE  EarlyInv'
    BY <1>1, <1>4 DEF OnIncomingBlock
<1>5. CASE OnOtherBlock
    BY <1>1, <1>5 DEF OnOtherBlock, chain_vars
<1>6. CASE Expire
    <2>1. PICK x \in timer :
             /\ x.at <= now /\ timer' = {} /\ fired' = {x.kind}
             /\ UNCHANGED <<now, signed, pending, mode>>
        BY <1>6 DEF Expire, chain_vars
    <2>2. x.at \in Int /\ \A b \in pending : b.slot \in Nat
        BY DEF EarlyInv, TypeInv, LoopState
    <2>3. ASSUME mode = "producing", NEW b \in pending, x.kind = "produce"
          PROVE  InTime(b, now)
        <3>1. InTime(b, x.at)
            BY <1>0, <2>3 DEF ShipsInTime
        <3> QED BY <1>0, <2>1, <2>2, <3>1, TimeAssumption DEF InTime, time
    <2>4. ShipsInTime'
        BY <2>1, <2>3 DEF ShipsInTime, InTime, time
    <2> QED BY <1>0, <2>1, <2>4 DEF EarlyInv, NotTooEarly
<1>7. CASE WakeUp
    BY <1>1, <1>7 DEF WakeUp, chain_vars
<1>8. CASE ProduceBlock
    <2>1. PICK b \in pending :
             signed' = signed \cup {[producer |-> scheduled(b.slot), block_num |-> b.block_num,
                                     slot |-> b.slot, confirmed |-> b.confirmed, at |-> now,
                                     parent_slot |-> head.slot]}
        BY <1>8 DEF ProduceBlock
    <2>2. InTime(b, now)
        BY <1>0, <1>8 DEF ProduceBlock, can_produce, ShipsInTime
    <2>3. NotTooEarly'
        BY <1>0, <2>1, <2>2 DEF NotTooEarly, InTime
    <2>4. ShipsInTime'
        BY <1>0, <1>8, LoopShipsInTime DEF ProduceBlock
    <2> QED BY <1>0, <2>3, <2>4 DEF EarlyInv
<1>9. CASE ProduceBlockFails
    BY <1>1, <1>9 DEF ProduceBlockFails, chain_vars
<1>10. CASE Pause
    BY <1>0, <1>2, <1>10 DEF Pause, chain_vars
<1>11. ASSUME re_evaluate, UNCHANGED chain_vars
       PROVE  EarlyInv'
    BY <1>0, <1>1, <1>2, <1>11 DEF re_evaluate, chain_vars
<1>12. CASE Resume
    BY <1>11, <1>12 DEF Resume
<1>13. ASSUME NEW age, UpdateRuntimeOptions(age)
       PROVE  EarlyInv'
    BY <1>11, <1>13 DEF UpdateRuntimeOptions
<1>14. CASE CreateSnapshot
    BY <1>1, <1>14 DEF CreateSnapshot, chain_vars
<1>15. ASSUME NEW age, Restart(age)
       PROVE  EarlyInv'
    BY <1>0, <1>15 DEF Restart, EarlyInv, ShipsInTime, NotTooEarly
<1>16. CASE Tick
    BY <1>0, <1>2, <1>16 DEF Tick, chain_vars
<1>17. CASE UNCHANGED vars
    BY <1>0, <1>2, <1>17 DEF vars, chain_vars
<1> QED
    BY <1>3, <1>4, <1>5, <1>6, <1>7, <1>8, <1>9, <1>10, <1>12, <1>13, <1>14, <1>15, <1>16,
       <1>17 DEF Next, Done

(* No block leaves more than one interval before its slot, whatever heads peers
   send and however late the handlers run, as long as no configured offset
   reaches back further than that. *)
THEOREM BlocksNotTooEarly ==
    ASSUME OffsetsWithinInterval
    PROVE  Spec => []NotTooEarly
<1>1. Init => EarlyInv
    BY TypeInit DEF Init, EarlyInv, ShipsInTime, NotTooEarly
<1>2. EarlyInv /\ [Next]_vars => EarlyInv'
    BY EarlyNext
<1>3. EarlyInv => NotTooEarly
    BY DEF EarlyInv
<1> QED BY <1>1, <1>2, <1>3, PTL DEF Spec

-----------------------------------------------------------------------------
(* No turn is slept through.  What has to be shown of calculate_next_block_time
   is that it skips no slot of the producer except those at which the block
   number cannot be above the watermark yet. *)

PendingSlotAfter(h, t) ==
    LET base == IF t > time(h) THEN t ELSE time(h)
        slot == base \div block_interval + 1
    IN  IF time(slot) - t < least_sleep THEN slot + 1 ELSE slot

(* The slots after `current` that the wake-up x sleeps through are ones in which
   the producer may not sign block `num` or a successor. *)
SleepsSoundly(marks, current, x, num) ==
    \A slot \in current + 1 .. x.at \div block_interval :
        scheduled(slot) \in Mine =>
            /\ scheduled(slot) \in DOMAIN marks
            /\ marks[scheduled(slot)] >= num + (slot - current)

SleepInv == TypeInv /\ NoTurnSleptThrough

(* A larger dividend has no smaller quotient. *)
LEMMA QuotientGrows ==
    ASSUME NEW x \in Nat, NEW y \in Nat, x <= y
    PROVE  x \div block_interval <= y \div block_interval
<1> DEFINE q == x \div block_interval
<1>1. q \in Nat /\ q * block_interval <= x
    BY TimeAssumption, Division
<1> HIDE DEF q
<1>2. q * block_interval \in Nat
    BY <1>1, TimeAssumption
<1>3. y \div block_interval >= q /\ y \div block_interval \in Nat
    BY <1>1, <1>2, TimeAssumption, QuotientAtLeast
<1> QED BY <1>1, <1>3 DEF q

(* The pending slot never moves back as time passes. *)
LEMMA PendingSlotGrows ==
    ASSUME NEW h \in Nat, NEW t \in Nat, NEW u \in Nat, t <= u
    PROVE  /\ PendingSlotAfter(h, t) <= PendingSlotAfter(h, u)
           /\ PendingSlotAfter(h, t) \in Nat /\ PendingSlotAfter(h, u) \in Nat
<1> DEFINE base(v) == IF v > time(h) THEN v ELSE time(h)
           slot(v) == base(v) \div block_interval + 1
<1>1. base(t) \in Nat /\ base(u) \in Nat /\ base(t) <= base(u)
    BY TimeAssumption DEF time
<1>2. slot(t) \in Nat /\ slot(u) \in Nat /\ slot(t) <= slot(u)
  <2> HIDE DEF base
  <2>1. base(t) \div block_interval <= base(u) \div block_interval
    BY <1>1, QuotientGrows
  <2>2. base(t) \div block_interval \in Nat /\ base(u) \div block_interval \in Nat
    BY <1>1, TimeAssumption
  <2> QED BY <2>1, <2>2
<1>3. /\ PendingSlotAfter(h, t) = IF time(slot(t)) - t < least_sleep THEN slot(t) + 1 ELSE slot(t)
      /\ PendingSlotAfter(h, u) = IF time(slot(u)) - u < least_sleep THEN slot(u) + 1 ELSE slot(u)
    BY DEF PendingSlotAfter
<1> HIDE DEF slot
<1>4. CASE slot(t) = slot(u)
  <2>1. time(slot(t)) \in Nat
    BY <1>2, TimeAssumption DEF time
  <2>2. time(slot(t)) = time(slot(u))
    BY <1>4
  <2>3. time(slot(t)) - t < least_sleep => time(slot(u)) - u < least_sleep
    BY <2>1, <2>2, TimeAssumption
  <2> QED BY <1>2, <1>3, <1>4, <2>3
<1>5. CASE slot(t) + 1 <= slot(u)
    BY <1>2, <1>3, <1>5
<1> QED BY <1>2, <1>4, <1>5

(* calculate_next_block_time skips a turn of p only for p's watermark. *)
LEMMA TurnSkipped ==
    ASSUME NEW current \in Nat, NEW slot \in Nat, slot > current,
           head'.block_num \in Nat, Small(pending'), \A q \in DOMAIN watermark' : watermark'[q] \in Nat,
           NEW p, p = scheduled(slot), slot < calculate_next_block_time(p, current)'
    PROVE  /\ p \in DOMAIN watermark'
           /\ watermark'[p] >= head'.block_num + Cardinality(pending') + (slot - current)
<1> DEFINE index == (CHOOSE i \in DOMAIN Active : Active[i] = p) - 1
           block_num == head'.block_num + Cardinality(pending')
           minimum_offset == IF p \in DOMAIN watermark' /\ watermark'[p] > block_num
                             THEN watermark'[p] - block_num + 1 ELSE 1
           minimum_slot == current + minimum_offset
           minimum_index == (minimum_slot % (Len(Active) * producer_repetitions))
                                \div producer_repetitions
           turn == (slot % (Len(Active) * producer_repetitions)) \div producer_repetitions
<1>1. Len(Active) \in Nat \ {0} /\ producer_repetitions \in Nat \ {0}
    BY ActiveAssumption, RepetitionsAssumption
<1>2. block_num \in Nat
    BY SmallCounted
<1>3. index = turn
  <2>1. turn + 1 \in 1 .. Len(Active)
    BY <1>1, ScheduledInRange
  <2>2. turn \in Int
    BY <1>1
  <2>3. p = Active[turn + 1]
    BY DEF scheduled, get_scheduled_producer
  <2> HIDE DEF turn
  <2>4. turn + 1 \in DOMAIN Active
    BY <2>1, ActiveAssumption
  <2>5. (CHOOSE i \in DOMAIN Active : Active[i] = p) = turn + 1
    BY <2>3, <2>4, ActiveAssumption
  <2>6. index = (turn + 1) - 1
    BY <2>5
  <2> QED BY <2>2, <2>6
<1>4. calculate_next_block_time(p, current)'
          = IF index = minimum_index THEN minimum_slot
            ELSE minimum_slot - (minimum_slot % producer_repetitions)
                     + producer_distance(index, minimum_index) * producer_repetitions
    BY DEF calculate_next_block_time
<1> HIDE DEF block_num, index
<1>5. minimum_slot \in Nat /\ minimum_offset \in Nat
    BY <1>2
<1>6. slot < minimum_slot
  <2> HIDE DEF minimum_slot
  <2> SUFFICES ASSUME minimum_slot <= slot PROVE FALSE
    BY <1>5
  <2>1. CASE index = minimum_index
    BY <1>4, <1>5, <2>1
  <2>2. CASE index # minimum_index
    <3>0. /\ turn = TurnOf(slot, Len(Active), producer_repetitions)
          /\ minimum_index = TurnOf(minimum_slot, Len(Active), producer_repetitions)
      BY DEF TurnOf
    <3> HIDE DEF turn, minimum_index
    <3>1. minimum_slot - (minimum_slot % producer_repetitions)
             + producer_distance(turn, minimum_index) * producer_repetitions <= slot
      <4>1. minimum_slot - (minimum_slot % producer_repetitions)
               + TurnsBetween(minimum_index, turn, Len(Active)) * producer_repetitions <= slot
        BY <1>1, <1>3, <1>5, <2>2, <3>0, FirstTurn
      <4> QED BY <4>1 DEF producer_distance, TurnsBetween
    <3>2. slot < minimum_slot - (minimum_slot % producer_repetitions)
             + producer_distance(turn, minimum_index) * producer_repetitions
      BY <1>3, <1>4, <2>2
    <3>3. /\ minimum_slot % producer_repetitions \in Nat
          /\ turn \in Int /\ minimum_index \in Int
      BY <1>1, <1>5 DEF turn, minimum_index
    <3>4. producer_distance(turn, minimum_index) \in Int
      BY <1>1, <3>3 DEF producer_distance
    <3>5. producer_distance(turn, minimum_index) * producer_repetitions \in Int
      BY <1>1, <3>4
    <3> QED BY <1>5, <3>1, <3>2, <3>3, <3>5
  <2> QED BY <2>1, <2>2
<1>7. p \in DOMAIN watermark' /\ watermark'[p] > block_num
    BY <1>5, <1>6
<1>8. slot < current + (watermark'[p] - block_num + 1)
    BY <1>6, <1>7
<1>9. watermark'[p] >= block_num + (slot - current)
    BY <1>2, <1>7, <1>8
<1> QED BY <1>7, <1>9 DEF block_num

(* What schedule_delayed_production_loop arms sleeps soundly. *)
LEMMA DelayedLoopSleeps ==
    ASSUME NEW current \in Nat, NEW later, NEW queued,
           head'.block_num \in Nat, Small(pending'), \A q \in DOMAIN watermark' : watermark'[q] \in Nat,
           NEW num, num = head'.block_num + Cardinality(pending'),
           schedule_delayed_production_loop(current, later, queued), NEW x \in timer'
    PROVE  SleepsSoundly(watermark', current, x, num)
<1> DEFINE wakes == wake_up_slots(current)'
<1>1. wakes \subseteq Nat
    BY NextBlockTime DEF wake_up_slots
<1>2. wakes # {} => Min(wakes) \in Nat /\ \A w \in wakes : Min(wakes) <= w
    BY <1>1, LeastExists DEF Min
<1> HIDE DEF wakes
<1>3. wakes # {} /\ x.at = time(Min(wakes)) - block_interval
    BY DEF schedule_delayed_production_loop, arm, cancel, wakes
<1> DEFINE first == Min(wakes)
<1>4. first \in Nat /\ \A w \in wakes : first <= w
    BY <1>2, <1>3
<1>5. x.at = first * block_interval - block_interval /\ x.at \in Int
    BY <1>3, <1>4, TimeAssumption DEF time
<1> HIDE DEF first
<1> SUFFICES ASSUME NEW slot \in current + 1 .. x.at \div block_interval, scheduled(slot) \in Mine
             PROVE  /\ scheduled(slot) \in DOMAIN watermark'
                    /\ watermark'[scheduled(slot)] >= num + (slot - current)
    BY DEF SleepsSoundly, scheduled
<1>6. x.at \div block_interval \in Int
    BY <1>5, TimeAssumption
<1>7. slot \in Nat /\ slot > current /\ slot <= x.at \div block_interval
    BY <1>6
<1>8. slot < first
  <2>1. slot * block_interval <= x.at
    BY <1>5, <1>7, TimeAssumption, QuotientAtMost
  <2> SUFFICES ASSUME first <= slot PROVE FALSE
    BY <1>4, <1>7
  <2>2. first * block_interval <= slot * block_interval
    BY <1>4, <1>7, TimeAssumption, ProductGrows
  <2>3. first * block_interval \in Nat /\ slot * block_interval \in Nat
    BY <1>4, <1>7, TimeAssumption
  <2> QED BY <1>5, <2>1, <2>2, <2>3, TimeAssumption
<1>9. scheduled(slot) \in {Active[i] : i \in DOMAIN Active}
  <2> DEFINE turn == (slot % (Len(Active) * producer_repetitions)) \div producer_repetitions
  <2>1. turn + 1 \in DOMAIN Active
    BY <1>7, ScheduledInRange, ActiveAssumption, RepetitionsAssumption
  <2>2. scheduled(slot) = Active[turn + 1]
    BY DEF scheduled, get_scheduled_producer
  <2> QED BY <2>1, <2>2
<1>10. PICK p : p = scheduled(slot)
    OBVIOUS
<1>11. calculate_next_block_time(p, current)' \in wakes
    BY <1>9, <1>10 DEF wakes, wake_up_slots
<1>12. calculate_next_block_time(p, current)' \in Nat
    BY <1>1, <1>11
<1>13. slot < calculate_next_block_time(p, current)'
    BY <1>4, <1>7, <1>8, <1>11, <1>12
<1>14. /\ p \in DOMAIN watermark'
       /\ watermark'[p] >= head'.block_num + Cardinality(pending') + (slot - current)
    BY <1>7, <1>10, <1>13, TurnSkipped
<1> QED BY <1>10, <1>14

(* A later look at the clock leaves fewer slots to sleep through. *)
LEMMA SleepsOn ==
    ASSUME NEW marks, NEW current \in Nat, NEW later \in Nat, current <= later, NEW x, NEW num \in Nat,
           x.at \in Int, \A p \in DOMAIN marks : marks[p] \in Nat,
           SleepsSoundly(marks, current, x, num)
    PROVE  SleepsSoundly(marks, later, x, num)
<1> SUFFICES ASSUME NEW slot \in later + 1 .. x.at \div block_interval, scheduled(slot) \in Mine
             PROVE  /\ scheduled(slot) \in DOMAIN marks
                    /\ marks[scheduled(slot)] >= num + (slot - later)
    BY DEF SleepsSoundly
<1>1. x.at \div block_interval \in Int
    BY TimeAssumption
<1>2. slot \in current + 1 .. x.at \div block_interval /\ slot \in Nat
    BY <1>1
<1>3. PICK p : p = scheduled(slot)
    OBVIOUS
<1>4. p \in DOMAIN marks /\ marks[p] >= num + (slot - current)
    BY <1>2, <1>3 DEF SleepsSoundly
<1>5. marks[p] >= num + (slot - later)
    BY <1>2, <1>4
<1> QED BY <1>3, <1>4, <1>5

(* schedule_production_loop: the wake-up is computed from the slot of the block
   that was started, or from the clock when no block was. *)
LEMMA LoopSleeps ==
    ASSUME NEW block, NEW queued, now \in Nat, TypeInv', schedule_production_loop(block, queued)
    PROVE  NoTurnSleptThrough'
<1>1. PICK t, later, fails, slot, m :
         /\ t = now /\ later \in now .. now + MaxSpent
         /\ slot = calculate_pending_block_time(t)' /\ m = block_mode(t, slot)'
         /\ ScheduleNext(t, later, fails, slot, m, block, queued)
    BY DEF schedule_production_loop
<1>2. later \in Nat /\ t \in Nat /\ t <= later /\ now' = later /\ mode' = m
    BY <1>1, LimitsAssumption DEF ScheduleNext
<1>3. /\ head'.block_num \in Nat /\ head'.slot \in Nat /\ Small(pending')
      /\ \A q \in DOMAIN watermark' : watermark'[q] \in Nat
      /\ \A b \in pending' : b.block_num \in Nat /\ b.block_num = head'.block_num + 1
      /\ \A x \in timer' : x.at \in Int
    BY DEF TypeInv, LoopState, ChainState
<1>4. \A u : calculate_pending_block_time(u)' = PendingSlotAfter(head'.slot, u)
    BY DEF calculate_pending_block_time, PendingSlotAfter, time
<1>5. PICK current : current = PendingSlotAfter(head'.slot, later)
    OBVIOUS
<1>6. slot \in Nat /\ current \in Nat /\ slot <= current
    BY <1>1, <1>2, <1>3, <1>4, <1>5, PendingSlotGrows
<1>7. calculate_pending_block_time(now)' = current
    BY <1>2, <1>5 DEF calculate_pending_block_time, PendingSlotAfter, time
<1>8. SUFFICES ASSUME NEW x \in timer', NEW b \in pending', x.kind = "loop", m = "speculating"
               PROVE  SleepsSoundly(watermark', current, x, b.block_num)
    BY <1>2, <1>7 DEF NoTurnSleptThrough, SleepsSoundly, scheduled
<1>9. Cardinality(pending') = 1
  <2>1. pending' = {b}
    BY <1>3 DEF Small
  <2> QED BY <2>1, FS_Singleton
<1>10. PICK num : num = b.block_num
    OBVIOUS
<1>11. num \in Nat /\ num = head'.block_num + Cardinality(pending')
    BY <1>3, <1>9, <1>10
<1>12. \/ schedule_delayed_production_loop(current, later, queued)
       \/ schedule_delayed_production_loop(slot, later, queued)
    BY <1>1, <1>4, <1>5, <1>8 DEF ScheduleNext
<1>13. SleepsSoundly(watermark', current, x, num)
  <2>1. CASE schedule_delayed_production_loop(current, later, queued)
    BY <1>3, <1>6, <1>11, <2>1, DelayedLoopSleeps
  <2>2. CASE schedule_delayed_production_loop(slot, later, queued)
    <3>1. SleepsSoundly(watermark', slot, x, num)
      BY <1>3, <1>6, <1>11, <2>2, DelayedLoopSleeps
    <3> QED BY <1>3, <1>6, <1>11, <3>1, SleepsOn
  <2> QED BY <1>12, <2>1, <2>2
<1> QED BY <1>10, <1>13

(* NoTurnSleptThrough as the clock moves on and the loop state stays. *)
LEMMA SleepTimePasses ==
    ASSUME SleepInv, UNCHANGED <<head, watermark, pending, mode, timer>>, now' \in Nat, now' >= now
    PROVE  NoTurnSleptThrough'
<1>1. /\ now \in Nat /\ head.slot \in Nat
      /\ \A q \in DOMAIN watermark : watermark[q] \in Nat
      /\ \A b \in pending : b.block_num \in Nat
      /\ \A x \in timer : x.at \in Int
    BY DEF SleepInv, TypeInv, LoopState, ChainState
<1>2. PICK current, later : /\ current = PendingSlotAfter(head.slot, now)
                            /\ later = PendingSlotAfter(head.slot, now')
    OBVIOUS
<1>3. current \in Nat /\ later \in Nat /\ current <= later
    BY <1>1, <1>2, PendingSlotGrows
<1>4. /\ calculate_pending_block_time(now) = current
      /\ calculate_pending_block_time(now)' = later
    BY <1>2 DEF calculate_pending_block_time, PendingSlotAfter, time
<1>5. ASSUME NEW x \in timer, NEW b \in pending, x.kind = "loop", mode = "speculating"
      PROVE  SleepsSoundly(watermark, later, x, b.block_num)
    <2>1. SleepsSoundly(watermark, current, x, b.block_num)
        BY <1>4, <1>5 DEF SleepInv, NoTurnSleptThrough, SleepsSoundly
    <2> QED BY <1>1, <1>3, <2>1, SleepsOn
<1>6. ASSUME NEW x \in timer', NEW b \in pending', x.kind = "loop", mode' = "speculating"
      PROVE  SleepsSoundly(watermark', later, x, b.block_num)
    BY <1>5, <1>6
<1> QED BY <1>4, <1>6 DEF NoTurnSleptThrough, SleepsSoundly, scheduled

(* Every handler keeps SleepInv. *)
LEMMA SleepNext == SleepInv /\ [Next]_vars => SleepInv'
<1> SUFFICES ASSUME SleepInv, [Next]_vars PROVE SleepInv'
    OBVIOUS
<1>0. TypeInv' /\ now \in Nat
    BY TypeNext DEF SleepInv, TypeInv, LoopState
<1>1. ASSUME NEW block, NEW queued, schedule_production_loop(block, queued)
      PROVE  SleepInv'
    BY <1>0, <1>1, LoopSleeps DEF SleepInv
<1>2. ASSUME UNCHANGED <<head, watermark, pending, mode, timer>>, now' \in Nat, now' >= now
      PROVE  SleepInv'
    BY <1>0, <1>2, SleepTimePasses DEF SleepInv
<1>3. CASE plugin_startup
    BY <1>1, <1>3 DEF plugin_startup
<1>4. ASSUME NEW block_num, NEW slot, NEW lib_slot, OnIncomingBlock(block_num, slot, lib_slot)
      PROVE  SleepInv'
    BY <1>1, <1>4 DEF OnIncomingBlock
<1>5. CASE OnOtherBlock
    BY <1>1, <1>5 DEF OnOtherBlock
<1>6. CASE Expire
    BY <1>0, <1>6 DEF Expire, SleepInv, NoTurnSleptThrough
<1>7. CASE WakeUp
    BY <1>1, <1>7 DEF WakeUp
<1>8. CASE ProduceBlock
    BY <1>1, <1>8 DEF ProduceBlock
<1>9. CASE ProduceBlockFails
    BY <1>1, <1>9 DEF ProduceBlockFails
<1>10. CASE Pause
    BY <1>0, <1>2, <1>10 DEF Pause, chain_vars
<1>11. ASSUME re_evaluate, UNCHANGED chain_vars
       PROVE  SleepInv'
    BY <1>0, <1>1, <1>2, <1>11 DEF re_evaluate, chain_vars
<1>12. CASE Resume
    BY <1>11, <1>12 DEF Resume
<1>13. ASSUME NEW age, UpdateRuntimeOptions(age)
       PROVE  SleepInv'
    BY <1>11, <1>13 DEF UpdateRuntimeOptions
<1>14. CASE CreateSnapshot
    BY <1>1, <1>14 DEF CreateSnapshot
<1>15. ASSUME NEW age, Restart(age)
       PROVE  SleepInv'
    BY <1>0, <1>15 DEF Restart, SleepInv, NoTurnSleptThrough
<1>16. CASE Tick
    BY <1>0, <1>2, <1>16 DEF Tick, chain_vars
<1>17. CASE UNCHANGED vars
    BY <1>0, <1>2, <1>17 DEF vars, chain_vars
<1> QED
    BY <1>3, <1>4, <1>5, <1>6, <1>7, <1>8, <1>9, <1>10, <1>12, <1>13, <1>14, <1>15, <1>16,
       <1>17 DEF Next, Done

(* The wake-up that calculate_next_block_time computes never lies behind a slot
   in which a local producer could sign, for every schedule, number of slots in
   a row, watermark and delay of the handlers. *)
THEOREM TurnsNotSleptThrough == Spec => []NoTurnSleptThrough
<1>1. Init => SleepInv
    BY TypeInit DEF Init, SleepInv, NoTurnSleptThrough
<1>2. SleepInv => NoTurnSleptThrough
    BY DEF SleepInv
<1> QED BY <1>1, <1>2, SleepNext, PTL DEF Spec
=============================================================================
