------------------------- MODULE HeaderChainProofs -------------------------
(***************************************************************************)
(* Theorems about HeaderChain, for every value of its constants.  First    *)
(* well-formed header states and proposals that install; then what makes   *)
(* irreversibility safe: the quorum behind every proposed irreversible     *)
(* block, the quorum behind the LIB and its progress when schedules do not *)
(* shrink, and that produced blocks are accepted.                          *)
(***************************************************************************)
EXTENDS HeaderChain, NumberFacts, FiniteSetTheorems, SequenceTheorems, TLAPS

(* So what get_scheduled_producer returns is a producer name. *)
LEMMA ScheduledIsProducer ==
    ASSUME NEW s, NEW when \in Nat,
           s.active_schedule.producers \in Seq(Producer),
           s.active_schedule.producers # NoProducers
    PROVE  get_scheduled_producer(s, when) \in Producer
<1> DEFINE l == s.active_schedule.producers
<1>1. Len(l) \in Nat \ {0}
    BY DEF NoProducers
<1>2. (when % (Len(l) * producer_repetitions)) \div producer_repetitions + 1 \in 1 .. Len(l)
    BY <1>1, ScheduledInRange, RepetitionsAssumption
<1> QED BY <1>2 DEF get_scheduled_producer

(* The value a third into the sorted list is one of the list's values. *)
LEMMA CalcInRange ==
    ASSUME NEW implied, IsNumbering(implied), NEW n \in Nat,
           \A p \in DOMAIN implied : implied[p] <= n
    PROVE  /\ calc_dpos_last_irreversible(implied) \in Nat
           /\ calc_dpos_last_irreversible(implied) <= n
<1>1. CASE DOMAIN implied = {}
    BY <1>1 DEF calc_dpos_last_irreversible
<1>2. CASE DOMAIN implied # {}
  <2> DEFINE Below(v) == {p \in DOMAIN implied : implied[p] < v}
             third == (Cardinality(DOMAIN implied) - 1) \div 3
             Q == {q \in DOMAIN implied : Cardinality(Below(implied[q])) <= third}
             S == {implied[p] : p \in Q}
             V == {implied[p] : p \in DOMAIN implied}
  <2>1. V \subseteq Nat /\ V # {}
    BY <1>2 DEF IsNumbering
  <2>2. PICK v \in V : \A w \in V : v <= w
    BY <2>1, LeastExists
  <2>3. PICK q \in DOMAIN implied : implied[q] = v
    OBVIOUS
  <2>4. Below(implied[q]) = {}
    BY <2>1, <2>2, <2>3
  <2>5. IsFiniteSet(DOMAIN implied)
    BY FS_Subset, ProducerAssumption DEF IsNumbering
  <2>6. Cardinality(DOMAIN implied) \in Nat \ {0}
    BY <2>5, <1>2, FS_CardinalityType, FS_EmptySet
  <2>7. third \in Nat
    BY <2>6
  <2>8. Cardinality(Below(implied[q])) = 0
    BY <2>4, FS_EmptySet, Zenon
  <2>9. q \in Q /\ Q \subseteq DOMAIN implied
    BY <2>7, <2>8
  <2> HIDE DEF Q
  <2>10. S \subseteq Nat /\ S # {} /\ \A y \in S : y <= n
    BY <2>9 DEF IsNumbering
  <2>11. Max(S) \in S
    BY <2>10, GreatestExists
  <2> QED BY <1>2, <2>10, <2>11 DEF Q, calc_dpos_last_irreversible
<1> QED BY <1>1, <1>2

-----------------------------------------------------------------------------
(* What the steps of a header state do to its fields, and that they keep it
   well-formed.  Bounded is the strengthening that makes the LIB stay below the
   head: the blocks still counted lie above the proposed irreversible one, and
   no producer implies more than that. *)

Bounded(s) ==
    /\ Len(s.confirm_count) + s.proposed_irb <= s.block_num
    /\ \A p \in DOMAIN s.last_implied_irb : s.last_implied_irb[p] <= s.proposed_irb
    /\ s.irb <= s.proposed_irb
    /\ s.irb < s.block_num

(* flat_map assignment keeps a map from producers to block numbers one. *)
LEMMA PutNumbering ==
    ASSUME NEW f, IsNumbering(f), NEW p \in Producer, NEW v \in Nat
    PROVE  IsNumbering(Put(f, p, v))
BY DEF IsNumbering, Put

(* The fields of a generated header state, one by one. *)
LEMMA GenerateNextFields ==
    ASSUME NEW s, IsRecord(s), NEW when
    PROVE  LET t == generate_next(s, when) IN
           /\ IsRecord(t)
           /\ t.block_num = s.block_num + 1
           /\ t.slot = when
           /\ t.producer = get_scheduled_producer(s, when)
           /\ t.confirmed = 1
           /\ t.active_schedule = s.active_schedule
           /\ t.pending_schedule = s.pending_schedule
           /\ t.pending_schedule_lib_num = s.pending_schedule_lib_num
           /\ t.proposed_irb = s.proposed_irb
           /\ t.last_produced = Put(s.last_produced, t.producer, s.block_num + 1)
           /\ t.last_implied_irb = Put(s.last_implied_irb, t.producer, s.proposed_irb)
           /\ t.irb = calc_dpos_last_irreversible(t.last_implied_irb)
           /\ t.confirm_count = Append(
                  IF Len(s.confirm_count) < maximum_tracked_dpos_confirmations
                  THEN s.confirm_count ELSE Tail(s.confirm_count),
                  required_confirmations(Len(s.active_schedule.producers)))
BY DEF IsRecord, HeaderFields, generate_next

(* generate_next keeps header states well formed, and its LIB stays below the new
   block: it is some producer's implied LIB, which was proposed earlier. *)
LEMMA GenerateNextTyped ==
    ASSUME NEW s, IsHeaderState(s), Bounded(s), NEW when \in Nat
    PROVE  LET t == generate_next(s, when) IN
           IsHeaderState(t) /\ Bounded(t) /\ t.producer \in Producer
<1> DEFINE t == generate_next(s, when)
           tracked == IF Len(s.confirm_count) < maximum_tracked_dpos_confirmations
                      THEN s.confirm_count ELSE Tail(s.confirm_count)
           r == required_confirmations(Len(s.active_schedule.producers))
<1>0. IsRecord(s) /\ s.proposed_irb \in Nat /\ s.block_num \in Nat
    BY DEF IsHeaderState
<1>1. /\ IsRecord(t)
      /\ t.block_num = s.block_num + 1
      /\ t.slot = when
      /\ t.producer = get_scheduled_producer(s, when)
      /\ t.confirmed = 1
      /\ t.active_schedule = s.active_schedule
      /\ t.pending_schedule = s.pending_schedule
      /\ t.pending_schedule_lib_num = s.pending_schedule_lib_num
      /\ t.proposed_irb = s.proposed_irb
      /\ t.last_produced = Put(s.last_produced, t.producer, s.block_num + 1)
      /\ t.last_implied_irb = Put(s.last_implied_irb, t.producer, s.proposed_irb)
      /\ t.irb = calc_dpos_last_irreversible(t.last_implied_irb)
      /\ t.confirm_count = Append(tracked, r)
    BY <1>0, GenerateNextFields, Zenon
<1> HIDE DEF t
<1>2. t.producer \in Producer
    BY <1>1, ScheduledIsProducer DEF IsHeaderState, Schedule
<1>3. IsNumbering(t.last_produced)
    BY <1>0, <1>1, <1>2, PutNumbering DEF IsHeaderState
<1>4. IsNumbering(t.last_implied_irb)
    BY <1>0, <1>1, <1>2, PutNumbering DEF IsHeaderState
<1>5. \A p \in DOMAIN t.last_implied_irb : t.last_implied_irb[p] <= s.proposed_irb
    BY <1>0, <1>1 DEF Bounded, Put
<1>6. t.irb \in Nat /\ t.irb <= s.proposed_irb
    BY <1>0, <1>1, <1>4, <1>5, CalcInRange
<1>7. r \in Nat \ {0}
  <2>1. Len(s.active_schedule.producers) \in Nat
    BY DEF IsHeaderState, Schedule
  <2>2. \A n \in Nat : required_confirmations(n) \in Nat \ {0}
    BY DEF required_confirmations
  <2> QED BY <2>1, <2>2
<1>8. tracked \in Seq(Nat \ {0}) /\ Len(tracked) <= Len(s.confirm_count)
    BY TrackedAssumption DEF IsHeaderState
<1> HIDE DEF r, tracked
<1>9. t.confirm_count \in Seq(Nat \ {0}) /\ Len(t.confirm_count) <= Len(s.confirm_count) + 1
    BY <1>1, <1>7, <1>8 DEF IsHeaderState
<1>10. IsHeaderState(t)
  <2>1. /\ t.block_num \in Nat \ {0} /\ t.slot \in Nat /\ t.confirmed \in Nat
        /\ t.proposed_irb \in Nat
    BY <1>0, <1>1
  <2>2. /\ t.active_schedule \in Schedule /\ t.active_schedule.producers # NoProducers
        /\ t.pending_schedule \in Schedule /\ t.pending_schedule_lib_num \in Nat
    BY <1>1 DEF IsHeaderState
  <2> QED BY <1>1, <1>2, <1>3, <1>4, <1>6, <1>9, <2>1, <2>2, Zenon DEF IsHeaderState
<1>11. Bounded(t)
  <2>1. /\ s.proposed_irb \in Nat /\ s.block_num \in Nat
        /\ Len(s.confirm_count) + s.proposed_irb <= s.block_num
        /\ Len(s.confirm_count) \in Nat
    BY DEF Bounded, IsHeaderState
  <2>2. Len(t.confirm_count) \in Nat
    BY <1>9
  <2>3. Len(t.confirm_count) + t.proposed_irb <= t.block_num
    BY <1>1, <1>9, <2>1, <2>2
  <2>4. t.irb <= t.proposed_irb /\ t.irb < t.block_num
    BY <1>1, <1>6, <2>1
  <2> QED BY <1>1, <1>5, <2>3, <2>4 DEF Bounded
<1> QED BY <1>2, <1>10, <1>11 DEF t

(* The fields that set_confirmed changes, and that it changes no other. *)
LEMMA SetConfirmedFields ==
    ASSUME NEW s, IsRecord(s), NEW n
    PROVE  LET t == set_confirmed(s, n)
               stop == walked_to(s.confirm_count, n) IN
           /\ IsRecord(t)
           /\ t.confirmed = n
           /\ t.proposed_irb = IF stop = 0 THEN s.proposed_irb
                               ELSE s.block_num - (Len(s.confirm_count) - stop)
           /\ t.confirm_count = SubSeq(counted_down(s.confirm_count, n), stop + 1,
                                       Len(s.confirm_count))
           /\ \A f \in HeaderFields \ {"confirmed", "proposed_irb", "confirm_count"} : t[f] = s[f]
BY DEF IsRecord, HeaderFields, set_confirmed

(* The walk of set_confirmed stops inside the vector, at an entry that reached
   zero; no entry above it did. *)
LEMMA WalkStops ==
    ASSUME NEW counts \in Seq(Nat \ {0}), NEW n \in Nat
    PROVE  LET stop == walked_to(counts, n) IN
           /\ stop \in 0 .. Len(counts)
           /\ \A i \in stop + 1 .. Len(counts) : i >= Len(counts) - n => counts[i] # 1
<1> DEFINE stop == walked_to(counts, n)
           reached == {i \in 1 .. Len(counts) : i >= Len(counts) - n /\ counts[i] = 1}
<1>0. Len(counts) \in Nat
    OBVIOUS
<1>1. stop \in 0 .. Len(counts) /\ \A i \in reached : i <= stop
  <2>1. stop = IF reached = {} THEN 0 ELSE Max(reached)
    BY DEF walked_to
  <2>2. reached \subseteq Nat /\ \A y \in reached : y <= Len(counts) /\ 1 <= y
    BY <1>0
  <2> HIDE DEF reached, stop
  <2>3. reached # {} => Max(reached) \in reached /\ \A y \in reached : y <= Max(reached)
    BY <1>0, <2>2, GreatestExists
  <2> QED BY <1>0, <2>1, <2>2, <2>3
<1>2. ASSUME NEW i \in stop + 1 .. Len(counts), i >= Len(counts) - n
      PROVE  counts[i] # 1
  <2> HIDE DEF stop
  <2>1. i \in 1 .. Len(counts) /\ ~ (i <= stop)
    BY <1>0, <1>1
  <2>2. i \notin reached
    BY <1>1, <2>1
  <2> QED BY <1>2, <2>1, <2>2
<1> QED BY <1>1, <1>2

(* set_confirmed keeps header states well formed: no counter is left at zero, and
   the proposed irreversible block lies between the old one and the new block. *)
LEMMA SetConfirmedTyped ==
    ASSUME NEW s, IsHeaderState(s), Bounded(s), NEW n \in Nat
    PROVE  LET t == set_confirmed(s, n) IN
           /\ IsHeaderState(t) /\ Bounded(t)
           /\ t.producer = s.producer /\ t.block_num = s.block_num
           /\ t.active_schedule = s.active_schedule
           /\ t.pending_schedule = s.pending_schedule
<1> DEFINE t == set_confirmed(s, n)
           counts == s.confirm_count
           stop == walked_to(counts, n)
           down == counted_down(counts, n)
<1>0. /\ IsRecord(s) /\ s.proposed_irb \in Nat /\ s.block_num \in Nat
      /\ counts \in Seq(Nat \ {0}) /\ Len(counts) \in Nat
      /\ Len(counts) + s.proposed_irb <= s.block_num
      /\ s.irb \in Nat /\ s.irb <= s.proposed_irb /\ s.irb < s.block_num
    BY DEF IsHeaderState, Bounded
<1>1. /\ IsRecord(t)
      /\ t.confirmed = n
      /\ t.proposed_irb = IF stop = 0 THEN s.proposed_irb ELSE s.block_num - (Len(counts) - stop)
      /\ t.confirm_count = SubSeq(down, stop + 1, Len(counts))
      /\ \A f \in HeaderFields \ {"confirmed", "proposed_irb", "confirm_count"} : t[f] = s[f]
    BY <1>0, SetConfirmedFields
<1>2. /\ t.block_num = s.block_num /\ t.slot = s.slot /\ t.producer = s.producer
      /\ t.active_schedule = s.active_schedule /\ t.pending_schedule = s.pending_schedule
      /\ t.pending_schedule_lib_num = s.pending_schedule_lib_num /\ t.irb = s.irb
      /\ t.last_produced = s.last_produced /\ t.last_implied_irb = s.last_implied_irb
    BY <1>1 DEF HeaderFields
<1>3. /\ stop \in 0 .. Len(counts)
      /\ \A i \in stop + 1 .. Len(counts) : i >= Len(counts) - n => counts[i] # 1
    BY <1>0, WalkStops
<1> HIDE DEF t, stop, counts
<1>4. /\ t.proposed_irb \in Nat /\ t.proposed_irb >= s.proposed_irb
      /\ (Len(counts) - stop) + t.proposed_irb <= s.block_num
    BY <1>0, <1>1, <1>3
<1>5. /\ DOMAIN down = 1 .. Len(counts)
      /\ down = [i \in 1 .. Len(counts) |-> down[i]]
      /\ \A i \in 1 .. Len(counts) :
            down[i] = IF i >= Len(counts) - n THEN counts[i] - 1 ELSE counts[i]
    BY <1>0 DEF counted_down
<1>6. \A i \in stop + 1 .. Len(counts) : down[i] \in Nat \ {0}
  <2> TAKE i \in stop + 1 .. Len(counts)
  <2>1. i \in 1 .. Len(counts) /\ counts[i] \in Nat \ {0}
    BY <1>0, <1>3
  <2> QED BY <1>0, <1>3, <1>5, <2>1
<1> HIDE DEF down
<1>8. t.confirm_count \in Seq(Nat \ {0}) /\ Len(t.confirm_count) = Len(counts) - stop
    BY <1>0, <1>1, <1>3, <1>6, SubSeqProperties
<1>9. IsHeaderState(t)
    BY <1>1, <1>2, <1>4, <1>8 DEF IsHeaderState
<1>10. Bounded(t)
  <2>1. \A p \in DOMAIN t.last_implied_irb : t.last_implied_irb[p] <= t.proposed_irb
    BY <1>0, <1>2, <1>4 DEF Bounded, IsHeaderState, IsNumbering
  <2> QED BY <1>0, <1>2, <1>4, <1>8, <2>1 DEF Bounded
<1> QED BY <1>2, <1>9, <1>10 DEF t

(* The maps that a promotion rebuilds are maps from producers to block numbers. *)
LEMMA CarriedNumbering ==
    ASSUME NEW schedule, schedule.producers \in Seq(Producer), NEW old, IsNumbering(old),
           NEW default \in Nat
    PROVE  /\ IsNumbering(Carried(schedule, old, default))
           /\ \A p \in DOMAIN Carried(schedule, old, default) :
                 \/ Carried(schedule, old, default)[p] = default
                 \/ p \in DOMAIN old /\ Carried(schedule, old, default)[p] = old[p]
<1>1. {schedule.producers[i] : i \in DOMAIN schedule.producers} \subseteq Producer
    OBVIOUS
<1> QED BY <1>1 DEF IsNumbering, Carried

(* The fields that a promotion changes, and that it changes no other. *)
LEMMA PromoteFields ==
    ASSUME NEW s, IsRecord(s), will_promote_pending(s)
    PROVE  LET t == maybe_promote_pending(s) IN
           /\ IsRecord(t)
           /\ t.active_schedule = s.pending_schedule
           /\ t.pending_schedule = cleared(s.pending_schedule)
           /\ t.last_produced = Put(Carried(s.pending_schedule, s.last_produced, s.irb),
                                    s.producer, s.block_num)
           /\ t.last_implied_irb = Carried(s.pending_schedule, s.last_implied_irb, s.irb)
           /\ \A f \in HeaderFields \ {"active_schedule", "pending_schedule", "last_produced",
                                        "last_implied_irb"} : t[f] = s[f]
BY DEF IsRecord, HeaderFields, maybe_promote_pending

(* maybe_promote_pending keeps header states well formed, and the version that a
   proposal must follow is the same before and after. *)
LEMMA PromoteTyped ==
    ASSUME NEW s, IsHeaderState(s), Bounded(s), s.producer \in Producer
    PROVE  LET t == maybe_promote_pending(s) IN
           /\ IsHeaderState(t) /\ Bounded(t)
           /\ t.producer = s.producer /\ t.block_num = s.block_num
           /\ t.active_schedule \in {s.active_schedule, s.pending_schedule}
           /\ latest_schedule(t).version = latest_schedule(s).version
<1> DEFINE t == maybe_promote_pending(s)
<1>1. CASE ~ will_promote_pending(s)
    BY <1>1 DEF maybe_promote_pending
<1>2. CASE will_promote_pending(s)
  <2>0. /\ IsRecord(s) /\ s.irb \in Nat /\ s.proposed_irb \in Nat /\ s.block_num \in Nat
        /\ s.pending_schedule \in Schedule /\ s.pending_schedule.producers \in Seq(Producer)
        /\ s.pending_schedule.producers # NoProducers
        /\ IsNumbering(s.last_produced) /\ IsNumbering(s.last_implied_irb)
    BY <1>2 DEF IsHeaderState, Schedule, will_promote_pending
  <2>1. /\ IsRecord(t)
        /\ t.active_schedule = s.pending_schedule
        /\ t.pending_schedule = cleared(s.pending_schedule)
        /\ t.last_produced = Put(Carried(s.pending_schedule, s.last_produced, s.irb),
                                 s.producer, s.block_num)
        /\ t.last_implied_irb = Carried(s.pending_schedule, s.last_implied_irb, s.irb)
        /\ \A f \in HeaderFields \ {"active_schedule", "pending_schedule", "last_produced",
                                     "last_implied_irb"} : t[f] = s[f]
    BY <1>2, <2>0, PromoteFields
  <2>2. /\ t.block_num = s.block_num /\ t.slot = s.slot /\ t.producer = s.producer
        /\ t.confirmed = s.confirmed /\ t.irb = s.irb /\ t.proposed_irb = s.proposed_irb
        /\ t.pending_schedule_lib_num = s.pending_schedule_lib_num
        /\ t.confirm_count = s.confirm_count
    BY <2>1 DEF HeaderFields
  <2> HIDE DEF t
  <2>3. /\ t.pending_schedule \in Schedule /\ t.pending_schedule.producers = NoProducers
        /\ t.pending_schedule.version = s.pending_schedule.version
    BY <2>0, <2>1 DEF cleared, Schedule, NoProducers
  <2>4. IsNumbering(t.last_produced)
  <3>1. IsNumbering(Carried(s.pending_schedule, s.last_produced, s.irb))
    BY <2>0, CarriedNumbering
  <3> QED BY <2>0, <2>1, <3>1, PutNumbering
  <2>5. IsNumbering(t.last_implied_irb)
    BY <2>0, <2>1, CarriedNumbering
  <2>6. \A p \in DOMAIN t.last_implied_irb : t.last_implied_irb[p] <= t.proposed_irb
  <3> DEFINE C == Carried(s.pending_schedule, s.last_implied_irb, s.irb)
  <3>1. \A p \in DOMAIN C : C[p] = s.irb \/ (p \in DOMAIN s.last_implied_irb
                                              /\ C[p] = s.last_implied_irb[p])
    BY <2>0, CarriedNumbering
  <3> QED BY <2>1, <2>2, <3>1 DEF Bounded
  <2>7. IsHeaderState(t)
    BY <2>0, <2>1, <2>2, <2>3, <2>4, <2>5 DEF IsHeaderState
  <2>8. Bounded(t)
    BY <2>2, <2>6 DEF Bounded
  <2>9. latest_schedule(t).version = latest_schedule(s).version
    BY <2>0, <2>1, <2>3 DEF latest_schedule
  <2> QED BY <2>1, <2>2, <2>7, <2>8, <2>9 DEF t
<1> QED BY <1>1, <1>2

(* set_new_producers keeps header states well formed. *)
LEMMA SetNewProducersTyped ==
    ASSUME NEW s, IsHeaderState(s), Bounded(s), NEW schedule \in Schedule
    PROVE  LET t == set_new_producers(s, schedule) IN
           /\ IsHeaderState(t) /\ Bounded(t) /\ t.producer = s.producer
           /\ t.block_num = s.block_num
<1> DEFINE t == set_new_producers(s, schedule)
<1>1. /\ IsRecord(t)
      /\ t.pending_schedule = schedule
      /\ t.pending_schedule_lib_num = s.block_num
      /\ \A f \in HeaderFields \ {"pending_schedule", "pending_schedule_lib_num"} : t[f] = s[f]
    BY DEF IsHeaderState, IsRecord, HeaderFields, set_new_producers
<1>2. /\ t.block_num = s.block_num /\ t.slot = s.slot /\ t.producer = s.producer
      /\ t.confirmed = s.confirmed /\ t.irb = s.irb /\ t.proposed_irb = s.proposed_irb
      /\ t.active_schedule = s.active_schedule /\ t.last_produced = s.last_produced
      /\ t.last_implied_irb = s.last_implied_irb /\ t.confirm_count = s.confirm_count
    BY <1>1 DEF HeaderFields
<1> HIDE DEF t
<1>3. IsHeaderState(t)
    BY <1>1, <1>2 DEF IsHeaderState
<1>4. Bounded(t)
    BY <1>2 DEF Bounded
<1> QED BY <1>2, <1>3, <1>4 DEF t

-----------------------------------------------------------------------------
(* The inductive invariant: the header states of the head and of the pending
   block are well-formed and bounded, and the proposal each of them carries
   follows its own latest schedule. *)

Installable(s, proposals) ==
    \A q \in proposals : q.schedule.version = latest_schedule(s).version + 1

PendingOK(h, b) ==
    /\ Bounded(b.state)
    /\ b.state.producer \in Producer
    /\ b.state.block_num = h.block_num + 1
    /\ Installable(b.state, b.proposed)

Inv ==
    /\ TypeOK
    /\ Bounded(head)
    /\ Installable(head, proposed)
    /\ \A b \in pending : PendingOK(head, b)

(* The genesis state of initialize_fork_db is well formed. *)
LEMMA GenesisTyped ==
    LET g == genesis(initial_schedule, 0) IN IsHeaderState(g) /\ Bounded(g) /\ g.block_num = 1
<1> DEFINE g == genesis(initial_schedule, 0)
<1>1. /\ g.block_num = 1 /\ g.slot = 0 /\ g.producer = NoProducer /\ g.confirmed = 1
      /\ g.active_schedule = initial_schedule /\ g.pending_schedule = initial_schedule
      /\ g.pending_schedule_lib_num = 0 /\ g.proposed_irb = 0 /\ g.irb = 0
      /\ g.last_produced = <<>> /\ g.last_implied_irb = <<>> /\ g.confirm_count = <<>>
    BY DEF genesis
<1>2. IsRecord(g)
    BY DEF genesis, IsRecord, HeaderFields
<1> HIDE DEF g
<1>3. initial_schedule \in Schedule /\ initial_schedule.producers # NoProducers
    BY GenesisAssumption DEF initial_schedule, Schedule, NoProducers
<1>4. IsNumbering(<<>>)
    BY DEF IsNumbering
<1>5. IsHeaderState(g)
    BY <1>1, <1>2, <1>3, <1>4 DEF IsHeaderState
<1>6. Bounded(g)
    BY <1>1 DEF Bounded
<1> QED BY <1>1, <1>5, <1>6 DEF g

(* The invariant holds at genesis. *)
LEMMA InitInv == Init => Inv
<1> SUFFICES ASSUME Init PROVE Inv
    OBVIOUS
<1>1. IsHeaderState(head) /\ Bounded(head) /\ head.block_num = 1
    BY GenesisTyped DEF Init
<1>2. IsNumbering(<<>>)
    BY DEF IsNumbering
<1>3. confirmed_by \in [1 .. 1 -> SUBSET Producer] /\ needed \in Seq(Nat) /\ Len(needed) = 1
    BY DEF Init
<1>4. TypeOK
    BY <1>1, <1>2, <1>3 DEF Init, TypeOK
<1> QED BY <1>1, <1>4 DEF Init, Inv, Installable

(* on_block's look ahead gives watermarks to producer names only. *)
LEMMA InstalledAreProducers ==
    ASSUME NEW s, IsHeaderState(s), Bounded(s)
    PROVE  newly_installed(s) \subseteq Producer
<1> DEFINE t == generate_next(s, s.slot + 1)
           ahead == maybe_promote_pending(t)
<1>1. IsRecord(s) /\ s.slot + 1 \in Nat
    BY DEF IsHeaderState
<1>2. IsHeaderState(t) /\ Bounded(t) /\ t.producer \in Producer
    BY <1>1, GenerateNextTyped
<1>3. IsHeaderState(ahead)
    BY <1>2, PromoteTyped
<1>4. ahead.active_schedule.producers \in Seq(Producer)
    BY <1>3 DEF IsHeaderState, Schedule
<1> HIDE DEF ahead
<1>5. {ahead.active_schedule.producers[i] : i \in DOMAIN ahead.active_schedule.producers}
         \subseteq Producer
    BY <1>4
<1> QED BY <1>5 DEF newly_installed, ahead

(* A step that only replaces the pending block. *)
LEMMA NewPendingInv ==
    ASSUME Inv, UNCHANGED <<head, proposed, watermark, confirmed_by, needed>>,
           NEW CONSTANT b, pending' = {b}, IsHeaderState(b.state), PendingOK(head, b),
           b.new_producers \subseteq Schedule,
           b.proposed \subseteq Proposal, \A q, r \in b.proposed : q = r
    PROVE  Inv'
<1>1. TypeOK'
    BY DEF Inv, TypeOK
<1>2. \A c \in pending' : PendingOK(head', c)
    OBVIOUS
<1>3. Bounded(head') /\ Installable(head', proposed')
    BY DEF Inv
<1> QED BY <1>1, <1>2, <1>3 DEF Inv

(* start_block builds a well-formed block state whose proposal is installable. *)
LEMMA StartBlockInv ==
    ASSUME Inv, NEW skip \in 0 .. MaxSkip, StartBlock(head.slot + 1 + skip)
    PROVE  Inv'
<1> DEFINE when == head.slot + 1 + skip
           template == generate_next(head, when)
           counted == set_confirmed(template, blocks_to_confirm(watermark, template.producer, head.block_num))
           state == maybe_promote_pending(counted)
<1>0. when \in Nat /\ IsHeaderState(head) /\ IsRecord(head) /\ head.block_num \in Nat
    BY BoundsAssumption DEF Inv, TypeOK, IsHeaderState
<1>1. /\ IsHeaderState(template) /\ Bounded(template) /\ template.producer \in Producer
      /\ template.block_num = head.block_num + 1
      /\ template.active_schedule = head.active_schedule
      /\ template.pending_schedule = head.pending_schedule
    BY <1>0, GenerateNextTyped, GenerateNextFields DEF Inv
<1> HIDE DEF template
<1>2. blocks_to_confirm(watermark, template.producer, head.block_num) \in Nat
    BY <1>0, Uint16Assumption, SMTT(30) DEF Inv, TypeOK, IsHeaderState, IsNumbering, blocks_to_confirm
<1>3. /\ IsHeaderState(counted) /\ Bounded(counted) /\ counted.producer \in Producer
      /\ counted.block_num = head.block_num + 1
      /\ latest_schedule(counted) = latest_schedule(head)
    BY <1>1, <1>2, SetConfirmedTyped DEF latest_schedule
<1> HIDE DEF counted
<1>4. /\ IsHeaderState(state) /\ Bounded(state) /\ state.producer \in Producer
      /\ state.block_num = head.block_num + 1
      /\ latest_schedule(state).version = latest_schedule(head).version
    BY <1>3, PromoteTyped
<1> HIDE DEF state
<1>5. UNCHANGED <<head, proposed, watermark, confirmed_by, needed>>
    BY DEF StartBlock
<1>6. proposed \subseteq Proposal /\ \A q, r \in proposed : q = r
    BY DEF Inv, TypeOK
<1>8. \/ pending' = {[state |-> state, new_producers |-> {}, proposed |-> proposed]}
      \/ \E q \in proposed :
            pending' = {[state |-> set_new_producers(state, q.schedule),
                         new_producers |-> {q.schedule}, proposed |-> {}]}
    BY DEF StartBlock, state, counted, template
<1>9. CASE pending' = {[state |-> state, new_producers |-> {}, proposed |-> proposed]}
  <2> DEFINE b == [state |-> state, new_producers |-> {}, proposed |-> proposed]
  <2>1. Installable(state, proposed)
    BY <1>4 DEF Inv, Installable
  <2>2. b.state = state /\ b.new_producers = {} /\ b.proposed = proposed
    OBVIOUS
  <2> HIDE DEF b
  <2>3. PendingOK(head, b)
    BY <1>4, <2>1, <2>2 DEF PendingOK
  <2>4. PICK c : c = b
    OBVIOUS
  <2> QED BY <1>4, <1>5, <1>6, <1>9, <2>2, <2>3, <2>4, NewPendingInv DEF b
<1>10. ASSUME NEW q \in proposed,
              pending' = {[state |-> set_new_producers(state, q.schedule),
                           new_producers |-> {q.schedule}, proposed |-> {}]}
       PROVE  Inv'
  <2> DEFINE t == set_new_producers(state, q.schedule)
             b == [state |-> t, new_producers |-> {q.schedule}, proposed |-> {}]
  <2>1. q.schedule \in Schedule
    BY <1>6 DEF Proposal
  <2>2. /\ IsHeaderState(t) /\ Bounded(t) /\ t.producer \in Producer
        /\ t.block_num = head.block_num + 1
    BY <1>4, <2>1, SetNewProducersTyped
  <2> HIDE DEF t
  <2>3. b.state = t /\ b.new_producers = {q.schedule} /\ b.proposed = {}
    OBVIOUS
  <2> HIDE DEF b
  <2>4. PendingOK(head, b)
    BY <2>2, <2>3 DEF PendingOK, Installable
  <2>5. PICK c : c = b
    OBVIOUS
  <2> QED BY <1>5, <1>10, <2>1, <2>2, <2>3, <2>4, <2>5, NewPendingInv DEF b, t
<1> QED BY <1>8, <1>9, <1>10

(* A new proposal follows the latest schedule of the pending block. *)
LEMMA SetProposedProducersInv ==
    ASSUME Inv, NEW producers \in Schedules, SetProposedProducers(producers)
    PROVE  Inv'
<1> PICK b \in pending :
       pending' = {[state |-> b.state, new_producers |-> b.new_producers,
                    proposed |-> {proposal(head.block_num + 1, latest_schedule(b.state), producers)}]}
    BY DEF SetProposedProducers
<1> DEFINE q == proposal(head.block_num + 1, latest_schedule(b.state), producers)
           c == [state |-> b.state, new_producers |-> b.new_producers, proposed |-> {q}]
<1>1. UNCHANGED <<head, proposed, watermark, confirmed_by, needed>>
    BY DEF SetProposedProducers
<1>2. IsHeaderState(b.state) /\ b.new_producers \subseteq Schedule /\ PendingOK(head, b)
    BY DEF Inv, TypeOK
<1>3. latest_schedule(b.state).version \in Nat
    BY <1>2 DEF IsHeaderState, Schedule, latest_schedule
<1>4. q \in Proposal
  <2>1. producers \in Seq(Producer) /\ head.block_num \in Nat
    BY SchedulesAssumption DEF Inv, TypeOK, IsHeaderState
  <2> QED BY <1>3, <2>1 DEF Proposal, Schedule, proposal
<1>5. q.schedule.version = latest_schedule(b.state).version + 1
    BY DEF proposal
<1>6. pending' = {c} /\ c.state = b.state /\ c.new_producers = b.new_producers /\ c.proposed = {q}
    OBVIOUS
<1> HIDE DEF c, q
<1>7. PendingOK(head, c)
    BY <1>2, <1>5, <1>6 DEF PendingOK, Installable
<1>8. PICK d : d = c
    OBVIOUS
<1> QED BY <1>1, <1>2, <1>4, <1>6, <1>7, <1>8, NewPendingInv

(* The pending block becomes the head. *)
LEMMA CommitBlockInv ==
    ASSUME Inv, CommitBlock
    PROVE  Inv'
<1> PICK b \in pending :
       LET s == b.state
           installed == newly_installed(b.state)
       IN  /\ head' = s
           /\ proposed' = b.proposed
           /\ pending' = {}
           /\ watermark' = [p \in DOMAIN watermark \cup installed \cup {s.producer} |->
                 IF p \in installed \cup {s.producer} THEN s.block_num ELSE watermark[p]]
           /\ confirmed_by' = [n \in 1 .. s.block_num |->
                 (IF n < s.block_num THEN confirmed_by[n] ELSE {})
                    \cup (IF n >= s.block_num - s.confirmed THEN {s.producer} ELSE {})]
           /\ needed' = Append(needed, required_confirmations(Len(head.active_schedule.producers)))
    BY DEF CommitBlock
<1> DEFINE s == b.state
           installed == newly_installed(s)
<1>1. /\ IsHeaderState(s) /\ Bounded(s) /\ s.producer \in Producer
      /\ s.block_num = head.block_num + 1
      /\ b.proposed \subseteq Proposal /\ (\A q, r \in b.proposed : q = r)
      /\ Installable(s, b.proposed)
    BY DEF Inv, TypeOK, PendingOK
<1>2. s.block_num \in Nat /\ head.block_num \in Nat
    BY <1>1 DEF IsHeaderState, Inv, TypeOK
<1>3. IsHeaderState(head') /\ Bounded(head') /\ Installable(head', proposed')
    BY <1>1
<1>4. IsNumbering(watermark')
  <2>1. installed \subseteq Producer
    BY <1>1, InstalledAreProducers
  <2> HIDE DEF installed
  <2> QED BY <1>1, <1>2, <2>1 DEF Inv, TypeOK, IsNumbering, installed
<1>5. confirmed_by' \in [1 .. s.block_num -> SUBSET Producer]
    BY <1>1, <1>2 DEF Inv, TypeOK
<1>6. needed' \in Seq(Nat) /\ Len(needed') = s.block_num
  <2>1. Len(head.active_schedule.producers) \in Nat
    BY DEF Inv, TypeOK, IsHeaderState, Schedule
  <2>2. \A n \in Nat : required_confirmations(n) \in Nat
    BY DEF required_confirmations
  <2>3. needed \in Seq(Nat) /\ Len(needed) = head.block_num
    BY DEF Inv, TypeOK
  <2>4. PICK r \in Nat : needed' = Append(needed, r)
    BY <2>1, <2>2
  <2> QED BY <1>1, <1>2, <2>3, <2>4
<1>7. TypeOK'
    BY <1>1, <1>3, <1>4, <1>5, <1>6 DEF TypeOK
<1> QED BY <1>3, <1>7 DEF Inv

(* A restarted node forgets its watermark and the block it was producing. *)
LEMMA RestartInv ==
    ASSUME Inv, NEW p \in Producer, Restart(p)
    PROVE  Inv'
<1>1. /\ UNCHANGED <<head, proposed, confirmed_by, needed>>
      /\ pending' \subseteq pending
      /\ watermark' = [q \in DOMAIN watermark \ {p} |-> watermark[q]]
    BY DEF Restart
<1>2. IsNumbering(watermark')
    BY <1>1 DEF Inv, TypeOK, IsNumbering
<1>3. TypeOK'
    BY <1>1, <1>2 DEF Inv, TypeOK
<1>4. \A b \in pending' : PendingOK(head', b)
    BY <1>1 DEF Inv
<1>5. Bounded(head') /\ Installable(head', proposed')
    BY <1>1 DEF Inv
<1> QED BY <1>3, <1>4, <1>5 DEF Inv

(* A step that changes nothing keeps the invariant. *)
LEMMA StutterInv == ASSUME Inv, UNCHANGED vars PROVE Inv'
<1>1. TypeOK'
    BY DEF Inv, TypeOK, vars
<1>2. \A b \in pending' : PendingOK(head', b)
    BY DEF Inv, vars
<1>3. Bounded(head') /\ Installable(head', proposed')
    BY DEF Inv, vars
<1> QED BY <1>1, <1>2, <1>3 DEF Inv

(* The invariant is inductive. *)
LEMMA NextInv == Inv /\ [Next]_vars => Inv'
<1> SUFFICES ASSUME Inv, [Next]_vars PROVE Inv'
    OBVIOUS
<1>1. ASSUME NEW skip \in 0 .. MaxSkip, StartBlock(head.slot + 1 + skip) PROVE Inv'
    BY <1>1, StartBlockInv
<1>2. ASSUME NEW producers \in Schedules, SetProposedProducers(producers) PROVE Inv'
    BY <1>2, SetProposedProducersInv
<1>3. CASE CommitBlock
    BY <1>3, CommitBlockInv
<1>4. ASSUME NEW p \in Producer, Restart(p) PROVE Inv'
    BY <1>4, RestartInv
<1>5. CASE UNCHANGED vars
    BY <1>5, StutterInv
<1> QED BY <1>1, <1>2, <1>3, <1>4, <1>5 DEF Next, Done

(* The inductive invariant holds of every reachable state of the chain: heads and
   pending blocks are well formed, their LIB is below them, and whatever is
   proposed can be installed by start_block. *)
THEOREM Invariant == Spec => []Inv
BY InitInv, NextInv, PTL DEF Spec

(* block_header_state keeps its types through every sequence of blocks,
   proposals, promotions and restarts; in particular no counter of
   confirm_count is left at zero, where the next decrement would wrap, and the
   active schedule is never empty, where get_scheduled_producer would divide by
   zero. *)
THEOREM TypeCorrect == Spec => []TypeOK
<1>1. Inv => TypeOK
    BY DEF Inv
<1> QED BY <1>1, Invariant, PTL

(* The LIB of the head stays below the head, whatever schedules are proposed
   and whoever misses slots or restarts: fork_database never prunes the block
   that the next one builds on. *)
THEOREM LibStaysBelowHead == Spec => []LibBelowHead
<1>1. Inv => LibBelowHead
    BY DEF Inv, Bounded, LibBelowHead
<1> QED BY <1>1, Invariant, PTL

(* set_new_producers never throws out of start_block. *)
THEOREM ProposalsInstall == Spec => []ProposedScheduleInstallable
<1>1. Inv => ProposedScheduleInstallable
    BY DEF Inv, Installable, ProposedScheduleInstallable
<1> QED BY <1>1, Invariant, PTL

-----------------------------------------------------------------------------
(* Finality. *)

Members(schedule) == {schedule.producers[i] : i \in DOMAIN schedule.producers}

Below(implied, v) == {p \in DOMAIN implied : implied[p] < v}

(* At most a third, as calc_dpos_last_irreversible counts it, implies less than v. *)
Backed(implied, v) == 3 * Cardinality(Below(implied, v)) <= Cardinality(DOMAIN implied) - 1

-----------------------------------------------------------------------------
(* The LIB that calc_dpos_last_irreversible computes. *)

(* The maps of a header state are finite, and so is what lies below a value. *)
LEMMA BelowFinite ==
    ASSUME NEW implied, IsNumbering(implied), NEW v
    PROVE  /\ IsFiniteSet(DOMAIN implied) /\ Cardinality(DOMAIN implied) \in Nat
           /\ IsFiniteSet(Below(implied, v)) /\ Cardinality(Below(implied, v)) \in Nat
           /\ Cardinality(Below(implied, v)) <= Cardinality(DOMAIN implied)
<1>1. IsFiniteSet(DOMAIN implied)
    BY FS_Subset, ProducerAssumption DEF IsNumbering
<1>2. Below(implied, v) \subseteq DOMAIN implied
    BY DEF Below
<1> QED BY <1>1, <1>2, FS_Subset, FS_CardinalityType

(* calc_dpos_last_irreversible takes the largest value that is backed: the result
   is backed, and no backed value is larger. *)
LEMMA CalcBacked ==
    ASSUME NEW implied, IsNumbering(implied), DOMAIN implied # {}, NEW n \in Nat,
           \A p \in DOMAIN implied : implied[p] <= n
    PROVE  LET v == calc_dpos_last_irreversible(implied) IN
           Backed(implied, v) /\ \A w \in Nat : Backed(implied, w) => w <= v
<1> DEFINE v == calc_dpos_last_irreversible(implied)
           third == (Cardinality(DOMAIN implied) - 1) \div 3
           Q == {q \in DOMAIN implied : Cardinality(Below(implied, implied[q])) <= third}
           S == {implied[p] : p \in Q}
<1>1. v = Max(S)
    BY DEF calc_dpos_last_irreversible, Below
<1>2. Cardinality(DOMAIN implied) \in Nat \ {0}
    BY BelowFinite, FS_EmptySet
<1>3. \A k, c \in Nat : c # 0 => (k <= (c - 1) \div 3 <=> 3 * k <= c - 1)
    OBVIOUS
<1>4. \A w \in Nat : Backed(implied, w) <=> Cardinality(Below(implied, w)) <= third
    BY <1>2, <1>3, BelowFinite DEF Backed
<1> HIDE DEF third
<1>5. S \subseteq Nat /\ \A y \in S : y <= n
    BY DEF IsNumbering
<1>6. ASSUME NEW w \in Nat, Backed(implied, w)
      PROVE  \E y \in S : w <= y
  <2> DEFINE V == {implied[p] : p \in DOMAIN implied \ Below(implied, w)}
  <2>1. Below(implied, w) # DOMAIN implied
    BY <1>2, <1>6 DEF Backed
  <2>2. V \subseteq Nat /\ V # {} /\ \A y \in V : w <= y
    BY <2>1 DEF Below, IsNumbering
  <2>3. PICK y \in V : \A z \in V : y <= z
    BY <2>2, LeastExists
  <2>4. PICK q \in DOMAIN implied : implied[q] = y /\ w <= y
    BY <2>2, <2>3
  <2>5. Below(implied, y) = Below(implied, w)
  <3>1. ASSUME NEW p \in DOMAIN implied, implied[p] < y, ~ (implied[p] < w) PROVE FALSE
    <4>1. implied[p] \in V
      BY <3>1 DEF Below
    <4> QED BY <2>2, <2>3, <3>1, <4>1
  <3>2. \A p \in DOMAIN implied : implied[p] < w => implied[p] < y
    BY <2>2, <2>4 DEF IsNumbering
  <3> QED BY <3>1, <3>2 DEF Below
  <2>6. q \in Q
    BY <1>4, <1>6, <2>4, <2>5
  <2> QED BY <2>4, <2>6
<1>7. Below(implied, 0) = {}
    BY DEF Below, IsNumbering
<1>8. Backed(implied, 0)
    BY <1>2, <1>7, FS_EmptySet DEF Backed
<1>9. S # {}
    BY <1>6, <1>8
<1>10. v \in S /\ \A y \in S : y <= v
    BY <1>1, <1>5, <1>9, GreatestExists
<1>11. Backed(implied, v)
  <2>1. PICK q \in Q : v = implied[q]
    BY <1>10
  <2>2. v \in Nat
    BY <1>5, <1>10
  <2> QED BY <1>4, <2>1, <2>2
<1>12. ASSUME NEW w \in Nat, Backed(implied, w) PROVE w <= v
  <2>1. PICK y \in S : w <= y
    BY <1>6, <1>12
  <2> QED BY <1>5, <1>10, <2>1
<1> HIDE DEF v
<1> QED BY <1>11, <1>12 DEF v

(* Fewer members below a value, of at least as many: still backed. *)
LEMMA BackedMonotone ==
    ASSUME NEW f, IsNumbering(f), NEW g, IsNumbering(g), NEW v, Backed(f, v),
           Below(g, v) \subseteq Below(f, v), Cardinality(DOMAIN f) <= Cardinality(DOMAIN g)
    PROVE  Backed(g, v)
<1>1. Cardinality(Below(g, v)) <= Cardinality(Below(f, v))
    BY BelowFinite, FS_Subset
<1>2. /\ Cardinality(Below(f, v)) \in Nat /\ Cardinality(Below(g, v)) \in Nat
      /\ Cardinality(DOMAIN f) \in Nat /\ Cardinality(DOMAIN g) \in Nat
    BY BelowFinite
<1> QED BY <1>1, <1>2 DEF Backed

-----------------------------------------------------------------------------
(* The quorum behind the LIB.  The members of the active schedule are the ones
   whose implied LIBs count (before the first block nobody is), and the LIB is
   backed by them. *)

Voting(s) ==
    \/ /\ DOMAIN s.last_implied_irb = {} /\ s.irb = 0
       /\ s.active_schedule = initial_schedule
    \/ /\ DOMAIN s.last_implied_irb = Members(s.active_schedule)
       /\ Backed(s.last_implied_irb, s.irb)

(* Schedules name every producer once, so they have as many members as entries. *)
Distinct(l) == \A i, j \in DOMAIN l : l[i] = l[j] => i = j

LEMMA MembersCounted ==
    ASSUME NEW l \in Seq(Producer), Distinct(l), NEW schedule, schedule.producers = l
    PROVE  Cardinality(Members(schedule)) = Len(l)
<1>1. l \in Bijection(1 .. Len(l), Members(schedule))
    BY DEF Distinct, Members, Bijection, Injection, Surjection, IsInjective
<1>2. Len(l) \in Nat /\ 1 \in Int /\ Len(l) \in Int
    OBVIOUS
<1>3. IsFiniteSet(1 .. Len(l)) /\ Cardinality(1 .. Len(l)) = Len(l)
    BY <1>2, FS_Interval, SMTT(30)
<1>4. ExistsBijection(1 .. Len(l), Members(schedule))
    BY <1>1 DEF ExistsBijection
<1> QED BY <1>3, <1>4, FS_Bijection

(* The initial schedule has one member. *)
LEMMA InitialMembers == Members(initial_schedule) = {Genesis}
<1>1. initial_schedule.producers = <<Genesis>>
    BY DEF initial_schedule
<1>2. DOMAIN <<Genesis>> = {1} /\ <<Genesis>>[1] = Genesis
    OBVIOUS
<1> QED BY <1>1, <1>2, Zenon DEF Members

(* The producer of a slot is a member of the active schedule. *)
LEMMA ScheduledIsMember ==
    ASSUME NEW s, NEW when \in Nat,
           s.active_schedule.producers \in Seq(Producer),
           s.active_schedule.producers # NoProducers
    PROVE  get_scheduled_producer(s, when) \in Members(s.active_schedule)
<1> DEFINE l == s.active_schedule.producers
<1>1. Len(l) \in Nat \ {0}
    BY DEF NoProducers
<1>2. (when % (Len(l) * producer_repetitions)) \div producer_repetitions + 1 \in 1 .. Len(l)
    BY <1>1, ScheduledInRange, RepetitionsAssumption
<1> QED BY <1>2 DEF get_scheduled_producer, Members

(* A producer's new block raises its implied LIB, so the LIB does not fall. *)
LEMMA GenerateNextVoting ==
    ASSUME NEW s, IsHeaderState(s), Bounded(s), Voting(s), NEW when \in Nat
    PROVE  LET t == generate_next(s, when) IN
           /\ DOMAIN t.last_implied_irb = Members(t.active_schedule)
           /\ Backed(t.last_implied_irb, t.irb)
           /\ t.irb >= s.irb
<1> DEFINE t == generate_next(s, when)
<1>1. /\ IsRecord(s) /\ s.proposed_irb \in Nat /\ s.irb \in Nat /\ s.irb <= s.proposed_irb
      /\ IsNumbering(s.last_implied_irb)
    BY DEF IsHeaderState, Bounded
<1>2. /\ IsHeaderState(t) /\ Bounded(t) /\ t.producer \in Producer
    BY GenerateNextTyped
<1>3. /\ t.producer = get_scheduled_producer(s, when)
      /\ t.active_schedule = s.active_schedule
      /\ t.proposed_irb = s.proposed_irb
      /\ t.last_implied_irb = Put(s.last_implied_irb, t.producer, s.proposed_irb)
      /\ t.irb = calc_dpos_last_irreversible(t.last_implied_irb)
    BY <1>1, GenerateNextFields
<1> HIDE DEF t
<1>4. t.producer \in Members(s.active_schedule)
    BY <1>3, ScheduledIsMember DEF IsHeaderState, Schedule
<1>5. DOMAIN t.last_implied_irb = DOMAIN s.last_implied_irb \cup {t.producer}
    BY <1>3 DEF Put
<1>6. DOMAIN t.last_implied_irb = Members(t.active_schedule)
  <2>1. CASE DOMAIN s.last_implied_irb = {} /\ s.active_schedule = initial_schedule
    <3>1. Members(s.active_schedule) = {Genesis}
      BY <2>1, InitialMembers
    <3> QED BY <1>3, <1>4, <1>5, <2>1, <3>1
  <2>2. CASE DOMAIN s.last_implied_irb = Members(s.active_schedule)
    BY <1>3, <1>4, <1>5, <2>2
  <2> QED BY <2>1, <2>2 DEF Voting
<1>7. IsNumbering(t.last_implied_irb) /\ DOMAIN t.last_implied_irb # {}
    BY <1>2, <1>5 DEF IsHeaderState
<1>8. \A p \in DOMAIN t.last_implied_irb : t.last_implied_irb[p] <= t.proposed_irb
    BY <1>2 DEF Bounded
<1>9. /\ Backed(t.last_implied_irb, t.irb)
      /\ \A w \in Nat : Backed(t.last_implied_irb, w) => w <= t.irb
    BY <1>1, <1>3, <1>7, <1>8, CalcBacked
<1>10. t.irb \in Nat
    BY <1>2 DEF IsHeaderState
<1>11. CASE s.irb = 0
    BY <1>6, <1>9, <1>10, <1>11 DEF t
<1>12. CASE DOMAIN s.last_implied_irb = Members(s.active_schedule) /\ Backed(s.last_implied_irb, s.irb)
  <2>1. DOMAIN t.last_implied_irb = DOMAIN s.last_implied_irb
    BY <1>3, <1>6, <1>12
  <2>2. Below(t.last_implied_irb, s.irb) \subseteq Below(s.last_implied_irb, s.irb)
    BY <1>1, <1>3, <2>1 DEF Below, Put
  <2>3. Cardinality(DOMAIN s.last_implied_irb) <= Cardinality(DOMAIN t.last_implied_irb)
    BY <1>1, <2>1, BelowFinite
  <2>4. Backed(t.last_implied_irb, s.irb)
    BY <1>1, <1>7, <1>12, <2>2, <2>3, BackedMonotone
  <2> QED BY <1>1, <1>6, <1>9, <1>10, <2>4 DEF t
<1> QED BY <1>11, <1>12 DEF Voting

(* A promotion to a schedule that is not smaller keeps the LIB backed: members
   that stay keep what they implied, new ones start at the LIB. *)
LEMMA PromoteVoting ==
    ASSUME NEW s, IsHeaderState(s), Bounded(s), s.producer \in Producer,
           DOMAIN s.last_implied_irb = Members(s.active_schedule),
           Backed(s.last_implied_irb, s.irb),
           Distinct(s.active_schedule.producers), Distinct(s.pending_schedule.producers),
           s.pending_schedule.producers # NoProducers
               => Len(s.active_schedule.producers) <= Len(s.pending_schedule.producers)
    PROVE  LET t == maybe_promote_pending(s) IN
           /\ DOMAIN t.last_implied_irb = Members(t.active_schedule)
           /\ Backed(t.last_implied_irb, t.irb)
           /\ t.irb = s.irb
<1> DEFINE t == maybe_promote_pending(s)
<1>1. CASE ~ will_promote_pending(s)
    BY <1>1 DEF maybe_promote_pending
<1>2. CASE will_promote_pending(s)
  <2>0. /\ IsRecord(s) /\ s.irb \in Nat
        /\ s.active_schedule.producers \in Seq(Producer)
        /\ s.pending_schedule.producers \in Seq(Producer)
        /\ s.pending_schedule.producers # NoProducers
        /\ IsNumbering(s.last_implied_irb)
    BY <1>2 DEF IsHeaderState, Schedule, will_promote_pending
  <2>1. /\ t.active_schedule = s.pending_schedule
        /\ t.last_implied_irb = Carried(s.pending_schedule, s.last_implied_irb, s.irb)
        /\ t.irb = s.irb
    BY <1>2, <2>0, PromoteFields DEF HeaderFields
  <2>2. IsNumbering(t.last_implied_irb)
    BY PromoteTyped DEF IsHeaderState
  <2> HIDE DEF t
  <2>3. DOMAIN t.last_implied_irb = Members(t.active_schedule)
    BY <2>1 DEF Carried, Members
  <2>4. Below(t.last_implied_irb, s.irb) \subseteq Below(s.last_implied_irb, s.irb)
    BY <2>0, <2>1 DEF Below, Carried
  <2>5. /\ Cardinality(DOMAIN s.last_implied_irb) = Len(s.active_schedule.producers)
        /\ Cardinality(DOMAIN t.last_implied_irb) = Len(s.pending_schedule.producers)
    BY <2>0, <2>1, <2>3, MembersCounted
  <2>6. Backed(t.last_implied_irb, s.irb)
    BY <2>0, <2>2, <2>4, <2>5, BackedMonotone
  <2> QED BY <2>1, <2>3, <2>6 DEF t
<1> QED BY <1>1, <1>2

(* The schedules of a header state come from the contracts' proposals; only the
   initial one does not, and it is never pending after another one. *)
InPlay(s, proposals) ==
    /\ s.active_schedule.producers \in Schedules \cup {<<Genesis>>}
    /\ \/ s.pending_schedule.producers \in Schedules \cup {NoProducers}
       \/ /\ s.pending_schedule.producers = <<Genesis>>
          /\ s.active_schedule.producers = <<Genesis>>
    /\ \A q \in proposals : q.schedule.producers \in Schedules

(* ActiveScheduleIrreversible, of any header state. *)
Settled(s) ==
    s.pending_schedule.version = s.active_schedule.version => s.irb >= s.pending_schedule_lib_num

(* All schedules that are proposed have one size; an empty proposal never becomes
   active.  Nothing in update_elected_producers_yta sees to it, and headers_shrinking
   shows what happens without it. *)
EqualSizes ==
    \A l, m \in Schedules : l # NoProducers /\ m # NoProducers => Len(l) = Len(m)

(* Under EqualSizes the pending schedule is not smaller than the active one. *)
LEMMA SchedulesGrow ==
    ASSUME EqualSizes, NEW s, IsHeaderState(s), InPlay(s, {})
    PROVE  /\ Distinct(s.active_schedule.producers) /\ Distinct(s.pending_schedule.producers)
           /\ s.pending_schedule.producers # NoProducers
                 => Len(s.active_schedule.producers) <= Len(s.pending_schedule.producers)
<1> DEFINE a == s.active_schedule.producers
           w == s.pending_schedule.producers
<1>1. /\ a \in Seq(Producer) /\ w \in Seq(Producer) /\ a # NoProducers
      /\ Len(a) \in Nat /\ Len(w) \in Nat
    BY DEF IsHeaderState, Schedule
<1>2. Distinct(NoProducers) /\ Distinct(<<Genesis>>) /\ Len(<<Genesis>>) = 1
    BY DEF Distinct, NoProducers
<1>3. \A l \in Schedules : Distinct(l)
    BY SchedulesAssumption DEF Distinct
<1>4. a \in Schedules \cup {<<Genesis>>}
      /\ (w \in Schedules \cup {NoProducers} \/ (w = <<Genesis>> /\ a = <<Genesis>>))
    BY DEF InPlay
<1> HIDE DEF a, w
<1>5. Distinct(a) /\ Distinct(w)
    BY <1>2, <1>3, <1>4
<1>6. w # NoProducers => Len(w) >= 1
    BY <1>1 DEF NoProducers
<1>7. w # NoProducers => Len(a) <= Len(w)
  <2>1. CASE a = <<Genesis>>
    BY <1>1, <1>2, <1>6, <2>1
  <2>2. CASE a \in Schedules /\ a # <<Genesis>> /\ w \in Schedules
    BY <1>1, <2>2 DEF EqualSizes
  <2> QED BY <1>4, <2>1, <2>2
<1> QED BY <1>5, <1>7 DEF a, w

(* A block built on s, before it installs a new proposal: its LIB is backed, not
   below that of s, and at or above the block that brought the active schedule. *)
LEMMA BuiltVoting ==
    ASSUME EqualSizes, NEW s, IsHeaderState(s), Bounded(s), InPlay(s, {}), Voting(s), Settled(s),
           NEW when \in Nat, NEW n \in Nat
    PROVE  LET state == maybe_promote_pending(set_confirmed(generate_next(s, when), n)) IN
           InPlay(state, {}) /\ Voting(state) /\ Settled(state) /\ state.irb >= s.irb
<1> DEFINE template == generate_next(s, when)
           counted == set_confirmed(template, n)
           state == maybe_promote_pending(counted)
<1>0. IsRecord(s)
    BY DEF IsHeaderState
<1>1. /\ IsHeaderState(template) /\ Bounded(template) /\ template.producer \in Producer
    BY GenerateNextTyped
<1>2. /\ DOMAIN template.last_implied_irb = Members(template.active_schedule)
      /\ Backed(template.last_implied_irb, template.irb)
      /\ template.irb >= s.irb
    BY GenerateNextVoting
<1>3. /\ template.active_schedule = s.active_schedule
      /\ template.pending_schedule = s.pending_schedule
      /\ template.pending_schedule_lib_num = s.pending_schedule_lib_num
    BY <1>0, GenerateNextFields
<1> HIDE DEF template
<1>4. /\ IsHeaderState(counted) /\ Bounded(counted) /\ counted.producer \in Producer
    BY <1>1, SetConfirmedTyped
<1>5. /\ counted.active_schedule = s.active_schedule
      /\ counted.pending_schedule = s.pending_schedule
      /\ counted.pending_schedule_lib_num = s.pending_schedule_lib_num
      /\ counted.irb = template.irb /\ counted.last_implied_irb = template.last_implied_irb
  <2>1. IsRecord(template)
    BY <1>1 DEF IsHeaderState
  <2> QED BY <1>3, <2>1, SetConfirmedFields DEF HeaderFields
<1> HIDE DEF counted
<1>6. InPlay(counted, {})
    BY <1>5 DEF InPlay
<1>7. /\ Distinct(counted.active_schedule.producers)
      /\ Distinct(counted.pending_schedule.producers)
      /\ counted.pending_schedule.producers # NoProducers
            => Len(counted.active_schedule.producers) <= Len(counted.pending_schedule.producers)
    BY <1>4, <1>6, SchedulesGrow
<1>8. /\ DOMAIN state.last_implied_irb = Members(state.active_schedule)
      /\ Backed(state.last_implied_irb, state.irb)
      /\ state.irb = template.irb
    BY <1>2, <1>3, <1>4, <1>5, <1>7, PromoteVoting
<1>9. InPlay(state, {}) /\ Settled(state)
  <2>1. CASE ~ will_promote_pending(counted)
    <3>1. state = counted
      BY <2>1 DEF maybe_promote_pending
    <3>2. s.irb \in Nat /\ template.irb \in Nat /\ s.pending_schedule_lib_num \in Nat
      BY <1>1 DEF IsHeaderState
    <3> QED BY <1>2, <1>5, <1>6, <3>1, <3>2 DEF Settled
  <2>2. CASE will_promote_pending(counted)
    <3>1. IsRecord(counted)
      BY <1>4 DEF IsHeaderState
    <3>2. /\ state.active_schedule = counted.pending_schedule
          /\ state.pending_schedule = cleared(counted.pending_schedule)
          /\ state.pending_schedule_lib_num = counted.pending_schedule_lib_num
          /\ state.irb = counted.irb
      BY <2>2, <3>1, PromoteFields DEF HeaderFields
    <3> HIDE DEF state
    <3>3. state.pending_schedule.producers = NoProducers
      BY <3>2 DEF cleared
    <3> QED BY <1>6, <2>2, <3>2, <3>3 DEF InPlay, Settled, will_promote_pending
  <2> QED BY <2>1, <2>2
<1>10. Voting(state)
    BY <1>8 DEF Voting
<1> QED BY <1>2, <1>8, <1>9, <1>10 DEF template, counted

-----------------------------------------------------------------------------
(* What start_block puts in the pending block. *)

(* The states that start_block goes through are well formed, and its result is the
   last of them or the one that installs the proposed schedule. *)
LEMMA StartBlockShape ==
    ASSUME Inv, NEW skip \in 0 .. MaxSkip, StartBlock(head.slot + 1 + skip)
    PROVE  LET when == head.slot + 1 + skip
               template == generate_next(head, when)
               n == blocks_to_confirm(watermark, template.producer, head.block_num)
               counted == set_confirmed(template, n)
               state == maybe_promote_pending(counted)
           IN  /\ UNCHANGED <<head, proposed, watermark, confirmed_by, needed>>
               /\ when \in Nat /\ n \in Nat
               /\ IsHeaderState(template) /\ Bounded(template) /\ template.producer \in Producer
               /\ IsHeaderState(counted) /\ Bounded(counted)
               /\ counted.producer = template.producer
               /\ IsHeaderState(state) /\ Bounded(state)
               /\ \E b : /\ pending' = {b}
                         /\ \/ /\ b.state = state /\ b.new_producers = {}
                               /\ b.proposed = proposed
                            \/ \E q \in proposed :
                                  /\ ~ will_promote_pending(counted)
                                  /\ can_set_new_producers(state, q.schedule)
                                  /\ b.state = set_new_producers(state, q.schedule)
                                  /\ b.new_producers = {q.schedule} /\ b.proposed = {}
<1> DEFINE when == head.slot + 1 + skip
           template == generate_next(head, when)
           n == blocks_to_confirm(watermark, template.producer, head.block_num)
           counted == set_confirmed(template, n)
           state == maybe_promote_pending(counted)
<1>0. when \in Nat /\ IsHeaderState(head) /\ Bounded(head) /\ head.block_num \in Nat
    BY BoundsAssumption DEF Inv, TypeOK, IsHeaderState
<1>1. IsHeaderState(template) /\ Bounded(template) /\ template.producer \in Producer
    BY <1>0, GenerateNextTyped
<1> HIDE DEF template
<1>2. n \in Nat
    BY <1>0, Uint16Assumption, SMTT(30) DEF Inv, TypeOK, IsHeaderState, IsNumbering, blocks_to_confirm
<1> HIDE DEF n
<1>3. IsHeaderState(counted) /\ Bounded(counted) /\ counted.producer = template.producer
    BY <1>1, <1>2, SetConfirmedTyped
<1> HIDE DEF counted
<1>4. IsHeaderState(state) /\ Bounded(state)
    BY <1>1, <1>3, PromoteTyped
<1> HIDE DEF state
<1>5. UNCHANGED <<head, proposed, watermark, confirmed_by, needed>>
    BY DEF StartBlock
<1>6. \/ pending' = {[state |-> state, new_producers |-> {}, proposed |-> proposed]}
      \/ \E q \in proposed :
            /\ ~ will_promote_pending(counted) /\ can_set_new_producers(state, q.schedule)
            /\ pending' = {[state |-> set_new_producers(state, q.schedule),
                            new_producers |-> {q.schedule}, proposed |-> {}]}
    BY DEF StartBlock, promotes_proposed, state, counted, n, template
<1>7. \E b : /\ pending' = {b}
             /\ \/ b.state = state /\ b.new_producers = {} /\ b.proposed = proposed
                \/ \E q \in proposed :
                      /\ ~ will_promote_pending(counted)
                      /\ can_set_new_producers(state, q.schedule)
                      /\ b.state = set_new_producers(state, q.schedule)
                      /\ b.new_producers = {q.schedule} /\ b.proposed = {}
  <2>1. CASE pending' = {[state |-> state, new_producers |-> {}, proposed |-> proposed]}
    <3> WITNESS [state |-> state, new_producers |-> {}, proposed |-> proposed]
    <3> QED BY <2>1
  <2>2. ASSUME NEW q \in proposed,
               ~ will_promote_pending(counted), can_set_new_producers(state, q.schedule),
               pending' = {[state |-> set_new_producers(state, q.schedule),
                            new_producers |-> {q.schedule}, proposed |-> {}]}
        PROVE  \E b : /\ pending' = {b}
                      /\ \E r \in proposed :
                            /\ ~ will_promote_pending(counted)
                            /\ can_set_new_producers(state, r.schedule)
                            /\ b.state = set_new_producers(state, r.schedule)
                            /\ b.new_producers = {r.schedule} /\ b.proposed = {}
    <3> WITNESS [state |-> set_new_producers(state, q.schedule),
                 new_producers |-> {q.schedule}, proposed |-> {}]
    <3> QED BY <2>2
  <2> QED BY <1>6, <2>1, <2>2
<1> QED BY <1>0, <1>1, <1>2, <1>3, <1>4, <1>5, <1>7 DEF state, counted, n, template

(* The fields that set_new_producers sets, and that it changes no other. *)
LEMMA SetNewProducersFields ==
    ASSUME NEW s, IsRecord(s), NEW schedule
    PROVE  LET t == set_new_producers(s, schedule) IN
           /\ t.pending_schedule = schedule
           /\ t.pending_schedule_lib_num = s.block_num
           /\ \A f \in HeaderFields \ {"pending_schedule", "pending_schedule_lib_num"} : t[f] = s[f]
BY DEF IsRecord, HeaderFields, set_new_producers

(* The block that set_proposed_producers leaves pending. *)
LEMMA SetProposedShape ==
    ASSUME Inv, NEW producers \in Schedules, SetProposedProducers(producers)
    PROVE  /\ UNCHANGED <<head, proposed, watermark, confirmed_by, needed>>
           /\ \E b \in pending : \E c :
                 /\ pending' = {c} /\ c.state = b.state /\ c.new_producers = b.new_producers
                 /\ \A q \in c.proposed : q.schedule.producers = producers
<1>1. UNCHANGED <<head, proposed, watermark, confirmed_by, needed>>
    BY DEF SetProposedProducers
<1>2. PICK b \in pending :
         pending' = {[state |-> b.state, new_producers |-> b.new_producers,
                      proposed |-> {proposal(head.block_num + 1, latest_schedule(b.state), producers)}]}
    BY DEF SetProposedProducers
<1> DEFINE q == proposal(head.block_num + 1, latest_schedule(b.state), producers)
           c == [state |-> b.state, new_producers |-> b.new_producers, proposed |-> {q}]
<1>3. q.schedule.producers = producers
    BY DEF proposal
<1>4. pending' = {c} /\ c.state = b.state /\ c.new_producers = b.new_producers /\ c.proposed = {q}
    BY <1>2
<1> HIDE DEF c, q
<1> QED BY <1>1, <1>3, <1>4

-----------------------------------------------------------------------------
(* The invariant behind the LIB. *)

LibState(s, proposals) == InPlay(s, proposals) /\ Voting(s) /\ Settled(s)

LibInv ==
    /\ Inv
    /\ LibState(head, proposed)
    /\ \A b \in pending : LibState(b.state, b.proposed) /\ b.state.irb >= head.irb

(* It holds at genesis. *)
LEMMA LibInit == Init => LibInv
<1> SUFFICES ASSUME Init PROVE LibInv
    OBVIOUS
<1>1. /\ head.active_schedule = initial_schedule /\ head.pending_schedule = initial_schedule
      /\ head.pending_schedule_lib_num = 0 /\ head.irb = 0 /\ head.last_implied_irb = <<>>
    BY DEF Init, genesis
<1>2. initial_schedule.producers = <<Genesis>>
    BY DEF initial_schedule
<1>3. InPlay(head, proposed)
    BY <1>1, <1>2 DEF InPlay, Init
<1>4. Voting(head)
  <2>1. DOMAIN head.last_implied_irb = {}
    BY <1>1
  <2> QED BY <1>1, <2>1 DEF Voting
<1>5. Settled(head)
    BY <1>1 DEF Settled
<1>6. pending = {}
    BY DEF Init
<1> QED BY <1>3, <1>4, <1>5, <1>6, InitInv DEF LibInv, LibState

(* start_block. *)
LEMMA LibStartBlock ==
    ASSUME EqualSizes, LibInv, NEW skip \in 0 .. MaxSkip, StartBlock(head.slot + 1 + skip)
    PROVE  LibInv'
<1> DEFINE when == head.slot + 1 + skip
           template == generate_next(head, when)
           n == blocks_to_confirm(watermark, template.producer, head.block_num)
           counted == set_confirmed(template, n)
           state == maybe_promote_pending(counted)
<1>0. Inv /\ Inv'
    BY StartBlockInv DEF LibInv
<1>1. /\ UNCHANGED <<head, proposed, watermark, confirmed_by, needed>>
      /\ when \in Nat /\ n \in Nat
      /\ IsHeaderState(state)
    BY <1>0, StartBlockShape
<1>2. PICK b : /\ pending' = {b}
               /\ \/ b.state = state /\ b.new_producers = {} /\ b.proposed = proposed
                  \/ \E q \in proposed :
                        /\ can_set_new_producers(state, q.schedule)
                        /\ b.state = set_new_producers(state, q.schedule)
                        /\ b.proposed = {}
    BY <1>0, StartBlockShape
<1>3. IsHeaderState(head) /\ Bounded(head)
    BY <1>0 DEF Inv, TypeOK
<1>4. InPlay(head, {}) /\ Voting(head) /\ Settled(head) /\ InPlay(head, proposed)
    BY DEF LibInv, LibState, InPlay
<1>5. InPlay(state, {}) /\ Voting(state) /\ Settled(state) /\ state.irb >= head.irb
    BY <1>1, <1>3, <1>4, BuiltVoting
<1> HIDE DEF state
<1>6. CASE b.state = state /\ b.new_producers = {} /\ b.proposed = proposed
  <2>1. LibState(b.state, b.proposed) /\ b.state.irb >= head.irb
    BY <1>4, <1>5, <1>6 DEF LibState, InPlay
  <2> QED BY <1>0, <1>1, <1>2, <2>1 DEF LibInv
<1>7. ASSUME NEW q \in proposed, can_set_new_producers(state, q.schedule),
             b.state = set_new_producers(state, q.schedule), b.proposed = {}
      PROVE  LibInv'
  <2>1. /\ b.state.pending_schedule = q.schedule
        /\ b.state.active_schedule = state.active_schedule
        /\ b.state.irb = state.irb
        /\ b.state.last_implied_irb = state.last_implied_irb
    <3>1. IsRecord(state)
      BY <1>1 DEF IsHeaderState
    <3> QED BY <1>7, <3>1, SetNewProducersFields DEF HeaderFields
  <2>2. InPlay(b.state, b.proposed)
    BY <1>4, <1>5, <1>7, <2>1 DEF InPlay
  <2>3. Voting(b.state)
    BY <1>5, <2>1 DEF Voting
  <2>4. Settled(b.state)
    BY <1>1, <1>7, <2>1 DEF Settled, can_set_new_producers, IsHeaderState, Schedule
  <2>5. LibState(b.state, b.proposed) /\ b.state.irb >= head.irb
    BY <1>5, <2>1, <2>2, <2>3, <2>4 DEF LibState
  <2> QED BY <1>0, <1>1, <1>2, <2>5 DEF LibInv
<1> QED BY <1>2, <1>6, <1>7

(* The invariant is inductive when schedules do not shrink. *)
LEMMA LibNext == ASSUME EqualSizes, LibInv, [Next]_vars PROVE LibInv'
<1>0. Inv /\ Inv'
    BY NextInv DEF LibInv
<1>1. ASSUME NEW skip \in 0 .. MaxSkip, StartBlock(head.slot + 1 + skip) PROVE LibInv'
    BY <1>1, LibStartBlock
<1>2. ASSUME NEW producers \in Schedules, SetProposedProducers(producers) PROVE LibInv'
  <2>1. UNCHANGED <<head, proposed>>
    BY <1>0, <1>2, SetProposedShape
  <2>2. PICK b, c :
           /\ b \in pending
           /\ pending' = {c} /\ c.state = b.state
           /\ \A q \in c.proposed : q.schedule.producers = producers
    BY <1>0, <1>2, SetProposedShape
  <2>3. LibState(c.state, c.proposed) /\ c.state.irb >= head.irb
    BY <2>2 DEF LibInv, LibState, InPlay
  <2> QED BY <1>0, <2>1, <2>2, <2>3 DEF LibInv
<1>3. CASE CommitBlock
  <2>1. PICK b \in pending : head' = b.state /\ proposed' = b.proposed /\ pending' = {}
    BY <1>3 DEF CommitBlock
  <2> QED BY <1>0, <2>1 DEF LibInv
<1>4. ASSUME NEW p \in Producer, Restart(p) PROVE LibInv'
  <2>1. UNCHANGED <<head, proposed>> /\ pending' \subseteq pending
    BY <1>4 DEF Restart
  <2> QED BY <1>0, <2>1 DEF LibInv
<1>5. CASE UNCHANGED vars
    BY <1>0, <1>5 DEF LibInv, vars
<1> QED BY <1>1, <1>2, <1>3, <1>4, <1>5 DEF Next, Done

(* The quorum that QuorumBehindLib asks for is what Backed counts. *)
LEMMA BackedIsQuorum ==
    ASSUME NEW implied, IsNumbering(implied), NEW v \in Nat, Backed(implied, v)
    PROVE  Cardinality({p \in DOMAIN implied : implied[p] >= v})
               >= required_confirmations(Cardinality(DOMAIN implied))
<1> DEFINE D == DOMAIN implied
           B == Below(implied, v)
           A == {p \in D : implied[p] >= v}
<1>1. /\ IsFiniteSet(D) /\ Cardinality(D) \in Nat
      /\ IsFiniteSet(B) /\ Cardinality(B) \in Nat
    BY BelowFinite
<1>2. A = D \ B /\ D \cap B = B
    BY DEF Below, IsNumbering
<1>3. Cardinality(A) = Cardinality(D) - Cardinality(B)
    BY <1>1, <1>2, FS_Difference
<1>4. 3 * Cardinality(B) <= Cardinality(D) - 1
    BY DEF Backed
<1>5. \A b, n \in Nat : 3 * b <= n - 1 => n - b >= (n * 2) \div 3 + 1
    OBVIOUS
<1> QED BY <1>1, <1>3, <1>4, <1>5 DEF required_confirmations

(* While schedules keep their size the LIB of the head always has more than two
   thirds of the active producers behind it, right after a schedule change too. *)
THEOREM QuorumBehindEveryLib ==
    ASSUME EqualSizes
    PROVE  Spec => []QuorumBehindLib
<1>1. LibInv /\ [Next]_vars => LibInv'
    BY LibNext
<1>2. LibInv => QuorumBehindLib
  <2> SUFFICES ASSUME LibInv PROVE QuorumBehindLib
    OBVIOUS
  <2>1. IsNumbering(head.last_implied_irb) /\ head.irb \in Nat
    BY DEF LibInv, Inv, TypeOK, IsHeaderState
  <2>2. DOMAIN head.last_implied_irb = {} => Cardinality(DOMAIN head.last_implied_irb) = 0
    BY FS_EmptySet
  <2>3. DOMAIN head.last_implied_irb # {} => Backed(head.last_implied_irb, head.irb)
    BY DEF LibInv, LibState, Voting
  <2>4. Cardinality(DOMAIN head.last_implied_irb) \in Nat
    BY <2>1, BelowFinite
  <2> QED BY <2>1, <2>2, <2>3, <2>4, BackedIsQuorum DEF QuorumBehindLib
<1> QED BY <1>1, <1>2, LibInit, PTL DEF Spec

(* The block that brought the active schedule is irreversible: no fork can drop the
   schedule that signs the chain, as long as schedules keep their size. *)
THEOREM ActiveSchedulesSettled ==
    ASSUME EqualSizes
    PROVE  Spec => []ActiveScheduleIrreversible
<1>1. LibInv /\ [Next]_vars => LibInv'
    BY LibNext
<1>2. LibInv => ActiveScheduleIrreversible
    BY DEF LibInv, LibState, Settled, ActiveScheduleIrreversible
<1> QED BY <1>1, <1>2, LibInit, PTL DEF Spec

(* Every committed block beats its parent in fork_database's order, so the assertion
   of commit_block holds, as long as schedules keep their size. *)
THEOREM CommittedBlocksBecomeHead ==
    ASSUME EqualSizes
    PROVE  Spec => CommittedBlockBecomesHead
<1> DEFINE Beats == head' # head => \/ head'.irb > head.irb
                                    \/ head'.irb = head.irb /\ head'.block_num > head.block_num
<1>1. LibInv /\ [Next]_vars => LibInv'
    BY LibNext
<1>2. LibInv /\ [Next]_vars => [Beats]_vars
  <2> SUFFICES ASSUME LibInv, Next PROVE Beats
    OBVIOUS
  <2>1. CASE CommitBlock
    <3>1. PICK b \in pending : head' = b.state
      BY <2>1 DEF CommitBlock
    <3>2. /\ b.state.irb \in Nat /\ head.irb \in Nat /\ b.state.irb >= head.irb
          /\ b.state.block_num = head.block_num + 1 /\ head.block_num \in Nat
      BY DEF LibInv, Inv, TypeOK, IsHeaderState, PendingOK
    <3> QED BY <3>1, <3>2
  <2>2. CASE ~ CommitBlock
    BY <2>2 DEF Next, StartBlock, SetProposedProducers, Restart, Done, vars
  <2> QED BY <2>1, <2>2
<1> QED BY <1>1, <1>2, LibInit, PTL DEF Spec, CommittedBlockBecomesHead

-----------------------------------------------------------------------------
(* The quorum behind the proposed irreversible block.  Every counter that is still
   in confirm_count owes at most as many confirmations as its block lacks. *)

Counted(s, cb, nd) ==
    /\ \A i \in 1 .. Len(s.confirm_count) :
          nd[s.block_num - Len(s.confirm_count) + i]
              <= Cardinality(cb[s.block_num - Len(s.confirm_count) + i]) + s.confirm_count[i]
    /\ s.proposed_irb > 0 => nd[s.proposed_irb] <= Cardinality(cb[s.proposed_irb])

(* The record of confirmations when producer p puts a block on top of block m and
   confirms n blocks below its own, as CommitBlock writes it. *)
Tally(cb, m, n, p) ==
    [k \in 1 .. m + 1 |-> (IF k < m + 1 THEN cb[k] ELSE {})
                              \cup (IF k >= (m + 1) - n THEN {p} ELSE {})]

(* A record with one more block: it takes no confirmation away, and adds one to each
   of the last n + 1 blocks. *)
Gains(cb, m, n, after) ==
    /\ \A k \in 1 .. m :
          /\ Cardinality(cb[k]) \in Nat /\ Cardinality(after[k]) \in Nat
          /\ Cardinality(after[k]) >= Cardinality(cb[k])
          /\ k >= m + 1 - n => Cardinality(after[k]) = Cardinality(cb[k]) + 1
    /\ Cardinality(after[m + 1]) = 1

(* A producer counts once among those that confirmed a block. *)
LEMMA OneMore ==
    ASSUME NEW S \in SUBSET Producer, NEW p
    PROVE  /\ Cardinality(S) \in Nat
           /\ p \in S => Cardinality(S \cup {p}) = Cardinality(S)
           /\ p \notin S => Cardinality(S \cup {p}) = Cardinality(S) + 1
<1>1. IsFiniteSet(S)
    BY ProducerAssumption, FS_Subset
<1> QED BY <1>1, FS_CardinalityType, FS_AddElement

(* A block of a producer that confirms only what it had not confirmed before. *)
LEMMA TallyGains ==
    ASSUME NEW m \in Nat, NEW n \in Nat, NEW cb \in [1 .. m -> SUBSET Producer], NEW p,
           \A k \in 1 .. m : k >= m + 1 - n => p \notin cb[k]
    PROVE  Gains(cb, m, n, Tally(cb, m, n, p))
<1> DEFINE after == Tally(cb, m, n, p)
<1>1. ASSUME NEW k \in 1 .. m
      PROVE  /\ Cardinality(cb[k]) \in Nat /\ Cardinality(after[k]) \in Nat
             /\ Cardinality(after[k]) >= Cardinality(cb[k])
             /\ k >= m + 1 - n => Cardinality(after[k]) = Cardinality(cb[k]) + 1
  <2>1. cb[k] \in SUBSET Producer
    OBVIOUS
  <2>2. CASE k >= m + 1 - n
    <3>1. after[k] = cb[k] \cup {p} /\ p \notin cb[k]
      BY <2>2 DEF Tally
    <3> HIDE DEF after
    <3>2. Cardinality(cb[k]) \in Nat /\ Cardinality(after[k]) = Cardinality(cb[k]) + 1
      BY <2>1, <3>1, OneMore
    <3> QED BY <3>2
  <2>3. CASE ~ (k >= m + 1 - n)
    <3>1. after[k] = cb[k]
      BY <2>3 DEF Tally
    <3> HIDE DEF after
    <3>2. Cardinality(cb[k]) \in Nat
      BY <2>1, OneMore
    <3> QED BY <2>3, <3>1, <3>2
  <2> QED BY <2>2, <2>3
<1>2. after[m + 1] = {p}
    BY DEF Tally
<1>3. Cardinality(after[m + 1]) = 1
    BY <1>2, FS_Singleton
<1> QED BY <1>1, <1>3 DEF Gains

(* The entry at which the walk of set_confirmed stops reached zero. *)
LEMMA WalkReaches ==
    ASSUME NEW counts \in Seq(Nat \ {0}), NEW n \in Nat, walked_to(counts, n) # 0
    PROVE  LET stop == walked_to(counts, n) IN counts[stop] = 1 /\ stop >= Len(counts) - n
<1> DEFINE reached == {i \in 1 .. Len(counts) : i >= Len(counts) - n /\ counts[i] = 1}
<1>1. reached # {} /\ walked_to(counts, n) = Max(reached)
    BY DEF walked_to
<1>2. reached \subseteq Nat /\ Len(counts) \in Nat /\ \A y \in reached : y <= Len(counts)
    OBVIOUS
<1>3. Max(reached) \in reached
    BY <1>1, <1>2, GreatestExists
<1> QED BY <1>1, <1>3

(* generate_next starts a counter for the new block, which nobody confirmed yet, and
   drops the oldest one when the vector is full. *)
LEMMA GenerateNextCounted ==
    ASSUME NEW s, IsHeaderState(s), Bounded(s), NEW when \in Nat,
           NEW cb, NEW nd \in Seq(Nat), Len(nd) = s.block_num, Counted(s, cb, nd)
    PROVE  LET t == generate_next(s, when)
               r == required_confirmations(Len(s.active_schedule.producers))
           IN  /\ \A i \in 1 .. Len(t.confirm_count) - 1 :
                     nd[t.block_num - Len(t.confirm_count) + i]
                        <= Cardinality(cb[t.block_num - Len(t.confirm_count) + i])
                              + t.confirm_count[i]
               /\ Len(t.confirm_count) \in Nat \ {0}
               /\ t.confirm_count[Len(t.confirm_count)] = r /\ r \in Nat
<1> DEFINE t == generate_next(s, when)
           r == required_confirmations(Len(s.active_schedule.producers))
           cc == s.confirm_count
           tracked == IF Len(cc) < maximum_tracked_dpos_confirmations THEN cc ELSE Tail(cc)
<1>0. IsRecord(s) /\ s.block_num \in Nat /\ cc \in Seq(Nat \ {0}) /\ Len(cc) \in Nat
    BY DEF IsHeaderState
<1>1. t.block_num = s.block_num + 1 /\ t.confirm_count = Append(tracked, r)
    BY <1>0, GenerateNextFields, Zenon
<1> HIDE DEF t
<1>2. r \in Nat
  <2>1. Len(s.active_schedule.producers) \in Nat
    BY DEF IsHeaderState, Schedule
  <2>2. \A n \in Nat : required_confirmations(n) \in Nat
    BY DEF required_confirmations
  <2> QED BY <2>1, <2>2
<1> HIDE DEF r
<1>3. \A i \in 1 .. Len(cc) :
         nd[s.block_num - Len(cc) + i] <= Cardinality(cb[s.block_num - Len(cc) + i]) + cc[i]
    BY DEF Counted
<1> HIDE DEF cc
<1>4. /\ tracked \in Seq(Nat \ {0}) /\ Len(tracked) \in Nat
      /\ \A i \in 1 .. Len(tracked) :
            nd[s.block_num - Len(tracked) + i]
                <= Cardinality(cb[s.block_num - Len(tracked) + i]) + tracked[i]
  <2>1. CASE Len(cc) < maximum_tracked_dpos_confirmations
    BY <1>0, <1>3, <2>1
  <2>2. CASE ~ (Len(cc) < maximum_tracked_dpos_confirmations)
    <3>1. /\ tracked = Tail(cc) /\ tracked \in Seq(Nat \ {0})
          /\ Len(tracked) = Len(cc) - 1 /\ Len(cc) >= 1
          /\ \A i \in 1 .. Len(tracked) : tracked[i] = cc[i + 1]
      BY <1>0, <2>2, TrackedAssumption
    <3> HIDE DEF tracked
    <3>2. ASSUME NEW i \in 1 .. Len(tracked)
          PROVE  nd[s.block_num - Len(tracked) + i]
                    <= Cardinality(cb[s.block_num - Len(tracked) + i]) + tracked[i]
      <4>1. i + 1 \in 1 .. Len(cc)
        BY <1>0, <3>1
      <4>2. s.block_num - Len(tracked) + i = s.block_num - Len(cc) + (i + 1)
        <5>1. \A x, a, j \in Int : x - (a - 1) + j = x - a + (j + 1)
          OBVIOUS
        <5>2. s.block_num \in Int /\ Len(cc) \in Int /\ i \in Int /\ Len(tracked) = Len(cc) - 1
          BY <1>0, <3>1
        <5>3. s.block_num - (Len(cc) - 1) + i = s.block_num - Len(cc) + (i + 1)
          BY <5>1, <5>2
        <5> QED BY <5>2, <5>3, Zenon
      <4>3. tracked[i] = cc[i + 1]
        BY <3>1
      <4> QED BY <1>3, <4>1, <4>2, <4>3
    <3> QED BY <1>0, <3>1, <3>2
  <2> QED BY <2>1, <2>2
<1> HIDE DEF tracked
<1>5. /\ Len(t.confirm_count) = Len(tracked) + 1
      /\ t.confirm_count[Len(tracked) + 1] = r
      /\ \A i \in 1 .. Len(tracked) : t.confirm_count[i] = tracked[i]
    BY <1>1, <1>4
<1>6. t.block_num - Len(t.confirm_count) = s.block_num - Len(tracked)
    BY <1>0, <1>1, <1>4, <1>5, SMTT(30)
<1> QED BY <1>2, <1>4, <1>5, <1>6, SMTT(30) DEF t, r

(* A block built on s confirms the blocks that its confirmed field names, its own
   included: the counters go down by what the record of confirmations gains. *)
LEMMA BuiltCounted ==
    ASSUME NEW s, IsHeaderState(s), Bounded(s), NEW when \in Nat, NEW n \in Nat,
           NEW cb, NEW nd \in Seq(Nat), Len(nd) = s.block_num, Counted(s, cb, nd),
           NEW cb2, Gains(cb, s.block_num, n, cb2)
    PROVE  Counted(set_confirmed(generate_next(s, when), n), cb2,
                   Append(nd, required_confirmations(Len(s.active_schedule.producers))))
<1> DEFINE t == generate_next(s, when)
           u == set_confirmed(t, n)
           r == required_confirmations(Len(s.active_schedule.producers))
           m == s.block_num
           L == Len(t.confirm_count)
           nd2 == Append(nd, r)
           stop == walked_to(t.confirm_count, n)
           down == counted_down(t.confirm_count, n)
<1>0. /\ IsRecord(s) /\ m \in Nat \ {0} /\ s.proposed_irb \in Nat /\ s.proposed_irb <= m
      /\ Len(s.confirm_count) \in Nat
    BY DEF IsHeaderState, Bounded
<1>1. /\ IsHeaderState(t) /\ Bounded(t) /\ t.block_num = m + 1 /\ t.proposed_irb = s.proposed_irb
    BY <1>0, GenerateNextTyped, GenerateNextFields
<1>2. /\ \A i \in 1 .. L - 1 :
            nd[t.block_num - L + i] <= Cardinality(cb[t.block_num - L + i]) + t.confirm_count[i]
      /\ L \in Nat \ {0} /\ t.confirm_count[L] = r /\ r \in Nat
    BY GenerateNextCounted
<1> HIDE DEF t, r
<1>3. /\ IsRecord(t) /\ t.confirm_count \in Seq(Nat \ {0}) /\ L <= m + 1
  <2>1. IsRecord(t) /\ t.confirm_count \in Seq(Nat \ {0})
    BY <1>1 DEF IsHeaderState
  <2>2. L + t.proposed_irb <= t.block_num
    BY <1>1 DEF Bounded
  <2> HIDE DEF L
  <2>3. L <= m + 1
    BY <1>0, <1>1, <1>2, <2>2
  <2> QED BY <2>1, <2>3
<1>4. /\ u.proposed_irb = IF stop = 0 THEN t.proposed_irb ELSE t.block_num - (L - stop)
      /\ u.confirm_count = SubSeq(down, stop + 1, L)
      /\ u.block_num = t.block_num
    BY <1>3, SetConfirmedFields DEF HeaderFields
<1>5. /\ stop \in 0 .. L /\ stop \in Nat
  <2>1. stop \in 0 .. L
    BY <1>3, WalkStops
  <2> HIDE DEF stop
  <2> QED BY <1>2, <2>1
<1>6. stop # 0 => t.confirm_count[stop] = 1 /\ stop >= L - n
    BY <1>3, WalkReaches
<1>7. /\ DOMAIN down = 1 .. L
      /\ \A i \in 1 .. L :
            down[i] = IF i >= L - n THEN t.confirm_count[i] - 1 ELSE t.confirm_count[i]
    BY <1>2 DEF counted_down
<1> HIDE DEF u, stop, down, m, L
<1>8. \A i \in 1 .. L : t.confirm_count[i] \in Nat \ {0}
    BY <1>3 DEF L
<1>9. /\ \A k \in 1 .. m : nd2[k] = nd[k] /\ nd[k] \in Nat
      /\ nd2[m + 1] = r
    BY <1>0, <1>2 DEF m
<1>10. Cardinality(cb2[m + 1]) = 1
    BY DEF Gains, m
<1>11. \A k \in 1 .. m :
          /\ Cardinality(cb[k]) \in Nat /\ Cardinality(cb2[k]) \in Nat
          /\ Cardinality(cb2[k]) >= Cardinality(cb[k])
          /\ k >= m + 1 - n => Cardinality(cb2[k]) = Cardinality(cb[k]) + 1
    BY DEF Gains, m
<1> HIDE DEF nd2
<1>12. ASSUME NEW i \in 1 .. L
       PROVE  nd2[m + 1 - L + i] <= Cardinality(cb2[m + 1 - L + i]) + down[i]
  <2>1. down[i] = IF i >= L - n THEN t.confirm_count[i] - 1 ELSE t.confirm_count[i]
    BY <1>7
  <2>2. t.confirm_count[i] \in Nat \ {0}
    BY <1>8
  <2>3. CASE i = L
    <3>1. m + 1 - L + i = m + 1 /\ i >= L - n
      BY <1>0, <1>2, <2>3
    <3>2. down[i] = r - 1
      BY <1>2, <2>1, <2>3, <3>1
    <3> QED BY <1>2, <1>9, <1>10, <3>1, <3>2
  <2>4. CASE i # L
    <3> DEFINE k == m + 1 - L + i
    <3>1. i \in 1 .. L - 1 /\ k \in 1 .. m
      BY <1>0, <1>2, <1>3, <2>4
    <3>2. nd[k] <= Cardinality(cb[k]) + t.confirm_count[i]
      <4>1. t.block_num - L + i = k
        BY <1>0, <1>1, <1>2
      <4>2. nd[t.block_num - L + i] <= Cardinality(cb[t.block_num - L + i]) + t.confirm_count[i]
        BY <1>2, <3>1
      <4> HIDE DEF k
      <4> QED BY <4>1, <4>2
    <3>3. i >= L - n => k >= m + 1 - n
      BY <1>0, <1>2, <3>1
    <3> HIDE DEF k
    <3>4. /\ nd2[k] = nd[k] /\ nd[k] \in Nat
          /\ Cardinality(cb[k]) \in Nat /\ Cardinality(cb2[k]) \in Nat
          /\ Cardinality(cb2[k]) >= Cardinality(cb[k])
          /\ i >= L - n => Cardinality(cb2[k]) = Cardinality(cb[k]) + 1
      BY <1>9, <1>11, <3>1, <3>3
    <3>5. nd2[k] <= Cardinality(cb2[k]) + down[i]
      BY <2>1, <2>2, <3>2, <3>4, SMTT(30)
    <3> QED BY <3>5 DEF k
  <2> QED BY <2>3, <2>4
<1>13. /\ Len(u.confirm_count) = L - stop
       /\ \A j \in 1 .. L - stop : u.confirm_count[j] = down[stop + j]
  <2>1. \A i \in 1 .. L : down[i] \in Nat
    BY <1>7, <1>8
  <2>4. \A i \in stop + 1 .. L : down[i] \in Nat
    BY <1>2, <1>5, <2>1
  <2>5. u.confirm_count \in Seq(Nat) /\ Len(u.confirm_count) = L - stop
        /\ \A j \in 1 .. L - stop : u.confirm_count[j] = down[stop + 1 + j - 1]
    BY <1>2, <1>4, <1>5, <2>4, SubSeqProperties
  <2> QED BY <1>2, <1>5, <2>5
<1>14. ASSUME NEW j \in 1 .. Len(u.confirm_count)
       PROVE  nd2[u.block_num - Len(u.confirm_count) + j]
                 <= Cardinality(cb2[u.block_num - Len(u.confirm_count) + j]) + u.confirm_count[j]
  <2>1. stop + j \in 1 .. L /\ u.confirm_count[j] = down[stop + j]
    BY <1>2, <1>5, <1>13
  <2>2. u.block_num - Len(u.confirm_count) + j = m + 1 - L + (stop + j)
    BY <1>0, <1>2, <1>1, <1>4, <1>5, <1>13
  <2> QED BY <1>12, <2>1, <2>2
<1>15. u.proposed_irb > 0 => nd2[u.proposed_irb] <= Cardinality(cb2[u.proposed_irb])
  <2>1. CASE stop = 0
    <3>1. u.proposed_irb = s.proposed_irb
      BY <1>1, <1>4, <2>1
    <3>2. s.proposed_irb > 0 => nd[s.proposed_irb] <= Cardinality(cb[s.proposed_irb])
      BY DEF Counted
    <3>3. s.proposed_irb > 0 => s.proposed_irb \in 1 .. m
      BY <1>0
    <3> QED BY <1>9, <1>11, <3>1, <3>2, <3>3
  <2>2. CASE stop # 0
    <3>1. stop \in 1 .. L /\ down[stop] = 0
      BY <1>2, <1>5, <1>6, <1>7, <2>2
    <3>2. u.proposed_irb = m + 1 - L + stop
      BY <1>0, <1>1, <1>2, <1>4, <1>5, <2>2
    <3>3. nd2[u.proposed_irb] <= Cardinality(cb2[u.proposed_irb]) + 0
      <4>1. nd2[m + 1 - L + stop] <= Cardinality(cb2[m + 1 - L + stop]) + down[stop]
        BY <1>12, <3>1, Zenon
      <4> QED BY <3>1, <3>2, <4>1
    <3>4. u.proposed_irb \in 1 .. m + 1
      <4>1. /\ m \in Nat /\ L \in Nat /\ stop \in Nat /\ L <= m + 1
            /\ 1 <= stop /\ stop <= L
        BY <1>0, <1>2, <1>3, <3>1
      <4> QED BY <3>2, <4>1
    <3>5. Cardinality(cb2[u.proposed_irb]) \in Nat
      <4>1. u.proposed_irb \in 1 .. m \/ u.proposed_irb = m + 1
        BY <1>0, <3>4
      <4> QED BY <1>10, <1>11, <4>1
    <3> QED BY <3>3, <3>5
  <2> QED BY <2>1, <2>2
<1>16. Counted(u, cb2, nd2)
    BY <1>14, <1>15 DEF Counted
<1> QED BY <1>16 DEF u, t, nd2, r

(* Promoting a schedule or installing a new one touches no counter. *)
LEMMA SchedulesKeepCounts ==
    ASSUME NEW s, IsRecord(s), NEW schedule,
           NEW t \in {maybe_promote_pending(s), set_new_producers(s, schedule)}
    PROVE  /\ IsRecord(t)
           /\ t.block_num = s.block_num /\ t.slot = s.slot /\ t.producer = s.producer
           /\ t.confirmed = s.confirmed /\ t.confirm_count = s.confirm_count
           /\ t.proposed_irb = s.proposed_irb /\ t.irb = s.irb
<1>1. CASE t = maybe_promote_pending(s) /\ ~ will_promote_pending(s)
    BY <1>1 DEF maybe_promote_pending
<1>2. CASE t = maybe_promote_pending(s) /\ will_promote_pending(s)
    BY <1>2, PromoteFields DEF HeaderFields
<1>3. CASE t = set_new_producers(s, schedule)
    BY <1>3 DEF IsRecord, HeaderFields, set_new_producers
<1> QED BY <1>1, <1>2, <1>3

-----------------------------------------------------------------------------
(* The invariant behind the proposed irreversible block: the counters of the head,
   and of the pending block once it is committed, and no producer has confirmed a
   block above its watermark. *)

Seen ==
    \A p \in DOMAIN watermark : \A k \in 1 .. head.block_num :
        p \in confirmed_by[k] => k <= watermark[p]

TallyWith(b) == Tally(confirmed_by, head.block_num, b.state.confirmed, b.state.producer)

NeededWith == Append(needed, required_confirmations(Len(head.active_schedule.producers)))

QuorumInv ==
    /\ Inv
    /\ Seen
    /\ Counted(head, confirmed_by, needed)
    /\ \A b \in pending : Counted(b.state, TallyWith(b), NeededWith)

(* It holds at genesis. *)
LEMMA QuorumInit == Init => QuorumInv
<1> SUFFICES ASSUME Init PROVE QuorumInv
    OBVIOUS
<1>1. head.confirm_count = <<>> /\ head.proposed_irb = 0
    BY DEF Init, genesis
<1>2. Len(<<>>) = 0
    OBVIOUS
<1>3. Counted(head, confirmed_by, needed)
    BY <1>1, <1>2 DEF Counted
<1>4. DOMAIN watermark = {} /\ pending = {}
    BY DEF Init
<1> QED BY <1>3, <1>4, InitInv DEF QuorumInv, Seen

(* Every producer confirms in its new block only what lies above its watermark, which
   it has not confirmed before; truncation to 16 bits only drops confirmations. *)
LEMMA ConfirmsOnlyNew ==
    ASSUME Inv, Seen, NEW p \in Producer
    PROVE  LET n == blocks_to_confirm(watermark, p, head.block_num) IN
           n \in Nat /\ \A k \in 1 .. head.block_num :
                            k >= head.block_num + 1 - n => p \notin confirmed_by[k]
<1> DEFINE n == blocks_to_confirm(watermark, p, head.block_num)
<1>0. head.block_num \in Nat /\ IsNumbering(watermark)
    BY DEF Inv, TypeOK, IsHeaderState
<1>1. CASE p \in DOMAIN watermark /\ watermark[p] < head.block_num
  <2>1. watermark[p] \in Nat /\ n = (head.block_num - watermark[p]) % uint16_values
    BY <1>0, <1>1 DEF IsNumbering, blocks_to_confirm
  <2>3. n \in Nat /\ n <= head.block_num - watermark[p]
    BY <1>0, <1>1, <2>1, RemainderBelow, Uint16Assumption
  <2> HIDE DEF n
  <2>4. ASSUME NEW k \in 1 .. head.block_num, k >= head.block_num + 1 - n
        PROVE  p \notin confirmed_by[k]
    <3>1. k > watermark[p]
      BY <1>0, <2>1, <2>3, <2>4
    <3> QED BY <1>1, <2>1, <3>1 DEF Seen
  <2> QED BY <2>3, <2>4 DEF n
<1>2. CASE ~ (p \in DOMAIN watermark /\ watermark[p] < head.block_num)
  <2>1. n = 0
    BY <1>2 DEF blocks_to_confirm
  <2> QED BY <1>0, <2>1
<1> QED BY <1>1, <1>2

(* start_block: the pending block counts what it confirms. *)
LEMMA QuorumStartBlock ==
    ASSUME QuorumInv, NEW skip \in 0 .. MaxSkip, StartBlock(head.slot + 1 + skip)
    PROVE  QuorumInv'
<1> DEFINE when == head.slot + 1 + skip
           template == generate_next(head, when)
           n == blocks_to_confirm(watermark, template.producer, head.block_num)
           counted == set_confirmed(template, n)
           state == maybe_promote_pending(counted)
           cb2 == Tally(confirmed_by, head.block_num, n, template.producer)
<1>0. Inv /\ Inv' /\ Seen
    BY StartBlockInv DEF QuorumInv
<1>1. /\ UNCHANGED <<head, proposed, watermark, confirmed_by, needed>>
      /\ when \in Nat /\ n \in Nat /\ template.producer \in Producer
      /\ IsHeaderState(counted) /\ counted.producer = template.producer
    BY <1>0, StartBlockShape
<1>2. PICK b : /\ pending' = {b}
               /\ \/ b.state = state
                  \/ \E q \in proposed : b.state = set_new_producers(state, q.schedule)
    BY <1>0, StartBlockShape
<1>3. /\ IsHeaderState(head) /\ Bounded(head) /\ needed \in Seq(Nat) /\ Len(needed) = head.block_num
      /\ head.block_num \in Nat /\ confirmed_by \in [1 .. head.block_num -> SUBSET Producer]
    BY <1>0 DEF Inv, TypeOK, IsHeaderState
<1>4. \A k \in 1 .. head.block_num :
         k >= head.block_num + 1 - n => template.producer \notin confirmed_by[k]
    BY <1>0, <1>1, ConfirmsOnlyNew
<1> HIDE DEF template
<1>5. Gains(confirmed_by, head.block_num, n, cb2)
  <2> HIDE DEF n
  <2> QED BY <1>1, <1>3, <1>4, TallyGains
<1> HIDE DEF n, cb2
<1>6. Counted(counted, cb2, NeededWith)
    BY <1>1, <1>3, <1>5, BuiltCounted DEF QuorumInv, NeededWith, template
<1>7. IsRecord(counted) /\ counted.confirmed = n
  <2>1. IsRecord(counted)
    BY <1>1 DEF IsHeaderState
  <2>2. IsRecord(template)
    BY <1>0, <1>1, StartBlockShape DEF IsHeaderState, template, n
  <2> QED BY <2>1, <2>2, SetConfirmedFields
<1> HIDE DEF counted, when
<1>8. /\ IsRecord(state)
      /\ state.block_num = counted.block_num /\ state.producer = counted.producer
      /\ state.confirmed = counted.confirmed /\ state.confirm_count = counted.confirm_count
      /\ state.proposed_irb = counted.proposed_irb
    BY <1>7, SchedulesKeepCounts
<1> HIDE DEF state
<1>9. /\ b.state.block_num = counted.block_num /\ b.state.producer = counted.producer
      /\ b.state.confirmed = counted.confirmed /\ b.state.confirm_count = counted.confirm_count
      /\ b.state.proposed_irb = counted.proposed_irb
  <2>1. CASE b.state = state
    BY <1>8, <2>1
  <2>2. ASSUME NEW q \in proposed, b.state = set_new_producers(state, q.schedule)
        PROVE  /\ b.state.block_num = state.block_num /\ b.state.producer = state.producer
               /\ b.state.confirmed = state.confirmed
               /\ b.state.confirm_count = state.confirm_count
               /\ b.state.proposed_irb = state.proposed_irb
    BY <1>8, <2>2, SchedulesKeepCounts
  <2> QED BY <1>2, <1>8, <2>1, <2>2
<1>10. TallyWith(b) = cb2
    BY <1>1, <1>7, <1>9 DEF TallyWith, cb2
<1>11. Counted(b.state, TallyWith(b), NeededWith)
    BY <1>6, <1>9, <1>10 DEF Counted
<1>12. TallyWith(b)' = TallyWith(b) /\ NeededWith' = NeededWith /\ Seen'
    BY <1>0, <1>1 DEF TallyWith, NeededWith, Seen
<1>13. \A c \in pending' : Counted(c.state, TallyWith(c)', NeededWith')
    BY <1>2, <1>11, <1>12
<1>14. Counted(head', confirmed_by', needed')
    BY <1>1 DEF QuorumInv
<1> QED BY <1>0, <1>12, <1>13, <1>14 DEF QuorumInv

(* commit_block: what was counted for the pending block is now counted for the head. *)
LEMMA QuorumCommitBlock ==
    ASSUME QuorumInv, CommitBlock
    PROVE  QuorumInv'
<1>0. Inv /\ Inv'
    BY CommitBlockInv DEF QuorumInv
<1>1. PICK b \in pending :
         LET s == b.state
             installed == newly_installed(b.state)
         IN  /\ head' = s
             /\ proposed' = b.proposed
             /\ pending' = {}
             /\ watermark' = [p \in DOMAIN watermark \cup installed \cup {s.producer} |->
                   IF p \in installed \cup {s.producer} THEN s.block_num ELSE watermark[p]]
             /\ confirmed_by' = [n \in 1 .. s.block_num |->
                   (IF n < s.block_num THEN confirmed_by[n] ELSE {})
                      \cup (IF n >= s.block_num - s.confirmed THEN {s.producer} ELSE {})]
             /\ needed' = Append(needed, required_confirmations(Len(head.active_schedule.producers)))
    BY DEF CommitBlock
<1> DEFINE s == b.state
           raised == newly_installed(s) \cup {s.producer}
<1>2. /\ s.block_num = head.block_num + 1 /\ head.block_num \in Nat /\ IsNumbering(watermark)
    BY <1>0 DEF Inv, TypeOK, PendingOK, IsHeaderState
<1>3. confirmed_by' = TallyWith(b)
  <2> DEFINE F(num) == [k \in 1 .. num |->
                (IF k < num THEN confirmed_by[k] ELSE {})
                   \cup (IF k >= num - s.confirmed THEN {s.producer} ELSE {})]
  <2>1. confirmed_by' = F(s.block_num)
    BY <1>1
  <2>2. TallyWith(b) = F(head.block_num + 1)
    BY DEF TallyWith, Tally
  <2> HIDE DEF F
  <2> QED BY <1>2, <2>1, <2>2
<1>4. Counted(head', confirmed_by', needed')
    BY <1>1, <1>3 DEF QuorumInv, NeededWith
<1>5. Seen'
  <2> SUFFICES ASSUME NEW p \in DOMAIN watermark', NEW k \in 1 .. s.block_num,
                      p \in confirmed_by'[k]
               PROVE  k <= watermark'[p]
    BY <1>1 DEF Seen
  <2>1. /\ DOMAIN watermark' = DOMAIN watermark \cup raised
        /\ watermark'[p] = IF p \in raised THEN s.block_num ELSE watermark[p]
    BY <1>1
  <2>2. p \in (IF k < s.block_num THEN confirmed_by[k] ELSE {})
                 \cup (IF k >= s.block_num - s.confirmed THEN {s.producer} ELSE {})
    BY <1>1
  <2> HIDE DEF raised
  <2>3. CASE p \in raised
    BY <1>2, <2>1, <2>3
  <2>4. CASE p \notin raised
    <3>1. p # s.producer /\ p \in DOMAIN watermark
      BY <2>1, <2>4 DEF raised
    <3>2. k < s.block_num /\ p \in confirmed_by[k]
      BY <2>2, <3>1
    <3>3. k \in 1 .. head.block_num
      BY <1>2, <3>2
    <3> QED BY <2>1, <2>4, <3>1, <3>2, <3>3 DEF QuorumInv, Seen
  <2> QED BY <2>3, <2>4
<1> QED BY <1>0, <1>1, <1>4, <1>5 DEF QuorumInv

(* The invariant is inductive, whatever the schedules. *)
LEMMA QuorumNext == ASSUME QuorumInv, [Next]_vars PROVE QuorumInv'
<1>0. Inv /\ Inv'
    BY NextInv DEF QuorumInv
<1>1. ASSUME NEW skip \in 0 .. MaxSkip, StartBlock(head.slot + 1 + skip) PROVE QuorumInv'
    BY <1>1, QuorumStartBlock
<1>2. CASE CommitBlock
    BY <1>2, QuorumCommitBlock
<1>3. ASSUME UNCHANGED <<head, confirmed_by, needed>>,
             \A c \in pending' : \E b \in pending : c.state = b.state,
             \A p \in DOMAIN watermark' : p \in DOMAIN watermark /\ watermark'[p] = watermark[p]
      PROVE  QuorumInv'
  <2>1. Seen'
    BY <1>3 DEF QuorumInv, Seen
  <2>2. \A c \in pending' : Counted(c.state, TallyWith(c)', NeededWith')
    <3> TAKE c \in pending'
    <3>1. PICK b \in pending : c.state = b.state
      BY <1>3
    <3>2. TallyWith(c)' = TallyWith(b) /\ NeededWith' = NeededWith
      BY <1>3, <3>1 DEF TallyWith, NeededWith
    <3> QED BY <3>1, <3>2 DEF QuorumInv
  <2>3. Counted(head', confirmed_by', needed')
    BY <1>3 DEF QuorumInv
  <2> QED BY <1>0, <2>1, <2>2, <2>3 DEF QuorumInv
<1>4. ASSUME NEW producers \in Schedules, SetProposedProducers(producers) PROVE QuorumInv'
  <2>1. UNCHANGED <<head, confirmed_by, needed, watermark>>
    BY <1>0, <1>4, SetProposedShape
  <2>2. \A c \in pending' : \E b \in pending : c.state = b.state
    BY <1>0, <1>4, SetProposedShape
  <2> QED BY <1>3, <2>1, <2>2
<1>5. ASSUME NEW p \in Producer, Restart(p) PROVE QuorumInv'
  <2>1. /\ UNCHANGED <<head, confirmed_by, needed>> /\ pending' \subseteq pending
        /\ watermark' = [q \in DOMAIN watermark \ {p} |-> watermark[q]]
    BY <1>5 DEF Restart
  <2> QED BY <1>3, <2>1
<1>6. CASE UNCHANGED vars
    BY <1>3, <1>6 DEF vars
<1> QED BY <1>1, <1>2, <1>4, <1>5, <1>6 DEF Next, Done

(* A block becomes proposed irreversible only when as many different producers
   confirmed it as it needed, whatever schedules follow each other and whoever
   misses slots or loses its watermark. *)
THEOREM QuorumBehindEveryProposed == Spec => []QuorumBehindProposed
<1>1. QuorumInv /\ [Next]_vars => QuorumInv'
    BY QuorumNext
<1>2. QuorumInv => QuorumBehindProposed
  <2> SUFFICES ASSUME QuorumInv, head.proposed_irb > 0
               PROVE  Cardinality(confirmed_by[head.proposed_irb]) >= needed[head.proposed_irb]
    BY DEF QuorumBehindProposed
  <2>1. needed[head.proposed_irb] <= Cardinality(confirmed_by[head.proposed_irb])
    BY DEF QuorumInv, Counted
  <2>2. /\ head.proposed_irb \in 1 .. head.block_num
    BY DEF QuorumInv, Inv, TypeOK, Bounded, IsHeaderState
  <2>3. /\ needed[head.proposed_irb] \in Nat
        /\ confirmed_by[head.proposed_irb] \in SUBSET Producer
    BY <2>2 DEF QuorumInv, Inv, TypeOK
  <2>4. Cardinality(confirmed_by[head.proposed_irb]) \in Nat
    BY <2>3, OneMore
  <2> QED BY <2>1, <2>3, <2>4
<1> QED BY <1>1, <1>2, QuorumInit, PTL DEF Spec

(* Both stages of irreversibility have their quorum, while schedules keep their size. *)
THEOREM QuorumBehindIrreversibility ==
    ASSUME EqualSizes
    PROVE  Spec => []QuorumBehind
<1>1. QuorumBehindProposed /\ QuorumBehindLib => QuorumBehind
    BY DEF QuorumBehind
<1> QED BY <1>1, QuorumBehindEveryProposed, QuorumBehindEveryLib, PTL

-----------------------------------------------------------------------------
(* A produced block is accepted by every other node.  The pending block remembers in
   its own header everything that block_header_state::next rebuilds it from. *)

(* The number a producer last produced is not beyond the block. *)
LastBounded(s) == \A p \in DOMAIN s.last_produced : s.last_produced[p] <= s.block_num

Rebuilt(h, when, n) == set_confirmed(generate_next(h, when), n)

Built(b) ==
    LET counted == Rebuilt(head, b.state.slot, b.state.confirmed)
        state == maybe_promote_pending(counted)
    IN  /\ b.state.slot > head.slot
        /\ generate_next(head, b.state.slot).producer = b.state.producer
        /\ \/ b.new_producers = {} /\ b.state = state
           \/ \E schedule :
                 /\ ~ will_promote_pending(counted)
                 /\ can_set_new_producers(state, schedule)
                 /\ b.new_producers = {schedule} /\ b.state = set_new_producers(state, schedule)
        /\ b.state.confirmed # 0 =>
              /\ b.state.producer \in DOMAIN watermark
              /\ watermark[b.state.producer] + b.state.confirmed <= head.block_num

AcceptInv ==
    /\ Inv
    /\ LastBounded(head)
    /\ \A b \in pending : LastBounded(b.state) /\ Built(b)

(* generate_next, set_confirmed and a promotion keep last_produced within the block. *)
LEMMA BuiltLastBounded ==
    ASSUME NEW s, IsHeaderState(s), Bounded(s), LastBounded(s), NEW when \in Nat, NEW n \in Nat
    PROVE  LastBounded(maybe_promote_pending(Rebuilt(s, when, n)))
<1> DEFINE template == generate_next(s, when)
           counted == Rebuilt(s, when, n)
           state == maybe_promote_pending(counted)
<1>0. IsRecord(s) /\ s.block_num \in Nat /\ IsNumbering(s.last_produced)
    BY DEF IsHeaderState
<1>1. IsHeaderState(template) /\ Bounded(template) /\ template.producer \in Producer
    BY GenerateNextTyped
<1>2. /\ IsRecord(template) /\ template.block_num = s.block_num + 1
      /\ template.last_produced = Put(s.last_produced, template.producer, s.block_num + 1)
    BY <1>0, GenerateNextFields
<1> HIDE DEF template
<1>3. LastBounded(template)
    BY <1>0, <1>2 DEF LastBounded, Put, IsNumbering
<1>4. /\ IsHeaderState(counted) /\ Bounded(counted) /\ IsRecord(counted)
      /\ counted.producer \in Producer
    BY <1>1, SetConfirmedTyped DEF IsHeaderState, Rebuilt, template
<1>5. LastBounded(counted)
  <2>1. counted.last_produced = template.last_produced /\ counted.block_num = template.block_num
    BY <1>2, SetConfirmedFields DEF HeaderFields, Rebuilt, template
  <2> QED BY <1>3, <2>1 DEF LastBounded
<1> HIDE DEF counted
<1>6. CASE ~ will_promote_pending(counted)
    BY <1>5, <1>6 DEF maybe_promote_pending, counted
<1>7. CASE will_promote_pending(counted)
  <2>1. /\ state.last_produced = Put(Carried(counted.pending_schedule, counted.last_produced,
                                             counted.irb), counted.producer, counted.block_num)
        /\ state.block_num = counted.block_num
    BY <1>4, <1>7, PromoteFields DEF HeaderFields
  <2>2. counted.irb \in Nat /\ counted.block_num \in Nat /\ counted.irb < counted.block_num
    BY <1>4 DEF IsHeaderState, Bounded
  <2>3. LastBounded(state)
    BY <1>5, <2>1, <2>2 DEF LastBounded, Put, Carried
  <2> QED BY <2>3 DEF counted
<1> QED BY <1>6, <1>7

(* A genesis chain has produced nothing. *)
LEMMA AcceptInit == Init => AcceptInv
<1> SUFFICES ASSUME Init PROVE AcceptInv
    OBVIOUS
<1>1. head.last_produced = <<>> /\ pending = {}
    BY DEF Init, genesis
<1>2. DOMAIN head.last_produced = {}
    BY <1>1
<1> QED BY <1>1, <1>2, InitInv DEF AcceptInv, LastBounded

(* start_block builds what next rebuilds from the block's own header. *)
LEMMA AcceptStartBlock ==
    ASSUME AcceptInv, NEW skip \in 0 .. MaxSkip, StartBlock(head.slot + 1 + skip)
    PROVE  AcceptInv'
<1> DEFINE when == head.slot + 1 + skip
           template == generate_next(head, when)
           n == blocks_to_confirm(watermark, template.producer, head.block_num)
           counted == set_confirmed(template, n)
           state == maybe_promote_pending(counted)
<1>0. Inv /\ Inv'
    BY StartBlockInv DEF AcceptInv
<1>1. /\ UNCHANGED <<head, proposed, watermark, confirmed_by, needed>>
      /\ when \in Nat /\ n \in Nat
      /\ IsHeaderState(template) /\ IsHeaderState(counted) /\ IsHeaderState(state)
    BY <1>0, StartBlockShape
<1>2. PICK b : /\ pending' = {b}
               /\ \/ b.state = state /\ b.new_producers = {}
                  \/ \E q \in proposed :
                        /\ ~ will_promote_pending(counted)
                        /\ can_set_new_producers(state, q.schedule)
                        /\ b.state = set_new_producers(state, q.schedule)
                        /\ b.new_producers = {q.schedule}
    BY <1>0, StartBlockShape
<1>3. /\ IsHeaderState(head) /\ Bounded(head) /\ IsRecord(head) /\ IsNumbering(watermark)
      /\ head.block_num \in Nat /\ head.slot \in Nat
    BY <1>0 DEF Inv, TypeOK, IsHeaderState
<1>4. LastBounded(state)
    BY <1>1, <1>3, BuiltLastBounded DEF AcceptInv, Rebuilt
<1>5. template.slot = when
    BY <1>3, GenerateNextFields
<1>6. n # 0 => /\ template.producer \in DOMAIN watermark
               /\ watermark[template.producer] + n <= head.block_num
  <2> HIDE DEF template
  <2>1. SUFFICES ASSUME n # 0
                 PROVE  /\ template.producer \in DOMAIN watermark
                        /\ watermark[template.producer] + n <= head.block_num
    OBVIOUS
  <2>2. /\ template.producer \in DOMAIN watermark
        /\ watermark[template.producer] < head.block_num
        /\ n = (head.block_num - watermark[template.producer]) % uint16_values
    BY <2>1 DEF blocks_to_confirm
  <2>3. watermark[template.producer] \in Nat
    BY <1>3, <2>2 DEF IsNumbering
  <2>4. n <= head.block_num - watermark[template.producer]
    BY <1>3, <2>2, <2>3, RemainderBelow, Uint16Assumption
  <2> HIDE DEF n
  <2> QED BY <1>1, <1>3, <2>2, <2>3, <2>4
<1>7. Rebuilt(head, when, n) = counted
    BY DEF Rebuilt
<1> HIDE DEF template, n
<1>8. /\ IsRecord(counted) /\ counted.producer = template.producer
      /\ counted.slot = when /\ counted.confirmed = n
  <2>1. IsRecord(template) /\ IsRecord(counted)
    BY <1>1 DEF IsHeaderState
  <2> QED BY <1>5, <2>1, SetConfirmedFields DEF HeaderFields
<1> HIDE DEF counted
<1>9. /\ IsRecord(state) /\ state.producer = template.producer
      /\ state.slot = when /\ state.confirmed = n
    BY <1>8, SchedulesKeepCounts
<1> HIDE DEF state
<1>10. /\ b.state.producer = template.producer /\ b.state.slot = when /\ b.state.confirmed = n
       /\ b.state.block_num = state.block_num /\ b.state.last_produced = state.last_produced
  <2>1. CASE b.state = state
    BY <1>9, <2>1
  <2>2. ASSUME NEW q \in proposed, b.state = set_new_producers(state, q.schedule)
        PROVE  /\ b.state.producer = state.producer /\ b.state.slot = state.slot
               /\ b.state.confirmed = state.confirmed /\ b.state.block_num = state.block_num
               /\ b.state.last_produced = state.last_produced
    BY <1>9, <2>2, SetNewProducersFields DEF HeaderFields
  <2> QED BY <1>2, <1>9, <2>1, <2>2
<1>11. LastBounded(b.state)
    BY <1>4, <1>10 DEF LastBounded
<1>12. Built(b)
  <2>1. b.state.slot > head.slot
    BY <1>3, <1>10
  <2>2. Rebuilt(head, b.state.slot, b.state.confirmed) = counted
    BY <1>7, <1>10
  <2>3. generate_next(head, b.state.slot).producer = b.state.producer
    BY <1>10 DEF template
  <2>4. b.state.confirmed # 0 => /\ b.state.producer \in DOMAIN watermark
                                 /\ watermark[b.state.producer] + b.state.confirmed <= head.block_num
    BY <1>6, <1>10
  <2>5. \/ b.new_producers = {} /\ b.state = maybe_promote_pending(counted)
        \/ \E schedule :
              /\ ~ will_promote_pending(counted)
              /\ can_set_new_producers(maybe_promote_pending(counted), schedule)
              /\ b.new_producers = {schedule}
              /\ b.state = set_new_producers(maybe_promote_pending(counted), schedule)
    BY <1>2, Zenon DEF state
  <2> QED BY <2>1, <2>2, <2>3, <2>4, <2>5, Zenon DEF Built
<1>13. Built(b)'
    BY <1>1, <1>12 DEF Built
<1> QED BY <1>0, <1>1, <1>2, <1>11, <1>13 DEF AcceptInv

(* The invariant is inductive. *)
LEMMA AcceptNext == ASSUME AcceptInv, [Next]_vars PROVE AcceptInv'
<1>0. Inv /\ Inv'
    BY NextInv DEF AcceptInv
<1>1. ASSUME NEW skip \in 0 .. MaxSkip, StartBlock(head.slot + 1 + skip) PROVE AcceptInv'
    BY <1>1, AcceptStartBlock
<1>2. CASE CommitBlock
  <2>1. PICK b \in pending : head' = b.state /\ pending' = {}
    BY <1>2 DEF CommitBlock
  <2> QED BY <1>0, <2>1 DEF AcceptInv
<1>3. ASSUME NEW producers \in Schedules, SetProposedProducers(producers) PROVE AcceptInv'
  <2>1. UNCHANGED <<head, watermark>>
    BY <1>0, <1>3, SetProposedShape
  <2>2. PICK b, c :
           /\ b \in pending
           /\ pending' = {c} /\ c.state = b.state /\ c.new_producers = b.new_producers
    BY <1>0, <1>3, SetProposedShape
  <2>3. LastBounded(b.state) /\ Built(b)
    BY <2>2 DEF AcceptInv
  <2>4. LastBounded(c.state) /\ Built(c)'
    BY <2>1, <2>2, <2>3 DEF Built
  <2> QED BY <1>0, <2>1, <2>2, <2>4 DEF AcceptInv
<1>4. ASSUME NEW p \in Producer, Restart(p) PROVE AcceptInv'
  <2>1. /\ UNCHANGED head /\ pending' = {b \in pending : b.state.producer # p}
        /\ watermark' = [q \in DOMAIN watermark \ {p} |-> watermark[q]]
    BY <1>4 DEF Restart
  <2>2. ASSUME NEW b \in pending' PROVE Built(b)'
    <3>1. Built(b) /\ b.state.producer # p
      BY <2>1 DEF AcceptInv
    <3>2. b.state.producer \in DOMAIN watermark =>
             /\ b.state.producer \in DOMAIN watermark'
             /\ watermark'[b.state.producer] = watermark[b.state.producer]
      BY <2>1, <3>1
    <3> QED BY <2>1, <3>1, <3>2 DEF Built
  <2> QED BY <1>0, <2>1, <2>2 DEF AcceptInv
<1>5. CASE UNCHANGED vars
  <2>1. \A b \in pending : Built(b)'
    BY <1>5 DEF AcceptInv, Built, vars
  <2> QED BY <1>0, <1>5, <2>1 DEF AcceptInv, vars
<1> QED BY <1>1, <1>2, <1>3, <1>4, <1>5 DEF Next, Done

(* A producer confirms a block twice only when it came back unforeseen. *)
LEMMA NoDoubleConfirm ==
    ASSUME AcceptInv, NEW b \in pending, ~ came_back_unforeseen(b.state.producer)
    PROVE  ~ double_confirms(head, b.state.producer, head.block_num + 1, b.state.confirmed)
<1> DEFINE p == b.state.producer
           n == b.state.confirmed
<1>1. /\ head.block_num \in Nat /\ IsNumbering(head.last_produced) /\ IsNumbering(watermark)
      /\ n \in Nat
    BY DEF AcceptInv, Inv, TypeOK, IsHeaderState
<1>2. /\ n # 0 => p \in DOMAIN watermark /\ watermark[p] + n <= head.block_num
    BY DEF AcceptInv, Built
<1>3. p \in DOMAIN head.last_produced => head.last_produced[p] \in Nat
                                         /\ head.last_produced[p] <= head.block_num
    BY <1>1 DEF AcceptInv, LastBounded, IsNumbering
<1>4. p \in DOMAIN watermark => watermark[p] \in Nat
    BY <1>1 DEF IsNumbering
<1>5. ~ (p \in DOMAIN watermark /\ p \in DOMAIN head.last_produced
           /\ watermark[p] < head.last_produced[p])
    BY DEF came_back_unforeseen
<1> HIDE DEF p, n
<1>6. ~ double_confirms(head, p, head.block_num + 1, n)
    BY <1>1, <1>2, <1>3, <1>4, <1>5 DEF double_confirms
<1> QED BY <1>6 DEF p, n

(* Every other node builds the same header state from a produced block and accepts
   it, except the first block of a producer that came back unforeseen. *)
THEOREM ProducedBlocksAccepted == Spec => []ProducedBlockAccepted
<1>1. AcceptInv /\ [Next]_vars => AcceptInv'
    BY AcceptNext
<1>2. AcceptInv => ProducedBlockAccepted
  <2> SUFFICES ASSUME AcceptInv, NEW b \in pending
               PROVE  /\ next(head, header(b)) = b.state
                      /\ next_accepts(head, header(b)) \/ came_back_unforeseen(b.state.producer)
    BY DEF ProducedBlockAccepted
  <2> DEFINE h == header(b)
             counted == Rebuilt(head, b.state.slot, b.state.confirmed)
             state == maybe_promote_pending(counted)
  <2>1. /\ h.slot = b.state.slot /\ h.producer = b.state.producer
        /\ h.schedule_version = head.active_schedule.version
        /\ h.confirmed = b.state.confirmed /\ h.new_producers = b.new_producers
    BY DEF header
  <2> HIDE DEF h
  <2>2. /\ b.state.slot > head.slot
        /\ generate_next(head, b.state.slot).producer = b.state.producer
        /\ \/ b.new_producers = {} /\ b.state = state
           \/ \E schedule :
                 /\ ~ will_promote_pending(counted)
                 /\ can_set_new_producers(state, schedule)
                 /\ b.new_producers = {schedule} /\ b.state = set_new_producers(state, schedule)
    BY Zenon DEF AcceptInv, Built
  <2>3. counted = set_confirmed(generate_next(head, h.slot), h.confirmed)
    BY <2>1 DEF Rebuilt
  <2>4. generate_next(head, h.slot).block_num = head.block_num + 1
    BY GenerateNextFields DEF AcceptInv, Inv, TypeOK, IsHeaderState
  <2> HIDE DEF counted
  <2>5. next(head, h) = b.state
    <3>1. next(head, h) = IF h.new_producers = {} THEN state
                          ELSE set_new_producers(state, CHOOSE x \in h.new_producers : TRUE)
      BY <2>3 DEF next
    <3> HIDE DEF state
    <3>2. CASE b.new_producers = {} /\ b.state = state
      BY <2>1, <3>1, <3>2
    <3>3. ASSUME NEW schedule, b.new_producers = {schedule},
                 b.state = set_new_producers(state, schedule)
          PROVE  next(head, h) = b.state
      <4>1. (CHOOSE x \in h.new_producers : TRUE) = schedule
        BY <2>1, <3>3
      <4> QED BY <2>1, <3>1, <3>3, <4>1
    <3> QED BY <2>2, <3>2, <3>3
  <2>6. ASSUME ~ came_back_unforeseen(b.state.producer) PROVE next_accepts(head, h)
    <3>1. ~ double_confirms(head, h.producer, generate_next(head, h.slot).block_num, h.confirmed)
      BY <2>1, <2>4, <2>6, NoDoubleConfirm
    <3>2. \A x \in h.new_producers : ~ will_promote_pending(counted) /\ can_set_new_producers(counted, x)
      BY <2>1, <2>2 DEF maybe_promote_pending
    <3>3. h.slot > head.slot /\ generate_next(head, h.slot).producer = h.producer
      BY <2>1, <2>2
    <3> QED BY <2>1, <2>3, <3>1, <3>2, <3>3, Zenon DEF next_accepts
  <2> QED BY <2>5, <2>6 DEF h
<1> QED BY <1>1, <1>2, AcceptInit, PTL DEF Spec
=============================================================================
