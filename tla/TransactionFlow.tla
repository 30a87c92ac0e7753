-------------------------- MODULE TransactionFlow --------------------------
(***************************************************************************)
(* The way of a transaction through one node: the thread pool that         *)
(* recovers its keys, the queue of incoming transactions, the pending      *)
(* block, blocks of this and of other nodes, fork switches, and the        *)
(* unapplied, persisted, scheduled and blacklisted transactions.           *)
(* producer_plugin.cpp and controller.cpp, SPECULATIVE read mode.          *)
(*                                                                         *)
(* A transaction is a number, its place in the order of the ids.  One with *)
(* a delay is recorded first and executed when it is due, as a generated   *)
(* transaction of the same id.  Everything on the application thread runs  *)
(* to its end, so a handler is one action; time passes inside it as a      *)
(* budget of attempts.                                                     *)
(***************************************************************************)
EXTENDS Integers, Sequences, SequencesExt, FiniteSets, FiniteSetsExt

CONSTANTS
    Trx,          \* transactions, natural numbers in the order of their ids
    Expiration,   \* Expiration[t]: the last block time t is valid at
    Delay,        \* Delay[t]: 0, or the delay_sec of t
    Window,       \* deferred_trx_expiration_window
    Conflicts,    \* sets {t, u} of which the second one to execute fails
    Submission,   \* the times a transaction is handed to the node
    TrxOf,        \* TrxOf[x]: the transaction of submission x
    Persist,      \* the submissions with persist_until_expired
    ScheduledBudget, \* how many attempts scheduled transactions may use
    Genesis,      \* the time of the first block
    OnlyOwnPopped, \* whether fork switches only undo blocks of this node
    Settings      \* the nodes and what happens to them, see Setting

(* A setting: whether the node has producers configured, what is submitted to it,
   the transactions blocks of peers may carry, how many attempts may fit into the
   start of a block, and bounds on the blocks a fork switch undoes, on the length
   of the chain and on the clock. *)
Setting == [producers : BOOLEAN, submissions : SUBSET Submission, peer_trx : SUBSET Trx,
            budgets : SUBSET (0..9), pops : Nat, blocks : Nat, time : Nat]

ASSUME FlowAssumption ==
    /\ Trx \subseteq Nat /\ IsFiniteSet(Trx)
    /\ Expiration \in [Trx -> Nat] /\ Delay \in [Trx -> Nat] /\ Window \in Nat
    /\ TrxOf \in [Submission -> Trx] /\ Persist \subseteq Submission
    /\ ScheduledBudget \in Nat /\ Genesis \in Nat /\ OnlyOwnPopped \in BOOLEAN
    /\ Settings \subseteq Setting /\ \A e \in Settings : e.time >= Genesis

VARIABLES
    node,  \* everything the application thread works on
    pool,  \* submissions whose keys are being recovered
    now,   \* the clock
    setup  \* the setting

vars == <<node, pool, now, setup>>

Lower(a, b) == IF a < b THEN a ELSE b
Higher(a, b) == IF a > b THEN a ELSE b

(* n rounds of a loop that starts with x; and one over the members of S, each time
   with the first of those that are left. *)
Repeat(step(_, _), x, n) ==
    LET after[i \in 0..n] == IF i = 0 THEN x ELSE step(after[i - 1], i)
    IN  after[n]

ForEach(step(_, _), x, S, first(_)) ==
    LET next(u, i) == [x |-> step(u.x, first(u.left)), left |-> u.left \ {first(u.left)}]
    IN  Repeat(next, [x |-> x, left |-> S], Cardinality(S)).x

-----------------------------------------------------------------------------
(* Blocks.  index and generated are the deduplication list and the scheduled
   transactions in chainbase after the block; undoing a block brings back those
   of its parent. *)

Receipt(id, status) == [id |-> id, status |-> status]

Input(b) == {r.id : r \in {q \in Range(b.receipts) : q.status = "input"}}
Executed(b) == {r.id : r \in {q \in Range(b.receipts) :
                  q.status = "executed" \/ (q.status = "input" /\ Delay[q.id] = 0)}}

Init ==
    /\ node = [chain |-> << [time |-> Genesis, own |-> FALSE, mode |-> "none", receipts |-> <<>>,
                             index |-> {}, generated |-> {}] >>,
               pending |-> {}, unapplied |-> {}, incoming |-> <<>>,
               persisted |-> {}, blacklisted |-> {}, weight |-> 0,
               result |-> "none", answer |-> [x \in Submission |-> "none"], refused |-> {}]
    /\ pool = {}
    /\ now = Genesis
    /\ setup \in Settings

Pending(s) == CHOOSE b \in s.pending : TRUE
Applied(s) == UNION {Input(b) : b \in Range(s.chain) \cup s.pending}

(* Mutant: a transaction is forgotten at its expiration, not after it. *)
clear_at_expiration(index, time) == {t \in index : Expiration[t] > time}

(* controller: clear_expired_input_transactions *)
clear_expired_input_transactions(index, time) == {t \in index : Expiration[t] >= time}

(* controller: start_block on the head. *)
controller_start_block(s, time, mode) ==
    LET parent == Last(s.chain)
    IN  [s EXCEPT !.pending = {[time |-> time, own |-> TRUE, mode |-> mode, receipts |-> <<>>,
            index |-> clear_expired_input_transactions(parent.index, time),
            generated |-> parent.generated]}]

abort_block(s) ==
    [s EXCEPT !.pending = {}, !.unapplied = @ \cup UNION {Input(b) : b \in s.pending}]

commit_block(s, own) ==
    [s EXCEPT !.chain = Append(@, [Pending(s) EXCEPT !.own = own, !.mode = "none"]), !.pending = {}]

(* Mutant: the transactions of a block that is undone are dropped. *)
pop_block_drops(s) == [s EXCEPT !.chain = Front(@)]

(* Only the block states of own blocks know their transactions: trxs is filled
   in the pending block state, and the block state of a block from a peer is
   another object, made by fork_database. *)
pop_block(s) ==
    [s EXCEPT !.chain = Front(@),
              !.unapplied = IF Last(s.chain).own THEN @ \cup Input(Last(s.chain)) ELSE @]

-----------------------------------------------------------------------------
(* Execution.  env names the transactions that do not fit into the block
   (heavy: subjective for controller and plugin) and those that exceed the
   maximum transaction time (slow: subjective for the controller only). *)

conflicts(s, t) ==
    \E b \in Range(s.chain) \cup s.pending : \E u \in Executed(b) : {t, u} \in Conflicts /\ u # t

verdict(s, t, env) ==
    IF Expiration[t] < Pending(s).time \/ t \in Pending(s).index THEN "invalid"
    ELSE IF t \in env.heavy THEN "subjective"
    ELSE IF t \in env.slow THEN "slow"
    ELSE IF Delay[t] = 0 /\ conflicts(s, t) THEN "invalid"
    ELSE "ok"

(* A block with one more receipt.  A delayed transaction is scheduled. *)
with_input(b, t) ==
    [b EXCEPT !.receipts = Append(@, Receipt(t, "input")), !.index = @ \cup {t},
              !.generated = IF Delay[t] = 0 THEN @
                            ELSE @ \cup {[id |-> t, published |-> b.time,
                                          delay_until |-> b.time + Delay[t],
                                          expiration |-> b.time + Delay[t] + Window]}]

push_transaction(s, t, v) ==
    CASE v = "ok" -> [s EXCEPT !.pending = {with_input(b, t) : b \in @},
                               !.unapplied = @ \ {t}]
      [] v = "invalid" -> [s EXCEPT !.unapplied = @ \ {t}, !.refused = @ \cup {t}]
      [] OTHER -> s

scheduled_verdict(s, g, env) ==
    IF g.expiration < Pending(s).time THEN "expired"
    ELSE IF g.id \in env.heavy THEN "subjective"
    ELSE IF g.id \in env.slow THEN "slow"
    ELSE IF conflicts(s, g.id) THEN "hard_fail"
    ELSE "executed"

(* A subjective failure restores the generated transaction; every other outcome
   retires it.  Delayed transactions have no sender, so nobody's onerror runs. *)
push_scheduled_transaction(s, g, v) ==
    IF v \in {"subjective", "slow"} THEN s
    ELSE [s EXCEPT !.pending = {[b EXCEPT !.receipts = Append(@, Receipt(g.id, v)),
                                          !.generated = @ \ {g}] : b \in @}]

-----------------------------------------------------------------------------
(* producer_plugin *)

respond(s, x, a) == [s EXCEPT !.answer[x] = a]

(* Mutant: a transaction that did not fit is queued again and answered. *)
process_incoming_transaction_answers(s, x, env) ==
    LET t == TrxOf[x]
        v == verdict(s, t, env)
        pushed == push_transaction(s, t, v)
    IN  IF s.pending = {} THEN [s EXCEPT !.incoming = Append(@, x)]
        ELSE IF v = "ok" THEN respond(pushed, x, "ok")
        ELSE IF v = "subjective" THEN respond([pushed EXCEPT !.incoming = Append(@, x)], x, "error")
        ELSE respond(pushed, x, "error")

process_incoming_transaction_async(s, x, env) ==
    LET t == TrxOf[x]
        v == verdict(s, t, env)
        pushed == push_transaction(s, t, v)
    IN  IF s.pending = {} THEN [s EXCEPT !.incoming = Append(@, x)]
        ELSE IF Expiration[t] < Pending(s).time \/ t \in Pending(s).index
        THEN respond(s, x, "error")
        ELSE IF v = "ok"
        THEN respond([pushed EXCEPT !.persisted = IF x \in Persist THEN @ \cup {t} ELSE @], x, "ok")
        ELSE IF v = "subjective" THEN [pushed EXCEPT !.incoming = Append(@, x)]
        ELSE respond(pushed, x, "error")

(* A pass of start_block: the node, the attempts that are left before the
   deadline, those of them scheduled transactions may use, whether the block is
   exhausted, and how many of the queued submissions are still to be taken. *)
pass(s, budget) ==
    [s |-> s, budget |-> budget, scheduled |-> 0,
     exhausted |-> FALSE, left |-> Len(s.incoming)]

spend(w) == [w EXCEPT !.budget = Higher(@ - 1, 0), !.scheduled = Higher(@ - 1, 0)]

take_incoming(w, env) ==
    [spend(w) EXCEPT !.left = @ - 1,
        !.s = process_incoming_transaction_async([w.s EXCEPT !.incoming = Tail(@)],
                                                 Head(w.s.incoming), env)]

(* n of them; each may cost the submissions one of their shares. *)
take_some(w, n, env) == Repeat(LAMBDA u, i : take_incoming(u, env), w, n)
take_shares(w, n, env) ==
    Repeat(LAMBDA u, i : [take_incoming(u, env) EXCEPT !.s.weight = @ - 1], w, n)

(* Persisted transactions are forgotten from their expiration on. *)
expire_persisted(w) ==
    LET due == {t \in w.s.persisted : Expiration[t] <= Pending(w.s).time}
    IN  IF due = {} THEN w
        ELSE IF w.budget = 0 THEN [w EXCEPT !.exhausted = TRUE]
        ELSE [w EXCEPT !.s.persisted = @ \ due]

(* Mutant: persisted transactions are only applied again to produce a block. *)
retry_unapplied_producing(w, t, env) ==
    LET s == w.s
        drop == Expiration[t] < Pending(s).time \/ (t \notin s.persisted /\ ~ setup.producers)
        v == verdict(s, t, env)
        pushed == push_transaction(s, t, v)
    IN  IF w.exhausted \/ w.budget = 0 THEN [w EXCEPT !.exhausted = TRUE]
        ELSE IF drop THEN [w EXCEPT !.s.unapplied = @ \ {t}]
        ELSE IF Pending(s).mode # "producing" THEN w
        ELSE [spend(w) EXCEPT !.s = pushed]

(* One unapplied transaction: dropped, applied again, or kept for later. *)
retry_unapplied(w, t, env) ==
    LET s == w.s
        drop == Expiration[t] < Pending(s).time \/ (t \notin s.persisted /\ ~ setup.producers)
        try == t \in s.persisted \/ Pending(s).mode = "producing"
        v == verdict(s, t, env)
        pushed == push_transaction(s, t, v)
    IN  IF w.exhausted \/ w.budget = 0 THEN [w EXCEPT !.exhausted = TRUE]
        ELSE IF drop THEN [w EXCEPT !.s.unapplied = @ \ {t}]
        ELSE IF ~ try THEN w
        ELSE IF v = "subjective" THEN [spend(w) EXCEPT !.s = pushed, !.exhausted = TRUE]
        ELSE IF v = "ok" THEN [spend(w) EXCEPT !.s = pushed]
        ELSE [spend(w) EXCEPT !.s = [pushed EXCEPT !.unapplied = @ \ {t}, !.refused = @ \cup {t}]]

retry_all_unapplied(w, env) ==
    IF ~ setup.producers /\ w.s.persisted = {} THEN [w EXCEPT !.s.unapplied = {}]
    ELSE ForEach(LAMBDA u, t : retry_unapplied(u, t, env), w, w.s.unapplied, Min)

expire_blacklisted(w) ==
    IF w.budget = 0 THEN w
    ELSE [w EXCEPT !.s.blacklisted = {e \in @ : e.expiry > now}]

(* One scheduled transaction that is due, after as many incoming ones as their
   weight allows.  A new submission earns one share for each.  Only the deadline
   of the scheduled transactions counts here, not that the block is exhausted; one
   that does not fit ends the loop, as if no attempt were left. *)
try_scheduled(w, g, env) ==
    LET turns == Lower(Lower(w.s.weight, w.left), w.scheduled)
        taken == take_shares(w, turns, env)
        v == scheduled_verdict(taken.s, g, env)
        pushed == push_scheduled_transaction(taken.s, g, v)
        weight == IF taken.left = 0 THEN 0 ELSE taken.s.weight + 1
        black == IF v \in {"slow", "hard_fail"} THEN {[id |-> g.id, expiry |-> now + Window]} ELSE {}
    IN  IF g.published >= Pending(w.s).time THEN w
        ELSE IF w.scheduled = 0 THEN [w EXCEPT !.exhausted = TRUE]
        ELSE IF g.id \in {e.id : e \in w.s.blacklisted} THEN w
        ELSE IF taken.scheduled = 0 THEN [taken EXCEPT !.exhausted = TRUE]
        ELSE IF v = "subjective" THEN [taken EXCEPT !.exhausted = TRUE, !.scheduled = 0]
        ELSE [spend(taken) EXCEPT !.s = [pushed EXCEPT !.weight = weight,
                                                       !.blacklisted = @ \cup black]]

earliest(S) ==
    CHOOSE g \in S : \A h \in S :
        g.delay_until < h.delay_until \/ (g.delay_until = h.delay_until /\ g.id <= h.id)

(* Their time starts when the unapplied transactions are done. *)
try_all_scheduled(w, env) ==
    LET due == {g \in Pending(w.s).generated : g.delay_until <= Pending(w.s).time}
        ready == [expire_blacklisted(w) EXCEPT !.scheduled = Lower(w.budget, ScheduledBudget)]
    IN  IF Pending(w.s).mode # "producing" THEN w
        ELSE ForEach(LAMBDA u, g : try_scheduled(u, g, env), ready, due, earliest)

(* Mutant: the queue is only worked on to produce a block. *)
process_incoming_producing_only(w, env) ==
    IF w.exhausted \/ w.budget = 0 \/ Pending(w.s).mode # "producing" THEN [w EXCEPT !.exhausted = TRUE]
    ELSE LET turns == Lower(w.left, w.budget)
         IN  take_some(w, turns, env)

(* The submissions that were queued when the block was started; one that comes
   back to the queue waits for the next block. *)
process_incoming(w, env) ==
    IF w.exhausted \/ w.budget = 0 THEN [w EXCEPT !.exhausted = TRUE]
    ELSE LET turns == Lower(w.left, w.budget)
             taken == take_some([w EXCEPT !.s.weight = 0], turns, env)
         IN  [taken EXCEPT !.exhausted = taken.left > 0]

(* start_block of the plugin: the time is the slot after now and the head. *)
start_block(s, mode, budget, env) ==
    LET time == Higher(now, Last(s.chain).time) + 1
        fresh == pass(controller_start_block(abort_block(s), time, mode), budget)
        done == process_incoming(try_all_scheduled(retry_all_unapplied(
                    expire_persisted(fresh), env), env), env)
    IN  [done.s EXCEPT !.result = IF done.exhausted THEN "exhausted" ELSE "succeeded"]

Modes == IF setup.producers THEN {"producing", "speculating"} ELSE {"speculating"}
AtMostOne(S) == {{}} \cup {{x} : x \in S}
Environments ==
    LET seen == setup.peer_trx \cup {TrxOf[x] : x \in setup.submissions}
    IN  {e \in [heavy : AtMostOne(seen), slow : AtMostOne(seen)] : {} \in {e.heavy, e.slow}}
NoTrouble == [heavy |-> {}, slow |-> {}]

(* How schedule_production_loop may leave the node: a block is started, or none
   is, since the node has to wait or fails to. *)
Loop(s) ==
    {start_block(s, mode, budget, env) : mode \in Modes, budget \in setup.budgets, env \in Environments}
    \cup {[abort_block(s) EXCEPT !.result = "none"]}

-----------------------------------------------------------------------------
(* Actions *)

(* on_incoming_transaction_async *)
Submit(x) ==
    /\ x \in setup.submissions
    /\ node.answer[x] = "none"
    /\ x \notin pool \cup Range(node.incoming)
    /\ pool' = pool \cup {x}
    /\ UNCHANGED <<node, now>>

(* The keys are recovered, in any order, and the transaction is posted back. *)
Recovered(x) ==
    /\ x \in pool
    /\ pool' = pool \ {x}
    /\ \E env \in Environments : node' = process_incoming_transaction_async(node, x, env)
    /\ UNCHANGED now

(* The timer of a speculative block, a resumed or a failed production loop. *)
StartBlock ==
    /\ node' \in Loop(node)
    /\ UNCHANGED <<pool, now>>

(* No block is shipped before its slot begins (NotTooEarly in ProducerPlugin). *)
ProduceBlock ==
    /\ \E b \in node.pending : b.mode = "producing" /\ b.time <= now + 1
    /\ Len(node.chain) < setup.blocks
    /\ node' \in Loop(commit_block(node, TRUE))
    /\ UNCHANGED <<pool, now>>

(* A block of a peer, with at most one transaction or scheduled transaction. *)
PeerBlocks == {[kind |-> "empty"]} \cup [kind : {"input", "scheduled"}, id : setup.peer_trx]

(* apply_block up to its end. *)
run_block(s, time, b) ==
    LET t == controller_start_block(s, time, "none")
        gen == CHOOSE g \in Pending(t).generated : g.id = b.id
    IN  IF b.kind = "input" THEN push_transaction(t, b.id, "ok")
        ELSE IF b.kind = "scheduled"
        THEN push_scheduled_transaction(t, gen, scheduled_verdict(t, gen, NoTrouble))
        ELSE t

applicable(s, time, b) ==
    LET t == controller_start_block(s, time, "none")
    IN  \/ b.kind = "empty"
        \/ b.kind = "input" /\ verdict(t, b.id, NoTrouble) = "ok"
        \/ b.kind = "scheduled" /\ \E g \in Pending(t).generated :
              g.id = b.id /\ g.delay_until <= time /\ g.published < time

apply_block(s, time, b) == commit_block(run_block(s, time, b), FALSE)

(* A block that was applied before, with its receipts; its block state knows what
   it knew. *)
reapply(s, b) ==
    [s EXCEPT !.chain = Append(@, b), !.unapplied = @ \ Input(b)]

reapply_blocks(s, old, first, k) == Repeat(LAMBDA u, i : reapply(u, old[first + i]), s, k)
pop_blocks(s, k) == Repeat(LAMBDA u, i : pop_block(u), s, k)
with_branch(s, n, times, branch) == Repeat(LAMBDA u, i : apply_block(u, times[i], branch[i]), s, n)

(* A better branch of k + 1 blocks, which replaces the last k, becomes known.
   Either all of them apply, or the last one fails at its end: then what was
   applied is undone and the old blocks are applied again. *)
switched(s, k, first, times, branch, fails) ==
    LET applied == with_branch(pop_blocks(s, k), k, times, branch)
        last == run_block(applied, times[k + 1], branch[k + 1])
        undone == pop_blocks(abort_block(last), k)
    IN  IF fails THEN reapply_blocks(undone, s.chain, first, k)
        ELSE commit_block(last, FALSE)

appliable(s, k, times, branch) ==
    \A n \in 0..k : applicable(with_branch(pop_blocks(s, k), n, times, branch), times[n + 1], branch[n + 1])

(* on_incoming_block *)
PushBlock(k, branch, fails) ==
    LET s == abort_block(node)
        first == Len(s.chain) - k
        start == s.chain[first].time
        times == [i \in 1..(k + 1) |-> IF i <= k THEN start + i ELSE Higher(now, start + i)]
    IN  /\ first >= 1
        /\ Len(s.chain) < setup.blocks
        /\ times[k + 1] <= now + 1
        /\ OnlyOwnPopped => /\ \A i \in (first + 1)..Len(s.chain) : s.chain[i].own
                            /\ fails => k = 0
        /\ appliable(s, k, times, branch)
        /\ node' \in Loop(switched(s, k, first, times, branch, fails))
        /\ UNCHANGED <<pool, now>>

Tick ==
    /\ now < setup.time
    /\ now' = now + 1
    /\ UNCHANGED <<node, pool>>

Next ==
    /\ \/ \E x \in Submission : Submit(x) \/ Recovered(x)
       \/ StartBlock
       \/ ProduceBlock
       \/ \E k \in 0..setup.pops : \E branch \in [1..(k + 1) -> PeerBlocks] :
             \E fails \in BOOLEAN : PushBlock(k, branch, fails)
       \/ Tick
    /\ UNCHANGED setup

Spec == Init /\ [][Next]_vars

(* A block that is started in time and has room for everything. *)
PunctualStart ==
    /\ UNCHANGED <<pool, now, setup>>
    /\ \E mode \in Modes :
          node' = start_block(node, mode, Max(setup.budgets), NoTrouble)

(* The clock goes on, the threads finish (a submission is made once, so that the
   pool empties), and while submissions are queued a block is started in time
   again and again.  Weak fairness of Tick, Recovered and PunctualStart, stated
   without ENABLED because of the cost of evaluating it. *)
FairSpec ==
    /\ Spec
    /\ <>(now = setup.time)
    /\ []<>(pool = {}) \/ []<><<pool' \subseteq pool /\ pool' # pool>>_vars
    /\ []<>(node.incoming = <<>>) \/ []<><<PunctualStart>>_vars

-----------------------------------------------------------------------------
(* Properties *)

Blocks(s) == IF s.pending = {} THEN s.chain ELSE Append(s.chain, Pending(s))

(* The records of the node are what the handlers expect; the weight of incoming
   transactions is at most one. *)
TypeOK ==
    /\ pool \subseteq Submission
    /\ now \in Genesis..setup.time
    /\ Cardinality(node.pending) <= 1
    /\ node.unapplied \subseteq Trx /\ node.persisted \subseteq Trx
    /\ Range(node.incoming) \subseteq Submission
    /\ node.weight \in 0..1
    /\ {e.id : e \in node.blacklisted} \subseteq Trx
    /\ \A i \in 1..(Len(node.chain) - 1) : node.chain[i].time < node.chain[i + 1].time

(* Every transaction is in the chain and the pending block at most once, and is
   retired at most once, although the deduplication list forgets it after its
   expiration, forks undo blocks, and it is retried from three lists. *)
ExecutedOnce ==
    LET all == Blocks(node)
    IN  \A i, j \in DOMAIN all : \A p \in DOMAIN all[i].receipts, q \in DOMAIN all[j].receipts :
          LET earlier == all[i].receipts[p]
              later == all[j].receipts[q]
          IN  (i < j \/ (i = j /\ p < q)) /\ earlier.id = later.id
                => earlier.status = "input" /\ later.status # "input"

(* Every submission is in one place: it is being recovered, it is queued once, or
   it has its answer (or it has not been made yet). *)
OneAnswer ==
    /\ IsInjective(node.incoming)
    /\ \A x \in Submission :
          Cardinality({1 : a \in {x} \cap pool} \cup {2 : a \in {x} \cap Range(node.incoming)}
                      \cup {3 : a \in {node.answer[x]} \ {"none"}}) <= 1

(* Unapplied means undone: a transaction of the chain or of the pending block is
   not in the list. *)
UnappliedIsUndone == node.unapplied \cap Applied(node) = {}

(* A node with producers does not lose a transaction it has accepted: until it
   expires or fails, it is in the chain, pending, or kept to be applied again. *)
AcceptedKept ==
    \A x \in Submission :
        (setup.producers /\ node.answer[x] = "ok" /\ Expiration[TrxOf[x]] > now + 1)
            => TrxOf[x] \in Applied(node) \cup node.unapplied \cup node.refused

(* Between pending block, chain and unapplied list an accepted transaction is
   neither lost nor kept twice. *)
NothingLost == TypeOK /\ UnappliedIsUndone /\ AcceptedKept

(* A transaction that was accepted to be persisted is remembered while no block can
   be as late as its expiration. *)
PersistedRemembered ==
    \A x \in Persist :
        node.answer[x] = "ok" /\ Expiration[TrxOf[x]] > now + 2 => TrxOf[x] \in node.persisted

(* ... and while it is, it is in every speculative block that had the time for it,
   unless it failed, whatever forks undo. *)
PersistedApplied ==
    node.result = "succeeded" /\ node.pending # {}
        => node.persisted \subseteq Applied(node) \cup node.refused

(* Persisted transactions are kept applied. *)
PersistedKept == PersistedRemembered /\ PersistedApplied

(* Every submission that is made is answered; each is made at most once. *)
AllAnswered ==
    <>[](\A x \in Submission : node.answer[x] = "none" => x \notin pool \cup Range(node.incoming))
=============================================================================
