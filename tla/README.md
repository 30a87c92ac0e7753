# A TLA+ model of YTBP: consensus, networking, transactions and storage contracts

YTBP is the YottaChain fork of EOSIO 1.7: a delegated-proof-of-stake chain in
which a schedule of producers signs one block per half-second slot, with
contracts of its own for a network of storage miners. This directory models what
decides which chain a node is on, which part of that chain is final and when a
node signs a block; how nodes catch up with each other; how a transaction finds
its way into a block; and how the storage contracts account for deposits, space
and rewards. Runs of TLC check it on small instances, and TLAPS proofs establish
much of it for every instance.

## 1. The system and its parts

| part | state | operations | talks to |
|---|---|---|---|
| `block_header_state` (libraries/chain) | per block: number, slot, producer, active and pending schedule, last produced block and last implied LIB per producer, proposed and actual LIB, the vector `confirm_count` | `generate_next`, `set_confirmed`, `calc_dpos_last_irreversible`, `maybe_promote_pending`, `set_new_producers`, `next` | pure; called by the producing node (controller `start_block`) and by the validating node (`fork_database::add`) |
| `fork_database` (libraries/chain) | index of all reversible block states in three orders, head, `in_current_chain` and `validated` marks | `add`, `prune`, `remove`, `set_validity`, `mark_in_current_chain`, `fetch_branch_from`, `close`, reload | emits `irreversible` into the controller from inside `add`, and from `close` |
| `controller` (libraries/chain) | head, pending block, chainbase with its undo stack, reversible block database, block log | `start_block`, `abort_block`, `commit_block`, `push_block`, `maybe_switch_forks`, `pop_block`, `on_irreversible`, `set_proposed_producers`, `init` | owns the fork database; emits `accepted_block`, `irreversible_block` |
| `producer_plugin` | production switches, watermarks, mode of the pending block, one timer and its correlation id | `start_block`, `schedule_production_loop`, `on_incoming_block`, `maybe_produce_block`, `on_block`, `pause`, `resume`, `update_runtime_options`, `create_snapshot` | drives the controller; single application thread, but timers, network and API handlers interleave |
| transactions: `producer_plugin`, `controller`, `transaction_context` | incoming queue, unapplied, persisted and blacklisted transactions, scheduled transactions, deduplication list | submit, recover keys, push, retry, expire, pop, switch | threads recover keys and post back; every block boundary moves transactions between the lists |
| `net_plugin` | per node: sync state, source, known LIB, last requested and next expected number; per connection: two write queues, request being served, timer | handshake, notice, request, sync request, block, timeout, cut, reconnect | hands blocks to `producer_plugin::on_incoming_block` |
| `eosio.token`, `hdddeposit`, `hddlock`, `channel.sys` | balances, two deposit pools per user, a deposit per miner, locks, frozen accounts, channel balances | transfer, pay in and out, deposit, fine, change depositor, lock, freeze, map, split | inline actions of one transaction; tables of one contract read by another |
| `hddpool` | storage pools, miners in two generations of tables, compact table of ids, score tables | register, enlarge, move, delete, (de)activate, build, draw, pay | calls `hdddeposit` and `channel.sys`; called by `eosio.system`'s `onblock` |
| transaction execution, `resource_limits`, `authorization_manager`, WASM | chainbase tables | per action | inside `apply_block`; decides whether a block applies |
| `eosio.system` with the YTA elections | producers, candidates, votes | vote, register, elect | `update_elected_producers_yta` calls `set_proposed_producers` |
| `bnet_plugin` | sessions | sync | alternative to `net_plugin` |
| `chain_plugin`, history, state history, mongo, http and wallet plugins, programs | export and I/O | queries | read the controller |

What is hard here:

* irreversibility is computed from counters that stand for *different
  producers*; that only holds when nobody confirms a block twice, across
  branches, schedule changes and restarts (the watermarks);
* a block that is added may prune, log and commit old blocks *before* the
  controller has decided whether to switch to it;
* a fork switch that fails half way must restore five pieces of state (head,
  fork database head, marks, chainbase, reversible blocks);
* stop and start persist those pieces in different files and in different order, and
  a kill leaves them as they were in the middle of a handler;
* the production loop is one timer, re-armed by every handler; some paths arm
  none, and an expired timer cannot be cancelled;
* producers change: proposal, pending and active schedule overlap for many
  blocks and each has to carry the right version;
* a node catches up in three stages that several peers drive at once, while
  connections break, timers race answers and blocks overtake requests;
* a transaction is in one of six lists of two components, and aborted blocks,
  fork switches, expiration and deduplication all move or drop it;
* a deposit is not a balance of its own but a part of the balance that four
  contracts promise not to spend;
* the score table rewards are drawn from is built over many blocks while the
  miners in it change, and a reward is paid after it is drawn.

`PROJECT.json` lists these hazards at their lines, with the properties that watch
them.

## 2. Modules

| module | models | how |
|---|---|---|
| `BlockHeaderState` | block_header_state.cpp | operators on a record with the fields of the C++ struct; loops in closed form |
| `ProducerWatermarks` | the watermark rules of `producer_plugin_impl::start_block` | two operators, shared by the next three groups |
| `HeaderChain` | one chain as its producers extend it: `controller::start_block`, `set_proposed_producers`, `commit_block`, `on_block`, one node per producer | `StartBlock`, `SetProposedProducers`, `CommitBlock`, `Restart`; history variables say who confirmed what |
| `ForkDatabase` | fork_database.cpp | operators on a record; a block *is* its chain, since its id commits to it |
| `Controller` | controller.cpp on one node, SPECULATIVE mode | `PushBlock`, `StartBlock`, `AbortBlock`, `CommitBlock`, `Restart`, `Kill` |
| `Ledger` | what a reader of the node may rely on | abstract specification: a replaceable chain, its final part, and crashes, which lose nothing final |
| `ProducerPlugin` | the production loop on one node | one action per handler, clock in ticks |
| `TransactionFlow` | the transaction part of `producer_plugin_impl::start_block`, of its incoming handlers and of the controller | `Submit`, `Recovered`, `StartBlock`, `ProduceBlock`, `PushBlock`, `Tick`; one step of the loop per handler |
| `NetSync` | `sync_manager`, the block side of `dispatch_manager` and `connection` of net_plugin.cpp, any number of nodes | one action per message handler, timer, dial, cut and produced block |
| `HddDeposit` | eosio.token, hdddeposit, hddlock, channel.sys | one action per contract action, its inline actions included |
| `HddPool` | hddpool.cpp, miners and pools | extends `HddDeposit`: registration, enlargement and deletion call its deposit actions |
| `MinerRewards` | hddpool.cpp, score tables and rewards | extends `HddPool`: `onbuild`, `onreward`, `payrewardnew` between any changes of miners |
| `MC...` | | instances for TLC |
| `HeaderChainProofs`, `ControllerProofs`, `ProducerPluginProofs`, `TransactionFlowProofs`, `NetSyncProofs`, `HddDepositProofs`, `HddPoolProofs` | | theorems; those about `MinerRewards` are in `HddPoolProofs` |
| `NumberFacts` | | lemmas which the proofs share: on numbers, on least and greatest elements, on sums over finite sets, and on loops of n rounds |

Correspondence and abstractions worth knowing:

* **Optionals are sets** of at most one element (`pending`, `proposed`,
  `h.new_producers`, `timer`).
* **Mutants**: definitions marked as mutants in a comment are plausible slips in
  the code, used only to confirm that each property can fail.
* **Controller** represents the chainbase state after a chain of blocks by that
  chain; `db.base` is the last committed revision. `outcome` names how the last
  operation ended, so that an assertion of the code that fails is a state the
  properties can speak about. Which block applies is the constant `Valid`. BFT
  confirmations are zero everywhere, as in the code: nothing calls
  `add(header_confirmation)`. A `Kill` loses chainbase and fork database, and leaves
  log and reversible blocks as some point of a handler had them (`on_disk`); the
  operator then starts the node with `replay-blockchain` and
  `fix-reversible-blocks`, and `replay` is modelled in closed form: the fork database
  prunes one level per block, so it may begin below the end of the log
  (`first_kept`). Memory-mapped files are taken to survive the process, not the
  machine.
* **MCController** does not invent fork trees. A plan lists who signs when and on
  which parent; confirmations, LIB and acceptability then follow from
  `BlockHeaderState` and `ProducerWatermarks`, and the assumption `PlanIsHonest`
  has TLC verify that every block of the plan is one an honest producer may sign.
  This is where headers and forks are composed.
* **HeaderChain** delivers every block to every node before the next one starts.
  The early returns of `on_block` for blocks older than the process start or the
  last BFT-signed block cannot be taken then, and are left out.
* **ProducerPlugin** keeps the active schedule fixed, knows a branch by its head's
  number and slot, and lets a peer's block have any number and LIB that the fork
  order admits. A handler whose correlation id is outdated does nothing at all
  when it runs, so only a handler that still matches is kept in `fired`. The
  transaction part of `start_block` appears as the ticks it may take (`MaxSpent`)
  and as the failure to start a block.
* **TransactionFlow** is one node. The time a block has is a budget of attempts
  (`budgets`); a transaction either fits, fails, or does not fit. A retried one that
  does not fit leaves the rest of the unapplied list and makes the block exhausted, but
  the scheduled ones, with incoming ones in between, still have the time up to a
  deadline of their own, which is taken after the retries; only one of them that does
  not fit ends that loop. Conflicting transactions (`Conflicts`) stand for failure.
  Delayed input transactions stand for all scheduled ones. The guard of
  `ProduceBlock` on the block's time is what `NotTooEarly` shows of the loop.
  What a node starts with and what its surroundings may do is a record of
  `Settings`, chosen once; one run so covers several situations. `NetSync` does the
  same.
* **NetSync** lets all nodes work on one chain and sets LIB = head - `Lag`, so that
  only the order of arrival is left of forks. Every connection has its two write
  queues in each direction, in the order in which the code drains them. Messages
  about time and transactions are left out; `go_away` cannot be sent between
  honest nodes of one chain; the size of the write queue is not limited.
  Generations of handshakes above 2 are merged: no handler tells them apart. A
  listening node accepts a new connection after it has erased the old one. The code
  accepts at once, so that two connections of one peer may exist for a while; the
  model has one per pair. `close` leaves the out queue alone: a write under way when
  a connection breaks ends in `WriteAborted`, which leaves the connection `stuck`, and
  a dialled connection is the same object when it is dialled again.
* **HddDeposit** reads a missing row as zeros, as every reader in the code does.
  The locks of an account are kept as what they lock at each time; lock rules are
  only ever added, so this is a function of the calls made. Authorisation is left
  out: every action may be called by whoever the code allows. `givers` is a history
  variable. The rate is what a GB costs in the smallest unit of the token, a hundred
  times `deposit_rate.rate`. `calc_deposit` and `is_deposit_enough` multiply doubles and
  cut the product down to an integer: for prices below 2^50 units the rounding errors
  stay below one unit, so the result is the price or one unit less. `Truncated` says
  for which spaces and rates; the proofs leave it open, and `pool` has the pairs that a
  double gives at rate 29. Votes (`changevotes`, sent inline by some actions) are not modelled.
* **HddPool** measures space in units of 65536 blocks (1 GB), the granularity the
  code enforces on registration and uses for scores. HDD balances and prices are
  left out; the code freezes them after `hddm_latest_stop_time`. Profit is
  the space it is computed from. `newminer` and `addm2pool` are disabled in the code;
  miners without space, which only they made, are not in the initial states, so that
  `oldsync` always finds space and gives an id (hddpool.cpp:1866-1868 is for the
  others).
* **MinerRewards** takes the amount of a reward as a constant. A payment that fails
  (a deleted miner, an empty fund) drops the deferred transaction, as the code
  does; one without gas is only logged.

## 3. What the runs check

| run | result | distinct states |
|---|---|---|
| `headers_equal` | seven properties hold | 257 180 |
| `headers_liveness` | `LibAdvances`, `ProposedBecomesActive` hold | 3 540 |
| `headers_shrinking` | `CommittedBlockBecomesHead` violated (finding 1) | |
| `controller_forks` | `NoBrokenAssertion`, `CopiesAgree`, `ForkDatabaseConsistent`, `ImplementsLedger`, `Converges` hold | 6 970 |
| `controller_lib_race` | `NoBrokenAssertion` violated (finding 2) | |
| `producer_loop` | five invariants hold | 471 999 |
| `producer_produces` | `Produces` holds | 139 813 |
| `net_sync` | `CatchupSound`, `NobodyForgotten`, `SettledNodesAgree`, `CatchesUp` hold | 74 998 |
| `transactions` | `ExecutedOnce`, `OneAnswer`, `NothingLost`, `PersistedKept`, `AllAnswered` hold | 148 822 |
| `deposits` | four invariants and `FrozenStays` hold | 478 464 |
| `pool` | `SpaceAccounted`, `IdsPartition`, `SpaceCovered` hold | 346 413 |
| `rewards` | `ChancesAreWeights`, `CurrentStable`, `EligibleEntersTable` hold | 458 520 |

The properties, by what they protect:

* *Finality*: `QuorumBehind`, that is `QuorumBehindProposed` (counters count different
  producers) and `QuorumBehindLib`; `LibBelowHead`, `ConfirmsOnce` (the ranges a producer
  confirms are disjoint on any branches), `ActiveScheduleIrreversible`.
* *One chain, five copies*: `CopiesAgree` (`StateMatchesHead` and
  `LogAndReversibleAreHead`), `ForkDatabaseConsistent` (`ForksBuildOnLog`,
  `HeadIsBest` and `CurrentChainIsMarked`), `ImplementsLedger`.
* *Assertions that "should never fail"*: `NoBrokenAssertion`,
  `CommittedBlockBecomesHead`, `ProposedScheduleInstallable`,
  `ProducedBlockAccepted`.
* *Progress*: `LibAdvances`, `ProposedBecomesActive`, `Converges`, `NeverAsleep`,
  `NoTurnSleptThrough`, `Produces`; and `NotTooEarly` against too much of it.
* *Catching up*: `CatchupSound`, that is `CatchupIsWatched` (somebody will notice when
  an answer does not come) and `ExpectedBlockLinks`; `NobodyForgotten` (a peer held
  back is still being waited for), `SettledNodesAgree` (silence means agreement),
  `CatchesUp`.
* *Transactions*: `ExecutedOnce`, `OneAnswer`, `AllAnswered`, `NothingLost`
  (`UnappliedIsUndone` and `AcceptedKept`), `PersistedKept` (`PersistedRemembered` and
  `PersistedApplied`).
* *Tokens*: `DepositTypeOK` (nothing signed becomes negative), `DepositBacked`,
  `DepositsAccounted`, `ChannelBacked`, `FrozenStays`, `SpaceCovered`.
* *Space and rewards*: `SpaceAccounted` (`QuotaIsUsed`, `OwnerSpaceIsEarned` and
  `TablesAgree`), `IdsPartition`, `ChancesAreWeights` (`SelectionExact`, a miner is
  drawn as often as its weight says, and `NobodyTwice`), `CurrentStable`,
  `EligibleEntersTable`.

### Findings

1. **A shrinking schedule can stop the chain** (`headers_shrinking`). The LIB of a
   block is the value a third into the list of its producers' implied LIBs. When a
   smaller schedule takes over, one lagging member weighs more, the LIB of the
   next block is *lower* than its parent's, and in the fork database's order the
   block loses against its parent: `commit_block`'s assertion (controller.cpp:692)
   fails on the producing node. `update_elected_producers_yta` dropped the guard
   against shrinking that `update_elected_producers` (voting.cpp:496) has.
2. **Prune before switch** (`controller_lib_race`). `fork_database::add` prunes
   below the LIB of the new head before `maybe_switch_forks` runs; the fork point
   may be the block pruned, and `pop_block` throws half way (controller.cpp:150).

Met while modelling, and outside the instances of the runs, which would otherwise
stop at them. Each can be had back with the constants named:

* *A producer that comes back may have its first block rejected*: `on_block` looks one
  block ahead to give newly installed producers a watermark (producer_plugin.cpp:220),
  and assumes that the next slot is used. When it is missed, the promotion may happen
  in a block `on_block` did not foresee; a producer that was in the schedule before
  then confirms from its old watermark, `next` counts its last production from the
  promotion, and everybody rejects the block with `producer_double_confirm`
  (block_header_state.cpp:156). `ProducedBlockAccepted` leaves this block out;
  `headers_equal` with
  `MaxBlock` = 20, `MaxProposal` = 10, `MaxSkip` = 2, `uint16_values` = 16 and everybody
  in `Unreliable` violates `EveryBlockAccepted` (TLC's simulation mode finds it).
* *Equal blocks swap over two restarts*: `init` compares numbers, not ids
  (controller.cpp:378-389). `controller_forks` with `MaxRestarts` = 2 violates
  `StateMatchesHead` (restart, reject the bad block, restart).
* *A replay of a log with the genesis block only is refused*: `init` replays only when
  the log is ahead of genesis (controller.cpp:365) and then finds reversible blocks
  above the head; its message asks to "replay blockchain". `controller_forks` with
  `LeastLog` = 1 violates `NoBrokenAssertion`.
* *Watermarks are not durable*: confirming nothing after a crash does not keep a
  producer from signing the same number again (producer_plugin.cpp:1111).
  `producer_loop` with `MayRestart` = TRUE violates `ConfirmsOnce`.
* *The correlation id does not cover passes without a timer*: an expired production
  handler survives a pass of the loop that arms nothing (producer_plugin.cpp:170);
  the assertion in `produce_block` catches it, at the price of the pending block.
  `producer_loop` violates `TimerMeansPending`.
* *A catch-up with nothing to fetch*: `sync_required` compares with the last
  requested number, not with the head (net_plugin.cpp:1408); the node waits in
  `lib_catchup` without a timer. `CatchupIsWatched`, with the heads of `Star` at
  a = 6, b = 1, c = 3.
* *A range request drops a branch being served* (net_plugin.cpp:2464): both nodes are
  in sync and silent with different heads. `SettledNodesAgree`, with the heads of
  `Star` at a = 6, b = 1, c = 5.
* *A dialled connection that broke in the middle of a write never sends again*
  (net_plugin.cpp:813-835, 1000-1011): `close` clears the two waiting queues, and the
  queue of what is being written is cleared after a successful write only. Dialled
  again, the connection takes it for a write under way (426: "if out_queue is not empty
  then async_write is in progress") and its handshake is never sent. `CatchesUp` leaves
  out runs that end with such a connection (`Choked`); `net_sync` violates
  `EverybodyCatchesUp`.
* *The stage survives the connection* (net_plugin.cpp:813, 1416): a node reconnecting
  in `head_catchup` fetches one chunk and stops. `CatchesUp`, with the heads of
  `Pair` at a = 5, b = 3.
* *Transactions of a peer's undone block are lost* (controller.cpp:159), although the
  comment promises to recapture them: only own blocks carry the copy they are
  recaptured from. `AcceptedKept`, with `OnlyOwnPopped` = FALSE.
* *A persisted transaction is dropped one slot early* (producer_plugin.cpp:1146):
  `<=` here, `<` where it expires. After a fork switch to a lower head the next pending
  block may be earlier than one that was started before, so a transaction can be
  forgotten while it could still be in a block. `PersistedRemembered` therefore only
  speaks of expirations that no block started so far can have reached.
* *A transfer to a forfeit account is taken for a fine* (eosio.token.cpp:121) and not
  held against the sender's deposits. `deposits` violates `EveryDepositBacked`;
  `DepositBacked` leaves out accounts that made one themselves.
* *A deposit paid in steps may not be enough for the whole* (hdddeposit.hpp:213-216,
  235-238): at rate 29 two steps of 100 GB ask for 289999 units each, and 200 GB for
  579999. `SpaceCovered` therefore allows for one unit (0.0001 YTA) per GB; `pool`
  violates `DepositSuffices`.
* *A deactivated miner without space earns again* (hddpool.cpp:577). `pool` violates
  `DeactiveEarnsNothing`.
* *A banned miner is paid until the next table* (hddpool.cpp:2540). `rewards` violates
  `PaidInGoodStanding`.
* *The number of a deleted miner used again* can have two rows in one table:
  `rewards` with `Reregister` = TRUE and `MaxChanges` = 6 violates `NobodyTwice` (without
  levels and reported spaces it is found quickly).

### Bounds, and why they are enough

* `headers_equal`: 15 blocks, two lists of four out of five producers that differ
  in one member, and an empty one; three of the five may miss slots and one node
  may restart. A proposal may come in any block up to 7, so a second one meets the
  first in each of its phases (proposed, pending, active); a third list, with which a
  producer could leave and come back, no longer fits. A vector of four
  tracked confirmations and 16-bit values reduced to four make both limits bind.
  `producer_repetitions` is 1: repetitions only stretch turns (ProducerPlugin
  uses 2).
* `headers_liveness`: 20 blocks let the LIB pass every proposal.
* `controller_forks`: a tree of 21 blocks (`ForkPlan`) with two branches of equal LIB,
  equally long at two heights, a block that fails in the middle of the better
  branch, own blocks on the losing branch, and a LIB that stands still and then
  jumps by several blocks, so that pruning lags; every order of arrival is
  explored, with one clean stop and start and two kills at any point. `LeastLog`
  keeps kills to chains with an irreversible block. `controller_lib_race` uses
  `RacePlan`, the smallest race we found.
* `producer_*`: an interval of three ticks, two producers with two slots each, 18
  ticks (three rounds), three events, delays of one tick. Sleep threshold,
  deadline offsets and age limits fall on different ticks, so each comparison is
  met on both sides. In `producer_loop` `blocks_to_confirm` wraps at 2.
* `net_sync`: three nodes, chunks of two blocks (`Span`), LIB two behind the head.
  `Pair`: a node behind the LIB of its peer, which produces another block; one cut
  and one premature timeout at any point. `Star`: behind the LIB of two peers.
  `Relay`: three nodes of which each is only behind the head of another, and one
  produces. With cuts in `Star` or `Relay` or a second one in `Pair` the runs meet
  the disagreements listed above.
* `transactions`: two transactions that exclude each other, two delayed ones, up to
  three submissions, chains of up to three blocks, blocks with no, little and ample
  time, expiration within the run (`Api`), and a fork switch that undoes an own
  block (`Forks`).
* `deposits`: two users, one miner under the old rules, whose deposit is the only
  token anybody starts with (the rest is issued or mapped within the run), amounts
  and fines of one and two, two rates, one lock rule, one split rate, one tick.
  `pool`: two miners, three owners, two
  pools with room for 200 GB, spaces of 100 and 200 GB, tokens for one registration of
  a pool, fines of the price of 100 GB, the fixed rate 29 (after `setrate` the code
  lets existing deposits be, and `SpaceCovered` does not speak about them); transfers
  are off (`Amounts` is empty), since `deposits` has them. A third miner adds no new
  case to the sums; a free list of three ids is left to the proofs, which cover every
  number of users, miners, owners and pools.
* `rewards`: up to two miners at a time out of three, one id per `onbuild`, so that changes fall between any two
  ids, three changes of miners between any builds, draws and payments, spaces of one
  and two, a level of one half, which rounds a weight to 0, and a reported space
  below the registered one. One token can be issued and one mapped, as gas or as a
  deposit, so that a reward may be paid, only logged, or fail. Tables have up to two
  rows: the number drawn is met in the first or second probe or lies beside it. Longer
  tables and the limit of probes are left to the proof of `ChancesAlwaysWeights`.

### Fairness

* `HeaderChain`: `StartBlock` and `CommitBlock` are weakly fair: the timers of the
  producers whose turn it is fire, which `producer_produces` shows of the loop
  itself. Producers in `Unreliable` may still miss any slot.
* `Controller`: weak fairness of `PushBlock` for every valid block: peers offer a
  block as long as the node does not have it (sync restarts from the LIB). Own
  blocks and invalid blocks are not fair.
* `ProducerPlugin`: the clock, the timer and the application's event loop do not
  stop. `Punctual` in `producer_produces` says that due handlers run before the
  next tick: a node that is always late may miss every slot, and the code makes no
  promise then. The finite `MaxEvents` says that peers' blocks and operator
  calls leave the loop alone eventually.

* `NetSync`: weak fairness of the nodes' own steps: sockets deliver, writes complete,
  timers fire, broken connections are noticed and dialled again, producers go on. Cuts
  and premature timeouts are not fair. `Due` spells out when such a step is enabled.
* `TransactionFlow`: the clock reaches the end of the run, threads finish, and as long
  as submissions are queued a block is started again and again in time to look at
  them.
* `MinerRewards`: as long as there are ids `onbuild` goes on; eosio.system's `onblock`
  (producer_pay.cpp:92-109) sends it in every block in which it is due and no reward
  is.

Deadlock is checked in the runs of `HeaderChain`, `Controller` and
`ProducerPlugin`, where `Done` marks that a bound is reached. It is not in the
others: nodes that agree have nothing left to do, and contracts do nothing unless
called, so those behaviours may end.

## 4. What is proved

Proved by TLAPS for every value of the constants, from the named assumptions in
the modules: `ProducerAssumption` ... `BoundsAssumption`, `RepetitionsAssumption`,
`TrackedAssumption`, `Uint16Assumption`, those of `ProducerPlugin`,
`FlowAssumption` (transactions are a finite set of numbers; expirations, delays and
budgets are natural numbers, and no setting ends before genesis),
`DepositAssumption` (users and miners are finite sets, and no user is one of the
contracts' own accounts), the assumptions of `HddPool` and `NoRowAssumption` (the
value that stands for a missing row is no row), and for blocks `BlockAssumption`,
`IrbAssumption` and `LibAssumption` (a block's LIB is below its number, which
`HeaderChainProofs` shows of every header state). Where a theorem needs more, it says
so in its own hypothesis, and the list below says why.

* `HeaderChainProofs`: `TypeCorrect`, `LibStaysBelowHead`, `ProposalsInstall`, all
  from one inductive invariant

      Inv == TypeOK /\ Bounded(head) /\ Installable(head, proposed)
                    /\ \A b \in pending : PendingOK(head, b)

  `LibBelowHead` alone is not inductive: the LIB is some producer's implied LIB,
  so `Bounded` adds that no implied LIB is above the proposed irreversible block
  and that `confirm_count` is never longer than the distance from that to the
  block itself, since numbers are computed from positions in the vector.
  `ProposedScheduleInstallable` needs the same of the pending block's own
  proposal (`PendingOK`), because promotion changes which schedule is the latest.
  Lemmas follow the operators: what `generate_next`, `set_confirmed` and
  `maybe_promote_pending` do to each field, that the value a third into a list is
  one of its values, that a turn lies within the schedule.

  Its second part is about finality:

  * `QuorumBehindEveryProposed`, without any hypothesis, from `QuorumInv`. The
    argument is a count: for every counter still in `confirm_count`, what the block
    needed is at most what the counter still asks for plus the number of *different*
    producers that confirmed it (`Counted`). A block counts one down only where its
    producer has not confirmed before, since a watermark is at or above everything
    its producer confirmed (`Seen`).
  * `QuorumBehindEveryLib`, `QuorumBehindIrreversibility`, `ActiveSchedulesSettled`
    and `CommittedBlocksBecomeHead` from `LibInv`: the LIB is at most the largest
    value that more than two thirds imply, no implied LIB moves back, and a schedule
    that takes over gives newcomers the LIB of the moment, so the LIB cannot fall.
    The hypothesis `EqualSizes` (all schedules proposed have one length) is what this
    needs: with a smaller list the third shrinks. `headers_shrinking` shows that
    without it `CommittedBlockBecomesHead` is false (finding 1).
  * `ProducedBlocksAccepted` from `AcceptInv`: the pending block's state is what
    `next` rebuilds from its header (`Built`), and no producer's last production is
    beyond the head (`LastBounded`).

* `ControllerProofs`: `AssertionsHold`, `CopiesAlwaysAgree`, `ForksAlwaysConsistent`
  and the refinement `LedgerImplemented`, for every tree of blocks, of any depth and
  width, every set of valid and of own blocks, and any number of kills. All four come
  from `Invariance`, the inductiveness of `CInv`:

  * `Rooted`: the fork database holds whole chains from one level m on, and they all
    continue the same part of the block log; until a kill m is not below the last
    committed revision. That is why the oldest block links to the log, why a branch
    that `fetch_branch_from` walks over is there, and why chainbase can step back to
    any fork that is still held.
  * `Held`: nothing in the index beats the head, also among blocks of equal LIB and
    number, so that a new block is the only candidate for a switch; `Marked`: what
    `in_current_chain` marks.
  * `Stored` and `Apart`: database, log and reversible blocks against the head.

  `StepHolds` is the inductive step, one lemma per action (`Pushed`, `OwnCommitted`,
  `SessionKept`, `Restarted`, `Killed`), on top of lemmas about `inserted`
  (`Inserting`), `pruned` (`PrunedFork`), `maybe_switch_forks` (`MaybeSwitched`:
  `Extended`, `Forked`, `Rejecting`, `NotLost`) and the replay (`Replayed`,
  `FirstKeptBounds`). Three hypotheses are needed:

  * `Intact`, in every state: no `pop_block` has failed, which is finding 2. A node that
    was never killed is granted nothing else: that the log links, that a committed
    block is the head, that no fork is lost and that `init` accepts what it finds is
    proved. After a kill it is also granted that the replay was not refused and no fork
    below the replayed database was switched to; a switch interrupted by the kill may
    leave reversible blocks of both branches, and whether those replay depends on
    what the blocks contain.
  * `MaxRestarts <= 1`: over two restarts blocks of equal LIB and number may change
    places, as listed in section 3.
  * `LibNeverFalls`: a block's LIB is not below its parent's. `HeaderChainProofs` shows
    it while schedules keep their size; finding 1 is what happens otherwise.

* `ProducerPluginProofs`: `TypeCorrect` from `TypeInv`. `LoopNeverAsleep` from
  `AwakeInv` (production mode always has a timer or a due handler, the clock does
  not run backwards: a policy that disables production by the age of the LIB stays
  in force until an event, which re-evaluates). `WatermarksSeparate`, for nodes that
  do not restart, from `ConfirmInv` (what is signed is at or below the watermark, and
  a pending block to be signed confirms only numbers above it); a restart breaks it,
  as listed in section 3, so the hypothesis is needed. `BlocksNotTooEarly` from
  `EarlyInv` (a production timer or handler only ever belongs to a block whose time
  it fits), if the operator's offsets do not reach back further than one interval
  (`OffsetsWithinInterval`): a block leaves as early as he asks for.
  `TurnsNotSleptThrough` from `SleepInv`; its core is `calculate_next_block_time`:
  it skips a turn of a producer only for the producer's watermark (`TurnSkipped`), by
  arithmetic on turns and repetitions for every length of schedule.

* `HddDepositProofs`: `AmountsNeverNegative` and `DepositsBacked` from `DepositInv ==
  DepositTypeOK /\ DepositBacked`. Neither is inductive
  alone: that a fine does not make a balance negative rests on the deposit being
  backed, and that a deposit stays backed on pools being natural numbers. The
  argument is one lemma per group of actions; `TransferGuard` and `TransferKeeps`
  say what the rules of `transfer` guarantee and every action that moves tokens cites
  them. `FrozenAccountsKeep` is the action property, from the type invariant.
  `DepositsAlwaysAccounted` and `ChannelAlwaysBacked` are each inductive beside
  `DepositInv`: an operation changes one term of a sum at a time, and `NumberFacts` says
  what this does to the sum. The lemmas are stated for any deposit step (`AnyStep`),
  with amounts that are arbitrary, so that the next module can use them.

* `HddPoolProofs`: `SpaceAlwaysAccounted` from `PoolInv`. The rows that describe one
  miner agree (`RowsAgree`, per miner), and an operation replaces the rows of one miner
  (`RowStep`), which changes each sum by the difference of one term. The invariant
  needs that a registered miner takes some space: otherwise its pool, with nothing
  used, could be deleted under it. `IdsAlwaysPartitioned` from `IdsInv`, which has the
  walk through the free list itself. `SpaceAlwaysCovered`, if there is one rate
  (`setrate` leaves existing deposits alone) and the deposit the old miner starts with
  covers its space, from `CoverInv`. It compares with the exact price (`DepositBounds`
  says how far `calc_deposit` is from it) and is about deposits of the old kind too,
  since one becomes new with its total. `PoolKeepsDeposits` is the composition: every
  step of `HddPool` is a deposit step or leaves the deposits alone, so all that
  is proved of the deposit contracts holds under `hddpool`'s calls as well.

* The second part of `HddPoolProofs` is about `MinerRewards`, for every batch size and
  number of probes, from `RewardInv`:

  * `RewardsTyped` and `CurrentAlwaysStable`, without hypotheses. `InBatch` is what
    holds after every id of a batch: the copy in use is as it was, the other one has
    increasing ranges (`Filled`), or the two have just been swapped. A batch is a loop
    over ids, so the step from one id to the next (`BuildOneKeeps`) is carried through
    it by `RoundsExist` and `RoundsKeep` of `NumberFacts`.
  * `ChancesAlwaysWeights`. A miner that has a row in the copy being filled was deleted
    since, or has an id below the one that comes next (`Handled`), and no change of a
    miner gives another one its id while it is registered (`PoolActionsKeepIds`); so
    nobody gets a second row. That is why the hypothesis excludes using the number
    of a deleted miner again. The search keeps the rows before `low` below the number
    drawn and those after `high` above it (`Found`); each probe halves what is left
    (`ProbeNarrows`). The probe that uses up `MaxProbes` gives up, so n probes are
    enough for `Reach[n]` rows, 0 for n = 1 and twice as many and one more for each
    further probe: 2^19 - 1 = 524287 with the code's 20. The hypothesis says that
    there are no more miners than that; in a larger table some draws would be void.
  * `RewardsKeepTheRest`: `RewardInv` beside the invariants of the two modules below,
    since a payment is a deposit step like any other.

* `NetSyncProofs`, for any number of nodes and connections, any loss of connections and
  any order of delivery:

  * `ExpectedBlocksLink`, without hypotheses: the sync manager never asks beyond the
    highest LIB it knows of, and the block it expects next links to its head.
  * `OnlyIdleStartsUnwatch`: a node that catches up has something left to fetch and a
    timer on its source (`AllWatched`). The one step that can end this is `IdleStart`,
    a notice that starts a catch-up with nothing to fetch, listed in section 3.
  * `CatchupStaysSound` is the run's invariant `CatchupSound`, with the absence of that
    one step as its hypothesis (`NoIdleStart`); in the run `net_sync` it never happens.

* `TransactionFlowProofs`, for every finite set of transactions, any expirations, delays,
  conflicts and submissions, any chain length and depth of fork switches, from `FlowInv`
  (`FlowInvHolds`):

  * `TransactionsExecutedOnce`. The chain with its pending block is one list of blocks.
    `Dedup` says of each block that its deduplication list still has every transaction
    recorded up to it that is not expired at the block's time, which is what a later push
    is checked against, and that each scheduled transaction was recorded, has not been
    retired and is scheduled once. It is needed at every position, since undoing a block
    brings back the lists of its parent; `Fits` is what a new block adds to it. The
    equality at the expiration matters: `verdict` admits a transaction in a block at its
    expiration, and the list must not have forgotten it there.
  * `SubmissionsAnsweredOnce` from `Tidy`: queue, recovery threads and answers exclude
    each other, and the queue has nothing twice.
  * `UnappliedAreUndone`, also without any hypothesis, from `Sane`.
  * `AcceptedAreNotLost` and `PersistedAreKept` from `Promises`, under `OnlyOwnPopped`,
    that is, fork switches undo blocks of this node only. The code keeps neither for
    peers' blocks, as listed in section 3, so the hypothesis is needed; the run
    `transactions` has the same.

  `start_block` works through four lists one element at a time and a fork switch through
  two branches. These loops are written as recursive functions over the number of rounds
  (`Repeat`, `ForEach`), and one lemma per loop body is carried through them by
  `RoundsExist` and `RoundsKeep` of `NumberFacts`: what each round keeps, the whole loop
  keeps. That persisted transactions are all applied at the end of the loop needs one
  more invariant of it (what is still left to retry). TLC does not evaluate `FlowInv`
  itself, which ranges over all possible blocks; the properties it implies are those of
  the run.

Only model-checked, and why:

* liveness everywhere, and with it the fairness assumptions;
* `NobodyForgotten` and `SettledNodesAgree` of `NetSync`, which relate all nodes to each
  other when nothing is on its way; and that a catch-up never begins with nothing to
  fetch, which depends on how far heads and LIBs of two nodes can be apart;
* the controller over more than one restart, where the theorems' hypothesis ends (and
  the runs' bound too);
* that a block is accepted when its producer came back unforeseen: false, see
  section 3.

## 5. What is not modelled

Listed in `PROJECT.json` with reasons. In short:

* *Out of reach of a state machine*: WASM and the virtual machine bindings, ABI
  serialisation, cryptography, the vendored libraries (wasm-jit, wabt, softfloat,
  miniz, CLI11), command line programs, wallet, http and export plugins. They are
  most of the repository's lines and keep no protocol state; the models cover the
  code that does, a few thousand lines of chain library, plugins and contracts.
* *Planned*: snapshots, the IRREVERSIBLE and READ_ONLY
  modes, elections and votes in `eosio.system`, `resource_limits`, deferred
  transactions generated by contracts.
* *Dead code here*: BFT confirmations; HDD balances and prices of `hddpool`, which
  stop at `hddm_latest_stop_time`.
* *A second implementation of the same role*: `bnet_plugin`.

## 6. Plan

Extending the model, most important first:

1. `Controller`: the IRREVERSIBLE read mode, snapshots.
2. Several nodes: `Controller` and the watermarks of `ProducerPlugin` composed
   over `NetSync`, with the agreement of block logs as the property.
3. YTA elections (which schedules can be proposed, the recalculation of votes that
   deposits trigger), `resource_limits` as pure operators against a reference.
4. Deferred transactions with a sender: `onerror`, replacement and cancellation.

Proving more:

1. `NobodyForgotten` of `NetSync` for any number of nodes.
2. `ControllerProofs`: when a replay is accepted, so that less is granted after a kill.
3. `EveryBlockAccepted` when no slot is missed (`Unreliable` empty), where `on_block`
   foresees every promotion.
4. `AcceptedAreNotLost` for peers' blocks, if `pop_block` kept a copy for those as well.
