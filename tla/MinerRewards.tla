---------------------------- MODULE MinerRewards ----------------------------
(***************************************************************************)
(* How hddpool picks the miners it rewards.  Every few blocks onblock has  *)
(* onbuild put the next ids of the compact table into a score table; when  *)
(* all ids are done that table becomes the current one and the other one   *)
(* is overwritten next.  onreward draws a number and searches the current  *)
(* table; the reward is paid by a deferred transaction, while miners are   *)
(* registered, deleted and deactivated in between.                         *)
(*                                                                         *)
(* Table 1 weighs a miner by its capacity, table 2 by its production       *)
(* space.  Composed with HddPool.                                          *)
(***************************************************************************)
EXTENDS HddPool

CONSTANTS
    BuildBatch,  \* ids that one onbuild handles, 3 in the code
    MaxProbes,   \* probes of the binary search, 20 in the code
    Reward, Gas, \* the amounts of a reward and of its gas, which change from day to day
    MaxPending,  \* bound: payments on their way
    MaxChanges,  \* bound: changes of miners
    Reregister   \* whether the number of a deleted miner is used again

ASSUME RewardAssumption ==
    /\ BuildBatch \in Nat \ {0} /\ MaxProbes \in Nat \ {0} /\ Reward \in Nat /\ Gas \in Nat
    /\ MaxPending \in Nat /\ MaxChanges \in Nat /\ Reregister \in BOOLEAN /\ Owners \subseteq Users

VARIABLES
    score,        \* score[k][s]: table k, copy s; old rows stay behind the new ones
    build,        \* mscore2ex: the current copy, its counts, and the build under way
    reward_type,  \* which table the next reward is drawn from
    pending,      \* deferred payrewardnew transactions
    gone,         \* miners that were deleted
    changes       \* changes of miners so far

rewardVars == <<score, build, reward_type, pending>>
allRewards == <<rewardVars, gone, changes, allPool>>

Kinds == 1..2

NewBuild == [proc |-> 1, range |-> [k \in Kinds |-> 0], built |-> [k \in Kinds |-> 0]]

RewardInit ==
    /\ PoolInit
    /\ score = [k \in Kinds |-> [s \in 0..1 |-> <<>>]]
    /\ build = [current |-> 0, count |-> [k \in Kinds |-> [s \in 0..1 |-> 0]], job |-> NewBuild]
    /\ reward_type = 1
    /\ pending = {}
    /\ gone = {} /\ changes = 0

-----------------------------------------------------------------------------
(* onbuild. *)

eligible(m) == miner[m] # NoRow /\ miner[m].status = 0 /\ miner[m].max > 0

\* The level is a percentage; what is left after rounding down may be nothing.
capacity(m) ==
    LET row == miner[m]
        realspace == IF row.real > 0 /\ row.max > row.real THEN row.real ELSE row.max
    IN (realspace * row.level) \div 100

production(m) == 3 * (IF miner[m].space = 0 THEN 1 ELSE miner[m].space)

weight(k, m) == IF k = 1 THEN capacity(m) ELSE production(m)

\* Mutation of written: once both copies are filled the one in use is overwritten.
written_current(b) == IF b.count[2][1 - b.current] = 0 THEN 1 - b.current ELSE b.current

written(b) == 1 - b.current

\* Mutation of put: a row of an earlier build is not overwritten.
put_append(rows, i, row) == Append(rows, row)

put(rows, i, row) == IF i \in DOMAIN rows THEN [rows EXCEPT ![i] = row] ELSE Append(rows, row)

\* Both tables after miner m: a miner of weight 0 gets no row.
with_miner(w, m) ==
    LET b == w.build
        has_row(k) == weight(k, m) > 0
        range(k) == b.job.range[k] + weight(k, m)
    IN
    [score |-> [k \in Kinds |-> IF ~has_row(k) THEN w.score[k]
                  ELSE [w.score[k] EXCEPT ![written(b)] =
                          put(@, b.job.built[k] + 1, [minerid |-> m, range |-> range(k)])]],
     build |-> [b EXCEPT !.job.range = [k \in Kinds |-> range(k)],
                         !.job.built = [k \in Kinds |-> @[k] + (IF has_row(k) THEN 1 ELSE 0)]]]

\* The copy that was built becomes the current one.
swapped(b) ==
    [current |-> 1 - b.current,
     count |-> [k \in Kinds |-> [b.count[k] EXCEPT ![1 - b.current] = b.job.built[k]]],
     job |-> NewBuild]

\* Mutation of built_all: the last id is not looked at.
built_all_early(proc) == proc >= Len(ids.table)

built_all(proc) == proc > Len(ids.table)

\* One id; done tells that the tables were swapped, which ends onbuild.
build_one(w) ==
    LET id   == w.build.job.proc
        m    == ids.table[id].minerid
        next == IF m # NoRow /\ eligible(m) THEN with_miner(w, m)
                ELSE [score |-> w.score, build |-> w.build]
        b    == [next.build EXCEPT !.job.proc = id + 1]
        done == built_all(id + 1)
    IN [score |-> next.score, build |-> IF done THEN swapped(b) ELSE b, done |-> done]

\* The tables after n ids.
batch[n \in 0..BuildBatch] ==
    IF n = 0 THEN [score |-> score, build |-> build, done |-> FALSE]
    ELSE IF batch[n - 1].done THEN batch[n - 1] ELSE build_one(batch[n - 1])

onbuild ==
    /\ ids.table # <<>>
    /\ score' = batch[BuildBatch].score /\ build' = batch[BuildBatch].build
    /\ UNCHANGED <<reward_type, pending, gone, changes, allPool>>

-----------------------------------------------------------------------------
(* onreward and the payment. *)

current_rows(k) == SubSeq(score[k][build.current], 1, build.count[k][build.current])

\* Probe n of the binary search for sel: row is the one that has sel as its range,
\* 0 while there is none, and -1 once the search is given up.
narrowed(rows, sel, n, s) ==
    LET mid == (s.low + s.high) \div 2 IN
    IF s.row # 0 \/ s.low > s.high THEN s
    ELSE IF rows[mid].range = sel THEN [s EXCEPT !.row = mid]
    ELSE IF n >= MaxProbes THEN [s EXCEPT !.row = -1]
    ELSE IF sel > rows[mid].range THEN [s EXCEPT !.low = mid + 1]
    ELSE [s EXCEPT !.high = mid - 1]

probe(rows, sel) ==
    LET search[n \in 0..MaxProbes] ==
          IF n = 0 THEN [row |-> 0, low |-> 1, high |-> Len(rows)]
          ELSE narrowed(rows, sel, n, search[n - 1])
    IN search[MaxProbes]

\* The row that is drawn, 0 if none.
drawn(rows, sel) ==
    LET p    == probe(rows, sel)
        high == IF p.low = 1 THEN 1 ELSE p.high
    IN IF p.row # 0 THEN (IF p.row > 0 THEN p.row ELSE 0)
       ELSE IF high \in DOMAIN rows /\ rows[high].range >= sel THEN high
       ELSE IF high \in DOMAIN rows /\ p.low \in DOMAIN rows THEN p.low ELSE 0

onreward ==
    LET rows == current_rows(reward_type) IN
    /\ reward_type' = 3 - reward_type
    /\ \/ /\ rows = <<>>
          /\ UNCHANGED pending
       \/ /\ rows # <<>> /\ Cardinality(pending) < MaxPending
          /\ \E sel \in 1..rows[Len(rows)].range :
               LET row == drawn(rows, sel) IN
               pending' = IF row = 0 THEN pending
                          ELSE pending \cup {[minerid |-> rows[row].minerid, kind |-> reward_type]}
    /\ UNCHANGED <<score, build, gone, changes, allPool>>

\* The owner must have paid in the gas; otherwise the reward is only logged.  A
\* payment to a miner that is gone, or that fund.sys cannot afford, fails.
can_pay(m) ==
    /\ miner[m] # NoRow
    /\ channel[2][miner[m].owner] >= Gas
    /\ can_transfer("fund.sys", "channel.sys", Reward)

payrewardnew(e) ==
    /\ e \in pending
    /\ pending' = pending \ {e}
    /\ \/ /\ can_pay(e.minerid)
          /\ channellog(miner[e.minerid].owner, Reward, Gas)
       \/ /\ ~can_pay(e.minerid)
          /\ UNCHANGED allDeposit
    /\ UNCHANGED <<score, build, reward_type, gone, changes, poolVars>>

-----------------------------------------------------------------------------
MinerChanges ==
    /\ changes < MaxChanges
    /\ changes' = changes + 1
    /\ HddPoolActions
    /\ gone' = gone \cup {m \in Miners : minerinfo[m] # NoRow /\ minerinfo'[m] = NoRow}
    /\ Reregister \/ \A m \in gone : minerinfo'[m] = NoRow
    /\ UNCHANGED rewardVars

RewardNext ==
    \/ onbuild
    \/ onreward
    \/ \E e \in pending : payrewardnew(e)
    \/ MinerChanges
    \/ AccountNext /\ UNCHANGED <<rewardVars, gone, changes, poolVars>>

RewardSpec == RewardInit /\ [][RewardNext]_allRewards

\* onblock calls onbuild in every second block that is not due for a reward: as long
\* as there are ids the build goes on.  Every onbuild changes build, no other step does.
FairRewardSpec == RewardSpec /\ ([]<>(ids.table = <<>>) \/ []<><<build' # build>>_build)

-----------------------------------------------------------------------------
Row == [minerid : Miners, range : Nat]

\* The type invariant.
RewardTypeOK ==
    /\ score \in [Kinds -> [0..1 -> Seq(Row)]]
    /\ build.current \in 0..1 /\ build.job.proc \in 1..Len(ids.table) + 1
    /\ \A k \in Kinds, s \in 0..1 : build.count[k][s] <= Len(score[k][s])
    /\ reward_type \in Kinds /\ pending \subseteq [minerid : Miners, kind : Kinds]

\* Every number that onreward can draw selects the row whose interval it lies in:
\* the first one whose range reaches it.  Chances are as the weights were when the
\* table was built, whatever has happened to the miners since.
SelectionExact ==
    \A k \in Kinds :
        LET rows == current_rows(k) IN
        rows # <<>> => \A sel \in 1..rows[Len(rows)].range :
            /\ drawn(rows, sel) # 0
            /\ rows[drawn(rows, sel)].range >= sel
            /\ \A i \in 1..drawn(rows, sel) - 1 : rows[i].range < sel

\* The table rewards are drawn from is replaced as a whole, never while in use.
CurrentStable ==
    [][build'.current = build.current =>
         \A k \in Kinds : current_rows(k)' = current_rows(k)]_allRewards

\* Nobody has two rows in a table, although ids are reused while it is built, as
\* long as the numbers of deleted miners are not.
NobodyTwice ==
    \A k \in Kinds : IsInjective([i \in DOMAIN current_rows(k) |-> current_rows(k)[i].minerid])

\* A miner's chance in a draw is its share of the weights, counted once.
ChancesAreWeights == RewardTypeOK /\ SelectionExact /\ NobodyTwice

\* A miner that stays in good standing gets into the table for production space
\* and stays there, whatever others do and wherever the build is.
EligibleEntersTable ==
    \A m \in Miners : <>[]eligible(m) =>
        <>[](\E i \in DOMAIN current_rows(2) : current_rows(2)[i].minerid = m)

\* Only miners in good standing are paid: status 0 earns, every other is banned.
PaidInGoodStanding ==
    [][\A e \in pending : (e \notin pending' /\ channel'[1] # channel[1]) =>
           miner[e.minerid].status = 0]_allRewards
=============================================================================
