----------------------------- MODULE HddDeposit -----------------------------
(***************************************************************************)
(* The tokens that back the storage network: eosio.token with YottaChain's *)
(* transfer rules, the deposits of miners (hdddeposit), locked and frozen  *)
(* accounts (hddlock) and the channel to other chains (channel.sys).       *)
(*                                                                         *)
(* A deposit stays in its owner's token balance; the transfer rules keep   *)
(* it there.  A channel balance is a claim on the tokens of channel.sys.   *)
(* A contract action and the inline actions it sends succeed or fail       *)
(* together, so each is one step.                                          *)
(***************************************************************************)
EXTENDS Integers, FiniteSets, FiniteSetsExt, Functions

CONSTANTS
    Users,          \* accounts that deposit, transfer and own miners
    Miners,
    Amounts,        \* the quantities that calls name
    Fines,          \* the quantities mforfeit names
    Rules,          \* lock rules: the percentage that is locked at each time
    Rates,          \* deposit rates that may be set: what a GB costs, in the smallest unit
    Truncated,      \* the pairs of a space and a rate whose product is cut short
    MinMinerSpace,  \* min_miner_space
    StoreFee,       \* the amount depstore asks for
    SplitRates,     \* percentages splitgas may compute
    MaxTime,        \* bound: the clock
    InitSupply, MaxSupply,  \* the supply at the start and max_supply of the token
    MaxLock,        \* bound: what locks add up to
    InitBalance,    \* InitBalance[u]: the tokens of u at the start
    InitDeposit,    \* InitDeposit[u]: what u has already deposited through the channel
    MapBalance,     \* the tokens of ytapro.map at the start
    Deadlines,      \* the times an account may be frozen until
    OldMiner, OldUser, OldDeposit  \* a deposit made under the old rules

SystemAccounts == {"eosio.stake", "channel.sys", "store.sys", "pool.sys", "fund.sys",
                   "ytapro.map", "yottaforfeit", "forfeit.sys", "hddpoolexchg"}
Forfeits == {"yottaforfeit", "forfeit.sys"}
Accounts == Users \cup SystemAccounts
Holders  == Users \cup {"gas.sys", "node.sys", "null.sys"}
Time     == 0..MaxTime

ASSUME DepositAssumption ==
    /\ IsFiniteSet(Users) /\ IsFiniteSet(Miners)
    /\ Users \cap SystemAccounts = {} /\ Users \cap {"gas.sys", "node.sys", "null.sys"} = {}
    /\ OldUser \in Users /\ OldMiner \in Miners
    /\ Amounts \subseteq Nat \ {0} /\ Fines \subseteq Nat \ {0} /\ Rules \subseteq [Time -> 0..100]
    /\ Rates \subseteq Nat /\ Rates # {} /\ Truncated \subseteq (Nat \ {0}) \X (Nat \ {0})
    /\ SplitRates \subseteq 20..80
    /\ MinMinerSpace \in Nat \ {0} /\ StoreFee \in Nat \ {0} /\ MaxTime \in Nat
    /\ InitSupply \in Nat /\ MaxSupply \in Nat /\ MaxLock \in Nat /\ MapBalance \in Nat
    /\ OldDeposit \in Nat \ {0}
    /\ InitBalance \in [Users -> Nat] /\ InitDeposit \in [Users -> Nat] /\ Deadlines \subseteq Nat
    /\ \A u \in Users : InitBalance[u] >= InitDeposit[u] + (IF u = OldUser THEN OldDeposit ELSE 0)

VARIABLES
    balance,   \* accounts of eosio.token; a missing row is 0
    supply,    \* stats.supply
    pool1,     \* depositpool: deposits of YTA; a missing row is all 0
    pool2,     \* depositpool2: deposits that came through the channel
    mdep,      \* miner2dep: who deposited how much for which miner
    rate,      \* deposit_rate
    stored,    \* depstore: users with a storage deposit
    lock,      \* lock[u][t]: what acclock and lockrule lock of u at time t
    frozen,    \* accfrozen: the deadline
    channel,   \* cbalances: type 1 is the channel balance, type 2 the fee balance
    now,
    givers     \* history: users that have sent tokens to a forfeit account themselves

tokenVars   == <<balance, supply>>
depositVars == <<pool1, pool2, mdep>>
accountVars == <<lock, frozen, now, givers>>
allDeposit  == <<balance, supply, pool1, pool2, mdep, rate, stored, lock, frozen, channel, now,
                 givers>>

Pool    == [total : Nat, free : Nat, his : Nat]
Deposit == [type : {"none", "old", "new"}, user : Users, deposit : Nat, dep_total : Nat]

EmptyPool == [total |-> 0, free |-> 0, his |-> 0]
NoDeposit == [type |-> "none", user |-> OldUser, deposit |-> 0, dep_total |-> 0]

added(p, quant) == [total |-> p.total + quant, free |-> p.free + quant, his |-> p.his + quant]

DepositInit ==
    /\ balance = [a \in Accounts |-> IF a \in Users THEN InitBalance[a]
                                     ELSE IF a = "ytapro.map" THEN MapBalance ELSE 0]
    /\ supply = InitSupply
    /\ pool1 = [u \in Users |-> IF u = OldUser
                                THEN [total |-> OldDeposit, free |-> 0, his |-> OldDeposit]
                                ELSE EmptyPool]
    /\ pool2 = [u \in Users |-> added(EmptyPool, InitDeposit[u])]
    /\ mdep = [m \in Miners |-> IF m = OldMiner
                                THEN [type |-> "old", user |-> OldUser,
                                      deposit |-> OldDeposit, dep_total |-> OldDeposit]
                                ELSE NoDeposit]
    /\ rate \in Rates
    /\ stored = {}
    /\ lock = [u \in Users |-> [t \in Time |-> 0]]
    /\ frozen = [u \in Users |-> 0]
    /\ channel = [type \in 1..2 |-> [h \in Holders |-> 0]]
    /\ now = 0
    /\ givers = {}

-----------------------------------------------------------------------------
(* hddlock and eosio.token. *)

is_frozen(a) == a \in Users /\ now < frozen[a]

get_lock_asset(a) == IF a \in Users THEN lock[a][now] ELSE 0

get_deposit(a) == IF a \in Users THEN pool1[a].total + pool2[a].total ELSE 0

\* Mutation of can_transfer_with: a frozen account may stake its tokens.
can_transfer_frozen_stake(from, to, quantity, deposit) ==
    /\ from # to /\ quantity > 0
    /\ balance[from] >= quantity
    /\ \/ from = "fund.sys"
       \/ to \in Forfeits
       \/ to = "eosio.stake" /\ balance[from] - deposit >= quantity
       \/ /\ ~is_frozen(from)
          /\ balance[from] - deposit - get_lock_asset(from) >= quantity

\* Whether the transfer goes through while deposit is what a has deposited.
can_transfer_with(from, to, quantity, deposit) ==
    /\ from # to /\ quantity > 0
    /\ balance[from] >= quantity
    /\ \/ from = "fund.sys"
       \/ to \in Forfeits
       \/ /\ ~is_frozen(from)
          /\ balance[from] - deposit - (IF to = "eosio.stake" THEN 0 ELSE get_lock_asset(from)) >= quantity

can_transfer(from, to, quantity) == can_transfer_with(from, to, quantity, get_deposit(from))

moved(from, to, quantity) == [balance EXCEPT ![from] = @ - quantity, ![to] = @ + quantity]

\* A transfer to channel.sys needs a memo: the channel's own actions below.
transfer(from, to, quantity) ==
    /\ can_transfer(from, to, quantity)
    /\ balance' = moved(from, to, quantity)
    /\ givers' = IF to \in Forfeits THEN givers \cup {from} ELSE givers
    /\ UNCHANGED <<supply, depositVars, rate, stored, lock, frozen, now, channel>>

\* Tokens are issued to fund.sys, from where rewards are paid.
issue(quantity) ==
    /\ quantity <= MaxSupply - supply
    /\ supply' = supply + quantity
    /\ balance' = [balance EXCEPT !["fund.sys"] = @ + quantity]
    /\ UNCHANGED <<depositVars, rate, stored, accountVars, channel>>

locktransfer(rule, from, to, quantity, amount) ==
    /\ quantity >= amount /\ \A t \in Time : lock[to][t] + quantity <= MaxLock
    /\ IF amount > 0
       THEN can_transfer(from, to, amount) /\ balance' = moved(from, to, amount)
       ELSE UNCHANGED balance
    /\ lock' = [lock EXCEPT ![to] = [t \in Time |-> @[t] + (quantity * rule[t]) \div 100]]
    /\ UNCHANGED <<supply, depositVars, rate, stored, frozen, now, givers, channel>>

frozenuser(user, time) ==
    /\ frozen' = [frozen EXCEPT ![user] = time]
    /\ UNCHANGED <<tokenVars, depositVars, rate, stored, lock, now, givers, channel>>

Tick ==
    /\ now < MaxTime
    /\ now' = now + 1
    /\ UNCHANGED <<tokenVars, depositVars, rate, stored, lock, frozen, givers, channel>>

-----------------------------------------------------------------------------
(* hdddeposit: the deposit pools of an account. *)

removed(p, quant) == [total |-> p.total - quant, free |-> p.free - quant, his |-> p.his - quant]

\* Mutation of has: only the total is compared.
has_total(p, quant) == p.total >= quant

has(p, quant) == p.free >= quant /\ p.total >= quant /\ p.his >= quant

\* Mutation of free_balance: the deposits of the second pool are forgotten.
free_balance_pool1_only(user) == balance[user] - pool1[user].total

free_balance(user) == balance[user] - pool1[user].total - pool2[user].total

paydeppool(user, quant) ==
    /\ ~is_frozen(user)
    /\ free_balance(user) >= quant
    /\ pool1' = [pool1 EXCEPT ![user] = added(@, quant)]
    /\ UNCHANGED <<tokenVars, pool2, mdep, rate, stored, accountVars, channel>>

unpaydeppool(user, quant) ==
    /\ ~is_frozen(user) /\ has(pool1[user], quant)
    /\ pool1' = [pool1 EXCEPT ![user] = removed(@, quant)]
    /\ UNCHANGED <<tokenVars, pool2, mdep, rate, stored, accountVars, channel>>

\* Transfer of type 4: ytapro.map to channel.sys, which has hdddeposit pass the
\* tokens on to the user and deposit them.
paydeppool2(user, quant) ==
    /\ can_transfer("ytapro.map", "channel.sys", quant)
    /\ ~is_frozen(user) /\ get_lock_asset(user) = 0
    /\ balance' = moved("ytapro.map", user, quant)
    /\ pool2' = [pool2 EXCEPT ![user] = added(@, quant)]
    /\ UNCHANGED <<supply, pool1, mdep, rate, stored, accountVars, channel>>

\* The deposit goes back through store.sys to the channel, a transfer of type 3.
undeppool2(user, quant) ==
    /\ ~is_frozen(user) /\ has(pool2[user], quant)
    /\ can_transfer_with(user, "store.sys", quant, get_deposit(user) - quant)
    /\ pool2' = [pool2 EXCEPT ![user] = removed(@, quant)]
    /\ balance' = moved(user, "channel.sys", quant)
    /\ channel' = [channel EXCEPT ![1][user] = @ + quant]
    /\ UNCHANGED <<supply, pool1, mdep, rate, stored, accountVars>>

depstore(user) ==
    /\ user \notin stored
    /\ can_transfer(user, "pool.sys", StoreFee)
    /\ stored' = stored \cup {user}
    /\ balance' = moved(user, "pool.sys", StoreFee)
    /\ UNCHANGED <<supply, depositVars, rate, accountVars, channel>>

undepstore(user) ==
    /\ user \in stored
    /\ can_transfer("pool.sys", user, StoreFee)
    /\ stored' = stored \ {user}
    /\ balance' = moved("pool.sys", user, StoreFee)
    /\ UNCHANGED <<supply, depositVars, rate, accountVars, channel>>

-----------------------------------------------------------------------------
(* hdddeposit: the deposit of a miner, taken out of the free part of its
   depositor's pool. *)

\* A product of doubles converted to an integer: the exact amount or, when the
\* product comes out just below it, one unit less.
calc_deposit(space) == space * rate - (IF <<space, rate>> \in Truncated THEN 1 ELSE 0)

is_deposit_enough(deposit, max_space) == deposit >= calc_deposit(max_space)

\* Mutation of get_miner_forfeit: fines are forgotten.
no_forfeit(m) == 0

get_miner_forfeit(m) ==
    IF mdep[m].dep_total > mdep[m].deposit THEN mdep[m].dep_total - mdep[m].deposit ELSE 0

setrate(r) ==
    /\ rate' = r
    /\ UNCHANGED <<tokenVars, depositVars, stored, accountVars, channel>>

paydeposit(user, m, quant) ==
    /\ ~is_frozen(user) /\ quant > 0 /\ is_deposit_enough(quant, MinMinerSpace)
    /\ pool2[user].free >= quant /\ mdep[m].type = "none"
    /\ pool2' = [pool2 EXCEPT ![user].free = @ - quant]
    /\ mdep' = [mdep EXCEPT ![m] = [type |-> "new", user |-> user,
                                    deposit |-> quant, dep_total |-> quant]]
    /\ UNCHANGED <<tokenVars, pool1, rate, stored, accountVars, channel>>

freed(p, quant) == [p EXCEPT !.free = IF @ + quant >= p.total THEN p.total ELSE @ + quant]

increased(d, quant) ==
    LET deposit == d.deposit + quant IN
    [d EXCEPT !.type = "new", !.deposit = deposit,
              !.dep_total = IF deposit > @ THEN deposit ELSE @]

\* Mutation of charged: an old miner's deposit is not moved to the second pool.
charged_increase_only(m, quant) == quant

\* What increasing the deposit of m takes out of the second pool.
charged(m, quant) ==
    IF mdep[m].type = "old" THEN mdep[m].deposit + quant ELSE quant

incdeposit(m, quant) ==
    LET d == mdep[m] IN
    /\ quant > 0 /\ d.type # "none"
    /\ pool2[d.user].free >= charged(m, quant)
    /\ pool1' = IF d.type = "old" THEN [pool1 EXCEPT ![d.user] = freed(@, d.deposit)] ELSE pool1
    /\ pool2' = [pool2 EXCEPT ![d.user].free = @ - charged(m, quant)]
    /\ mdep' = [mdep EXCEPT ![m] = increased(@, quant)]
    /\ UNCHANGED <<tokenVars, rate, stored, accountVars, channel>>

forfeited_pool(p, quant) == [p EXCEPT !.total = @ - quant]

mforfeit(m, quant) ==
    LET d    == mdep[m]
        real == IF d.deposit < quant THEN d.deposit ELSE quant
        pool == IF d.type = "old" THEN pool1 ELSE pool2
        to   == IF d.type = "old" THEN "yottaforfeit" ELSE "forfeit.sys"
    IN
    /\ d.type # "none"
    /\ pool[d.user].total - pool[d.user].free >= real
    /\ can_transfer(d.user, to, real)
    /\ mdep' = [mdep EXCEPT ![m].deposit = @ - real]
    /\ pool1' = IF d.type = "old" THEN [pool1 EXCEPT ![d.user] = forfeited_pool(@, real)] ELSE pool1
    /\ pool2' = IF d.type = "old" THEN pool2 ELSE [pool2 EXCEPT ![d.user] = forfeited_pool(@, real)]
    /\ balance' = moved(d.user, to, real)
    /\ UNCHANGED <<supply, rate, stored, accountVars, channel>>

deposit_delminer(m) ==
    LET d == mdep[m] IN
    /\ pool1' = IF d.type = "old" THEN [pool1 EXCEPT ![d.user] = freed(@, d.deposit)] ELSE pool1
    /\ pool2' = IF d.type = "new" THEN [pool2 EXCEPT ![d.user] = freed(@, d.deposit)] ELSE pool2
    /\ mdep' = [mdep EXCEPT ![m] = NoDeposit]
    /\ UNCHANGED <<tokenVars, rate, stored, accountVars, channel>>

\* The new depositor makes up for the fines: the deposit is dep_total again.
mchgdepacc(m, new) ==
    LET d    == mdep[m]
        back == IF d.type = "new" THEN [pool2 EXCEPT ![d.user].free = @ + d.deposit] ELSE pool2
    IN
    /\ d.type # "none" /\ d.user # new
    /\ pool2[new].free >= d.dep_total
    /\ pool1' = IF d.type = "old" THEN [pool1 EXCEPT ![d.user].free = @ + d.deposit] ELSE pool1
    /\ pool2' = [back EXCEPT ![new].free = @ - d.dep_total]
    /\ mdep' = [mdep EXCEPT ![m] = [type |-> "new", user |-> new,
                                    deposit |-> d.dep_total, dep_total |-> d.dep_total]]
    /\ UNCHANGED <<tokenVars, rate, stored, accountVars, channel>>

-----------------------------------------------------------------------------
(* channel.sys. *)

\* Transfer of type 5: a fee balance is paid in.
channel_fee(user, quant) ==
    /\ can_transfer("ytapro.map", "channel.sys", quant)
    /\ balance' = moved("ytapro.map", "channel.sys", quant)
    /\ channel' = [channel EXCEPT ![2][user] = @ + quant]
    /\ UNCHANGED <<supply, depositVars, rate, stored, accountVars>>

\* hddpool's channellog: the gas by subfee, the reward by a transfer of type 1 or 2.
channellog(owner, quant, gas) ==
    /\ channel[2][owner] >= gas
    /\ can_transfer("fund.sys", "channel.sys", quant)
    /\ balance' = moved("fund.sys", "channel.sys", quant)
    /\ channel' = [channel EXCEPT ![2][owner] = @ - gas, ![1]["gas.sys"] = @ + gas,
                                  ![1][owner] = @ + quant]
    /\ UNCHANGED <<supply, depositVars, rate, stored, accountVars>>

mapc(user, quant, gas) ==
    /\ channel[1][user] >= quant + gas
    /\ can_transfer("channel.sys", "ytapro.map", quant + gas)
    /\ channel' = [channel EXCEPT ![1][user] = @ - (quant + gas)]
    /\ balance' = moved("channel.sys", "ytapro.map", quant + gas)
    /\ UNCHANGED <<supply, depositVars, rate, stored, accountVars>>

feetoc(user, quant) ==
    /\ channel[2][user] >= quant
    /\ channel' = [channel EXCEPT ![2][user] = @ - quant, ![1][user] = @ + quant]
    /\ UNCHANGED <<tokenVars, depositVars, rate, stored, accountVars>>

\* Mutation of null_share: both shares are rounded down.
null_share_rounded(amount, split) == (amount * (100 - split)) \div 100

null_share(amount, split) == amount - (amount * split) \div 100

splitgas(split) ==
    LET amount == channel[1]["gas.sys"] IN
    /\ amount > 0
    /\ channel' = [channel EXCEPT ![1]["gas.sys"] = 0,
                                  ![1]["node.sys"] = @ + (amount * split) \div 100,
                                  ![1]["null.sys"] = @ + null_share(amount, split)]
    /\ UNCHANGED <<tokenVars, depositVars, rate, stored, accountVars>>

rewardnode(user, quant) ==
    /\ channel[1]["node.sys"] >= quant
    /\ channel' = [channel EXCEPT ![1]["node.sys"] = @ - quant, ![1][user] = @ + quant]
    /\ UNCHANGED <<tokenVars, depositVars, rate, stored, accountVars>>

-----------------------------------------------------------------------------
\* What accounts and administrators call themselves.
AccountNext ==
    \/ \E f \in Users \cup {"eosio.stake"}, t \in Users \cup {"eosio.stake", "forfeit.sys"}, q \in Amounts :
         transfer(f, t, q)
    \/ \E q \in Amounts : issue(q)
    \/ \E r \in Rules, f, t \in Users, q \in Amounts, a \in Amounts \cup {0} : locktransfer(r, f, t, q, a)
    \/ \E u \in Users, t \in Deadlines : frozenuser(u, t)
    \/ \E u \in Users, q \in Amounts : paydeppool(u, q) \/ unpaydeppool(u, q)
    \/ \E u \in Users, q \in Amounts : paydeppool2(u, q) \/ undeppool2(u, q)
    \/ \E u \in Users : depstore(u) \/ undepstore(u)
    \/ \E m \in Miners, q \in Fines : mforfeit(m, q)
    \/ \E m \in Miners, u \in Users : mchgdepacc(m, u)
    \/ \E r \in Rates \ {rate} : setrate(r)
    \/ \E u \in Users, q \in Amounts : channel_fee(u, q) \/ feetoc(u, q) \/ rewardnode(u, q)
    \/ \E u \in Users, q, g \in Amounts : mapc(u, q, g)
    \/ \E s \in SplitRates : splitgas(s)
    \/ Tick

\* What hddpool calls; HddPool says when.
PoolCalls ==
    \/ \E u \in Users, m \in Miners, q \in Amounts : paydeposit(u, m, q)
    \/ \E m \in Miners, q \in Amounts : incdeposit(m, q)
    \/ \E m \in Miners : deposit_delminer(m)
    \/ \E u \in Users, q, g \in Amounts : channellog(u, q, g)

DepositNext == AccountNext \/ PoolCalls

DepositSpec == DepositInit /\ [][DepositNext]_allDeposit

-----------------------------------------------------------------------------
\* The type invariant: no amount is ever negative although assets are signed
\* numbers that most actions decrease.
DepositTypeOK ==
    /\ balance \in [Accounts -> Nat] /\ supply \in Nat
    /\ pool1 \in [Users -> Pool] /\ pool2 \in [Users -> Pool]
    /\ mdep \in [Miners -> Deposit] /\ rate \in Rates /\ stored \subseteq Users
    /\ lock \in [Users -> [Time -> Nat]] /\ frozen \in [Users -> Nat] /\ now \in Time
    /\ channel \in [1..2 -> [Holders -> Nat]] /\ givers \subseteq Accounts

\* A deposit is never spent: what an account has deposited in both pools is in
\* its token balance, through transfers, locks, fines and the channel, unless
\* the account itself has sent tokens to a forfeit account.
DepositBacked == \A u \in Users \ givers : balance[u] >= get_deposit(u)

\* An ordinary transfer leaves a deposit alone, to whomever it goes.
EveryDepositBacked == \A u \in Users : balance[u] >= get_deposit(u)

share(d, u, type) == IF d.type = type /\ d.user = u THEN d.deposit ELSE 0
DepositsOf(u, type) == SumFunction([m \in Miners |-> share(mdep[m], u, type)])

\* What is not free in a pool is exactly what its owner's miners have deposited
\* in it, also when an old miner changes pools or a miner changes depositors, so
\* every deposit can be given back or forfeited.
DepositsAccounted ==
    \A u \in Users : /\ pool1[u].total - pool1[u].free = DepositsOf(u, "old")
                     /\ pool2[u].total - pool2[u].free = DepositsOf(u, "new")

\* The channel can honour all claims: its balances add up to its tokens.
ChannelBacked ==
    balance["channel.sys"] = SumFunction(channel[1]) + SumFunction(channel[2])

\* What a frozen account loses goes to a forfeit account, whichever contract or
\* administrator moves it.
FrozenStays ==
    [][\A u \in Users : is_frozen(u) /\ balance'[u] < balance[u] =>
           \E f \in Forfeits : balance'[f] - balance[f] = balance[u] - balance'[u]]_allDeposit
=============================================================================
