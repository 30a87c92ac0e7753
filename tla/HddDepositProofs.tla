-------------------------- MODULE HddDepositProofs --------------------------
(***************************************************************************)
(* Proofs about HddDeposit: amounts are never negative, deposits are       *)
(* backed by tokens, frozen accounts lose tokens only to forfeits, the     *)
(* pools hold exactly what miners have deposited, and the channel's        *)
(* balances add up to its tokens.                                          *)
(*                                                                         *)
(* DepositTypeOK and DepositBacked are inductive together: a transfer      *)
(* leaves the deposit in the balance because its check subtracts both      *)
(* pools, and a fine takes the same amount from the pool and the balance.  *)
(* The two sums are each inductive beside them: an operation changes terms *)
(* one at a time, and NumberFacts says what a change of one term does.     *)
(***************************************************************************)
EXTENDS HddDeposit, NumberFacts, TLAPS

DepositInv == DepositTypeOK /\ DepositBacked

\* PoolCalls with any amounts, since those that hddpool computes need not be among
\* the ones that calls name, and the fee of a store pool.
AnyCalls ==
    \/ \E u \in Users, m \in Miners, q \in Nat : paydeposit(u, m, q)
    \/ \E m \in Miners, q \in Nat : incdeposit(m, q)
    \/ \E m \in Miners : deposit_delminer(m)
    \/ \E u \in Users, q, g \in Nat : channellog(u, q, g)
    \/ \E u \in Users, q \in Nat : transfer(u, "hddpoolexchg", q)

AnyStep == AccountNext \/ AnyCalls

\* A step of DepositNext is such a step.
LEMMA NextIsAnyStep == DepositNext => AnyStep
<1>1. Amounts \subseteq Nat
  BY DepositAssumption
<1> QED
  BY <1>1 DEF DepositNext, PoolCalls, AnyStep, AnyCalls

\* What is left of an amount when a percentage of at most 100 is split off.
LEMMA ShareBounds ==
    ASSUME NEW amount \in Nat, NEW split \in 0..100
    PROVE  (amount * split) \div 100 \in 0..amount
<1>1. /\ amount * split \in Nat
      /\ amount * split <= amount * 100
  OBVIOUS
<1>2. \A x \in Nat : x <= amount * 100 => x \div 100 \in 0..amount
  OBVIOUS
<1> QED
  BY <1>1, <1>2

\* What a transfer does to the balances.
LEMMA MovedBalances ==
    ASSUME balance \in [Accounts -> Nat], NEW from \in Accounts, NEW to \in Accounts,
           NEW q \in Nat, from # to, balance[from] >= q
    PROVE  /\ moved(from, to, q) \in [Accounts -> Nat]
           /\ moved(from, to, q)[from] = balance[from] - q
           /\ moved(from, to, q)[to] = balance[to] + q
           /\ \A a \in Accounts \ {from, to} : moved(from, to, q)[a] = balance[a]
BY DEF moved

\* Users are no system accounts.
LEMMA UsersAreAccounts ==
    /\ Users \subseteq Accounts /\ SystemAccounts \subseteq Accounts
    /\ \A u \in Users : u \notin SystemAccounts
BY DepositAssumption DEF Accounts

\* What the checks of eosio.token guarantee: a user keeps its deposit, and a
\* frozen user keeps everything, unless the tokens are a fine.
LEMMA TransferGuard ==
    ASSUME DepositTypeOK, NEW from \in Accounts, NEW to, NEW q \in Nat, NEW deposit \in Int,
           can_transfer_with(from, to, q, deposit)
    PROVE  /\ from # to /\ q > 0 /\ balance[from] >= q
           /\ from \in Users /\ to \notin Forfeits =>
                ~is_frozen(from) /\ balance[from] - q >= deposit
<1>1. from # to /\ q > 0 /\ balance[from] >= q
  BY DEF can_transfer_with
<1>2. ASSUME from \in Users, to \notin Forfeits
      PROVE  ~is_frozen(from) /\ balance[from] - q >= deposit
  <2>1. from # "fund.sys"
    BY <1>2, UsersAreAccounts DEF SystemAccounts, Forfeits
  <2>2. balance[from] \in Nat /\ get_lock_asset(from) \in Nat
    BY <1>2 DEF DepositTypeOK, get_lock_asset
  <2> QED
    BY <1>2, <2>1, <2>2 DEF can_transfer_with
<1> QED
  BY <1>1, <1>2

-----------------------------------------------------------------------------
(* The actions preserve DepositInv.  Most change a balance, a pool or both;  *)
(* the others leave alone what DepositBacked speaks of.                      *)

\* The parts of the state that a group of actions leaves alone.
SameRest   == UNCHANGED <<rate, stored, lock, frozen, now, givers>>
SamePools  == UNCHANGED <<pool1, pool2, mdep>>

\* Tokens that move between accounts within the rules leave deposits backed.
LEMMA TransferKeeps ==
    ASSUME DepositInv, NEW from \in Accounts, NEW to \in Accounts, NEW q \in Nat,
           to \notin Forfeits,
           can_transfer(from, to, q), balance' = moved(from, to, q), SamePools, givers \subseteq givers'
    PROVE  balance' \in [Accounts -> Nat] /\ DepositBacked'
<1>1. /\ balance \in [Accounts -> Nat]
      /\ \A u \in Users : get_deposit(u) \in Nat /\ get_deposit(u)' = get_deposit(u)
      /\ \A u \in Users \ givers : balance[u] >= get_deposit(u)
  BY DEF DepositInv, DepositTypeOK, DepositBacked, get_deposit, Pool, SamePools
<1>2. get_deposit(from) \in Nat
  BY <1>1 DEF get_deposit
<1>3. /\ from # to /\ q > 0 /\ balance[from] >= q
      /\ from \in Users => balance[from] - q >= get_deposit(from)
  BY <1>2, TransferGuard DEF can_transfer, DepositInv
<1>4. /\ balance' \in [Accounts -> Nat]
      /\ balance'[from] = balance[from] - q
      /\ \A a \in Accounts \ {from} : balance'[a] >= balance[a]
  <2>1. /\ balance' \in [Accounts -> Nat]
        /\ balance'[from] = balance[from] - q
        /\ balance'[to] = balance[to] + q
        /\ \A a \in Accounts \ {from, to} : balance'[a] = balance[a]
    BY <1>1, <1>3, MovedBalances
  <2> QED
    BY <1>1, <2>1
<1>5. ASSUME NEW u \in Users \ givers'
      PROVE  balance'[u] >= get_deposit(u)'
  BY <1>1, <1>3, <1>4, UsersAreAccounts
<1> QED
  BY <1>4, <1>5 DEF DepositBacked

\* Initial deposits are in the initial balances.
LEMMA InitEstablishes == DepositInit => DepositInv
<1> SUFFICES ASSUME DepositInit PROVE DepositInv
  OBVIOUS
<1> USE DepositAssumption
<1>1. balance \in [Accounts -> Nat] /\ \A u \in Users : balance[u] = InitBalance[u]
  BY UsersAreAccounts DEF DepositInit
<1>2. /\ pool1 \in [Users -> Pool] /\ pool2 \in [Users -> Pool]
      /\ \A u \in Users : /\ pool1[u].total = IF u = OldUser THEN OldDeposit ELSE 0
                          /\ pool2[u].total = InitDeposit[u]
  BY DEF DepositInit, EmptyPool, Pool, added
<1>3. mdep \in [Miners -> Deposit]
  BY DEF DepositInit, NoDeposit, Deposit
<1>4. DepositTypeOK
  BY <1>1, <1>2, <1>3 DEF DepositInit, DepositTypeOK, Time
<1>5. DepositBacked
  BY <1>1, <1>2 DEF DepositBacked, get_deposit
<1> QED
  BY <1>4, <1>5 DEF DepositInv

\* DepositBacked where no balance falls and no deposit grows.
LEMMA BackedMonotone ==
    ASSUME DepositInv, balance' \in [Accounts -> Nat],
           pool1' \in [Users -> Pool], pool2' \in [Users -> Pool], givers \subseteq givers',
           \A u \in Users \ givers' : /\ balance'[u] >= balance[u]
                                      /\ pool1'[u].total <= pool1[u].total
                                      /\ pool2'[u].total <= pool2[u].total
    PROVE  DepositBacked'
<1> SUFFICES ASSUME NEW u \in Users \ givers' PROVE balance'[u] >= get_deposit(u)'
  BY DEF DepositBacked
<1>1. /\ balance[u] \in Nat /\ balance'[u] \in Nat
      /\ pool1[u].total \in Nat /\ pool2[u].total \in Nat
      /\ pool1'[u].total \in Nat /\ pool2'[u].total \in Nat
  BY UsersAreAccounts DEF DepositInv, DepositTypeOK, Pool
<1>2. balance[u] >= pool1[u].total + pool2[u].total
  BY DEF DepositInv, DepositBacked, get_deposit
<1> QED
  BY <1>1, <1>2 DEF get_deposit

\* transfer, locktransfer, depstore, undepstore: tokens move, the rest stays.
LEMMA TokenSteps ==
    ASSUME DepositInv,
           \/ \E f \in Users \cup {"eosio.stake"}, t \in Users \cup {"eosio.stake", "forfeit.sys"},
                 q \in Amounts : transfer(f, t, q)
           \/ \E q \in Amounts : issue(q)
           \/ \E r \in Rules, f, t \in Users, q \in Amounts, a \in Amounts \cup {0} :
                locktransfer(r, f, t, q, a)
           \/ \E u \in Users : depstore(u) \/ undepstore(u)
    PROVE  DepositInv'
<1> USE DepositAssumption, UsersAreAccounts
<1>0. DepositTypeOK /\ DepositBacked
  BY DEF DepositInv
<1>1. ASSUME NEW f \in Users \cup {"eosio.stake"}, NEW t \in Users \cup {"eosio.stake", "forfeit.sys"},
             NEW q \in Amounts, transfer(f, t, q)
      PROVE  DepositInv'
  <2>1. f \in Accounts /\ t \in Accounts /\ q \in Nat
    BY DEF SystemAccounts
  <2>2. balance' \in [Accounts -> Nat] /\ DepositBacked'
    <3>1. CASE t \notin Forfeits
      BY <1>1, <2>1, <3>1, TransferKeeps DEF transfer, SamePools, depositVars
    <3>2. CASE t \in Forfeits
      <4>1. balance[f] >= q /\ f # t /\ balance' = moved(f, t, q) /\ givers' = givers \cup {f}
        BY <1>1, <3>2 DEF transfer, can_transfer, can_transfer_with
      <4>2. balance \in [Accounts -> Nat]
        BY <1>0 DEF DepositTypeOK
      <4>3. balance' \in [Accounts -> Nat] /\ \A a \in Accounts \ {f} : balance'[a] >= balance[a]
        <5>1. q \in Nat
          OBVIOUS
        <5> HIDE DepositAssumption, UsersAreAccounts
        <5> QED
          BY <2>1, <4>1, <4>2, <5>1, MovedBalances
      <4>4. \A u \in Users \ givers' : balance'[u] >= balance[u]
        BY <4>1, <4>3
      <4> QED
        BY <1>0, <1>1, <4>1, <4>3, <4>4, BackedMonotone DEF transfer, depositVars, DepositTypeOK, Pool
    <3> QED
      BY <3>1, <3>2
  <2> QED
    BY <1>0, <1>1, <2>1, <2>2 DEF DepositInv, DepositTypeOK, transfer, depositVars
<1>2. ASSUME NEW q \in Amounts, issue(q)
      PROVE  DepositInv'
  <2>1. balance' \in [Accounts -> Nat] /\ \A u \in Users : balance'[u] = balance[u]
    BY <1>0, <1>2 DEF issue, DepositTypeOK, SystemAccounts
  <2>2. DepositBacked'
    BY <1>0, <1>2, <2>1, BackedMonotone DEF issue, depositVars, accountVars, DepositTypeOK, Pool
  <2> QED
    BY <1>0, <1>2, <2>1, <2>2 DEF DepositInv, DepositTypeOK, issue, depositVars, accountVars
<1>3. ASSUME NEW r \in Rules, NEW f \in Users, NEW t \in Users, NEW q \in Amounts,
             NEW a \in Amounts \cup {0}, locktransfer(r, f, t, q, a)
      PROVE  DepositInv'
  <2>1. balance' \in [Accounts -> Nat] /\ DepositBacked'
    <3>1. CASE a > 0
      <4>1. can_transfer(f, t, a) /\ balance' = moved(f, t, a) /\ a \in Nat
        BY <1>3, <3>1 DEF locktransfer
      <4>2. t \notin Forfeits
        BY DEF SystemAccounts, Forfeits
      <4> QED
        BY <1>3, <4>1, <4>2, TransferKeeps DEF locktransfer, SamePools, depositVars
    <3>2. CASE ~(a > 0)
      BY <1>0, <1>3, <3>2 DEF locktransfer, depositVars, DepositTypeOK, DepositBacked, get_deposit
    <3> QED
      BY <3>1, <3>2
  <2>2. lock' \in [Users -> [Time -> Nat]]
    <3>1. \A x \in Time : (q * r[x]) \div 100 \in Nat
      <4> SUFFICES ASSUME NEW x \in Time PROVE (q * r[x]) \div 100 \in Nat
        OBVIOUS
      <4>1. q \in Nat /\ r[x] \in 0..100
        OBVIOUS
      <4> QED
        BY <4>1, ShareBounds
    <3>2. \A x \in Time : lock[t][x] \in Nat
      BY <1>0 DEF DepositTypeOK
    <3>3. [x \in Time |-> lock[t][x] + (q * r[x]) \div 100] \in [Time -> Nat]
      BY <3>1, <3>2
    <3>4. lock' = [lock EXCEPT ![t] = [x \in Time |-> lock[t][x] + (q * r[x]) \div 100]]
      BY <1>3 DEF locktransfer
    <3> QED
      BY <1>0, <3>3, <3>4 DEF DepositTypeOK
  <2> QED
    BY <1>0, <1>3, <2>1, <2>2 DEF DepositInv, DepositTypeOK, locktransfer, depositVars
<1>4. ASSUME NEW u \in Users, depstore(u) \/ undepstore(u)
      PROVE  DepositInv'
  <2>1. StoreFee \in Nat /\ "pool.sys" \in Accounts
    BY DEF SystemAccounts, Forfeits
  <2>2. u \notin Forfeits /\ "pool.sys" \notin Forfeits
    BY DEF SystemAccounts, Forfeits
  <2>3. balance' \in [Accounts -> Nat] /\ DepositBacked'
    <3>1. CASE depstore(u)
      BY <2>1, <2>2, <3>1, TransferKeeps DEF depstore, SamePools, depositVars, accountVars
    <3>2. CASE undepstore(u)
      BY <2>1, <2>2, <3>2, TransferKeeps DEF undepstore, SamePools, depositVars, accountVars
    <3> QED
      BY <1>4, <3>1, <3>2
  <2> QED
    BY <1>0, <1>4, <2>3 DEF DepositInv, DepositTypeOK, depstore, undepstore, depositVars, accountVars
<1> QED
  BY <1>1, <1>2, <1>3, <1>4

\* What moving amounts in and out of a pool does to its row.
LEMMA PoolRows ==
    ASSUME NEW p \in Pool, NEW q \in Nat
    PROVE  /\ added(p, q) \in Pool /\ added(p, q).total = p.total + q
           /\ has(p, q) => removed(p, q) \in Pool /\ removed(p, q).total = p.total - q
           /\ freed(p, q) \in Pool /\ freed(p, q).total = p.total
           /\ q <= p.total => forfeited_pool(p, q) \in Pool /\ forfeited_pool(p, q).total = p.total - q
<1>1. /\ p.total \in Nat /\ p.free \in Nat /\ p.his \in Nat
      /\ p = [total |-> p.total, free |-> p.free, his |-> p.his]
  BY DEF Pool
<1> QED
  BY <1>1 DEF Pool, added, has, removed, freed, forfeited_pool

\* paydeppool, unpaydeppool and the same through the channel: the new deposit is
\* free in the balance, or arrives with it.
LEMMA PoolSteps ==
    ASSUME DepositInv, NEW u \in Users, NEW q \in Amounts,
           paydeppool(u, q) \/ unpaydeppool(u, q) \/ paydeppool2(u, q) \/ undeppool2(u, q)
    PROVE  DepositInv'
<1> USE DepositAssumption, UsersAreAccounts
<1>0. /\ DepositTypeOK /\ DepositBacked /\ q \in Nat
      /\ pool1[u] \in Pool /\ pool2[u] \in Pool
      /\ balance \in [Accounts -> Nat]
  BY DEF DepositInv, DepositTypeOK
<1>1. /\ \A v \in Users : balance[v] \in Nat /\ pool1[v].total \in Nat /\ pool2[v].total \in Nat
      /\ \A v \in Users \ givers : balance[v] >= pool1[v].total + pool2[v].total
      /\ givers' = givers
  BY <1>0 DEF DepositTypeOK, Pool, DepositBacked, get_deposit, paydeppool, unpaydeppool, paydeppool2,
     undeppool2, accountVars
<1>2. CASE paydeppool(u, q)
  <2>1. pool1' \in [Users -> Pool] /\ pool1'[u].total = pool1[u].total + q
        /\ \A v \in Users \ {u} : pool1'[v] = pool1[v]
    <3>1. /\ added(pool1[u], q) \in Pool
          /\ added(pool1[u], q).total = pool1[u].total + q
      BY <1>0, <1>2, PoolRows DEF paydeppool
    <3>2. pool1 \in [Users -> Pool] /\ pool1' = [pool1 EXCEPT ![u] = added(pool1[u], q)]
      BY <1>0, <1>2 DEF paydeppool, DepositTypeOK
    <3> HIDE DepositAssumption, UsersAreAccounts
    <3> QED
      BY <3>1, <3>2
  <2>2. balance[u] >= pool1[u].total + pool2[u].total + q
    BY <1>1, <1>2 DEF paydeppool, free_balance
  <2>3. DepositBacked'
    BY <1>1, <1>2, <2>1, <2>2 DEF paydeppool, tokenVars, DepositBacked, get_deposit
  <2> QED
    BY <1>0, <1>2, <2>1, <2>3 DEF DepositInv, DepositTypeOK, paydeppool, tokenVars, accountVars
<1>3. CASE unpaydeppool(u, q)
  <2>1. pool1' \in [Users -> Pool] /\ pool1'[u].total = pool1[u].total - q
        /\ \A v \in Users \ {u} : pool1'[v] = pool1[v]
    <3>1. /\ removed(pool1[u], q) \in Pool
          /\ removed(pool1[u], q).total = pool1[u].total - q
      BY <1>0, <1>3, PoolRows DEF unpaydeppool
    <3>2. pool1 \in [Users -> Pool] /\ pool1' = [pool1 EXCEPT ![u] = removed(pool1[u], q)]
      BY <1>0, <1>3 DEF unpaydeppool, DepositTypeOK
    <3> HIDE DepositAssumption, UsersAreAccounts
    <3> QED
      BY <3>1, <3>2
  <2>2. DepositBacked'
    BY <1>0, <1>1, <1>3, <2>1 DEF unpaydeppool, tokenVars, DepositBacked, get_deposit
  <2> QED
    BY <1>0, <1>3, <2>1, <2>2 DEF DepositInv, DepositTypeOK, unpaydeppool, tokenVars, accountVars
<1>4. CASE paydeppool2(u, q)
  <2>1. pool2' \in [Users -> Pool] /\ pool2'[u].total = pool2[u].total + q
        /\ \A v \in Users \ {u} : pool2'[v] = pool2[v]
    <3>1. /\ added(pool2[u], q) \in Pool
          /\ added(pool2[u], q).total = pool2[u].total + q
      BY <1>0, <1>4, PoolRows DEF paydeppool2
    <3>2. pool2 \in [Users -> Pool] /\ pool2' = [pool2 EXCEPT ![u] = added(pool2[u], q)]
      BY <1>0, <1>4 DEF paydeppool2, DepositTypeOK
    <3> HIDE DepositAssumption, UsersAreAccounts
    <3> QED
      BY <3>1, <3>2
  <2>2. balance' \in [Accounts -> Nat] /\ balance'[u] = balance[u] + q
        /\ \A v \in Users \ {u} : balance'[v] = balance[v]
    <3>1. "ytapro.map" \in Accounts /\ "ytapro.map" \notin Users
      BY DEF SystemAccounts, Forfeits
    <3>2. balance["ytapro.map"] >= q
      BY <1>4 DEF paydeppool2, can_transfer, can_transfer_with
    <3> QED
      BY <1>0, <1>4, <3>1, <3>2, MovedBalances, SMTT(30) DEF paydeppool2
  <2>3. DepositBacked'
    BY <1>0, <1>1, <1>4, <2>1, <2>2 DEF paydeppool2, DepositBacked, get_deposit
  <2> QED
    BY <1>0, <1>4, <2>1, <2>2, <2>3 DEF DepositInv, DepositTypeOK, paydeppool2, accountVars
<1>5. CASE undeppool2(u, q)
  <2>1. pool2' \in [Users -> Pool] /\ pool2'[u].total = pool2[u].total - q
        /\ \A v \in Users \ {u} : pool2'[v] = pool2[v]
    <3>1. /\ removed(pool2[u], q) \in Pool
          /\ removed(pool2[u], q).total = pool2[u].total - q
      BY <1>0, <1>5, PoolRows DEF undeppool2
    <3>2. pool2 \in [Users -> Pool] /\ pool2' = [pool2 EXCEPT ![u] = removed(pool2[u], q)]
      BY <1>0, <1>5 DEF undeppool2, DepositTypeOK
    <3> HIDE DepositAssumption, UsersAreAccounts
    <3> QED
      BY <3>1, <3>2
  <2>2. balance' \in [Accounts -> Nat] /\ balance'[u] = balance[u] - q
        /\ \A v \in Users \ {u} : balance'[v] = balance[v]
    <3>1. "channel.sys" \in Accounts /\ "channel.sys" \notin Users
      BY DEF SystemAccounts, Forfeits
    <3>2. balance[u] >= q
      BY <1>5 DEF undeppool2, can_transfer_with
    <3>3. /\ balance \in [Accounts -> Nat] /\ q \in Nat /\ u \in Accounts /\ u # "channel.sys"
          /\ balance' = moved(u, "channel.sys", q)
      BY <1>0, <1>5, <3>1 DEF undeppool2, DepositTypeOK
    <3> HIDE DepositAssumption, UsersAreAccounts
    <3> QED
      BY <3>1, <3>2, <3>3, MovedBalances, UsersAreAccounts
  <2>3. DepositBacked'
    BY <1>0, <1>1, <1>5, <2>1, <2>2 DEF undeppool2, DepositBacked, get_deposit
  <2>4. channel' \in [1..2 -> [Holders -> Nat]]
    BY <1>0, <1>5 DEF undeppool2, DepositTypeOK, Holders
  <2> QED
    BY <1>0, <1>5, <2>1, <2>2, <2>3, <2>4 DEF DepositInv, DepositTypeOK, undeppool2, accountVars
<1> QED
  BY <1>2, <1>3, <1>4, <1>5

\* frozenuser, setrate, Tick: neither tokens nor deposits change.
LEMMA QuietSteps ==
    ASSUME DepositInv,
           \/ \E u \in Users, t \in Deadlines : frozenuser(u, t)
           \/ \E r \in Rates \ {rate} : setrate(r)
           \/ Tick
           \/ UNCHANGED allDeposit
    PROVE  DepositInv'
<1> USE DepositAssumption
<1>1. UNCHANGED <<balance, pool1, pool2, givers>>
  BY DEF frozenuser, setrate, Tick, allDeposit, tokenVars, depositVars, accountVars
<1>2. DepositBacked'
  BY <1>1 DEF DepositInv, DepositBacked, get_deposit
<1>3. CASE \E u \in Users, t \in Deadlines : frozenuser(u, t)
  BY <1>2, <1>3 DEF DepositInv, DepositTypeOK, frozenuser, tokenVars, depositVars
<1>4. CASE \E r \in Rates \ {rate} : setrate(r)
  BY <1>2, <1>4 DEF DepositInv, DepositTypeOK, setrate, tokenVars, depositVars, accountVars
<1>5. CASE Tick
  <2>1. now' \in Time
    BY <1>5 DEF DepositInv, DepositTypeOK, Tick, Time
  <2> QED
    BY <1>2, <1>5, <2>1 DEF DepositInv, DepositTypeOK, Tick, tokenVars, depositVars
<1>6. CASE UNCHANGED allDeposit
  BY <1>2, <1>6 DEF DepositInv, DepositTypeOK, allDeposit
<1> QED
  BY <1>3, <1>4, <1>5, <1>6

\* A deposit that is increased is still one.
LEMMA IncreasedRow ==
    ASSUME NEW d \in Deposit, NEW q \in Nat
    PROVE  increased(d, q) \in Deposit
<1> DEFINE n == d.deposit + q
           t == IF n > d.dep_total THEN n ELSE d.dep_total
<1>1. n \in Nat /\ t \in Nat
  BY DEF Deposit
<1>2. increased(d, q) = [d EXCEPT !.type = "new", !.deposit = n, !.dep_total = t]
  BY DEF increased
<1> HIDE DEF n, t
<1> QED
  BY <1>1, <1>2 DEF Deposit

\* paydeposit, incdeposit, delminer and mchgdepacc move deposits between miners
\* and the free parts of pools: no total changes.
LEMMA MinerSteps ==
    ASSUME DepositInv,
           \/ \E u \in Users, m \in Miners, q \in Nat : paydeposit(u, m, q)
           \/ \E m \in Miners, q \in Nat : incdeposit(m, q)
           \/ \E m \in Miners : deposit_delminer(m)
           \/ \E m \in Miners, u \in Users : mchgdepacc(m, u)
    PROVE  DepositInv'
<1> USE DepositAssumption
<1> DEFINE Kept == /\ pool1' \in [Users -> Pool] /\ pool2' \in [Users -> Pool]
                   /\ \A v \in Users : /\ pool1'[v].total = pool1[v].total
                                       /\ pool2'[v].total = pool2[v].total
                   /\ mdep' \in [Miners -> Deposit]
                   /\ UNCHANGED <<tokenVars, rate, stored, accountVars, channel>>
<1>0. /\ DepositTypeOK
      /\ pool1 \in [Users -> Pool] /\ pool2 \in [Users -> Pool] /\ mdep \in [Miners -> Deposit]
      /\ \A v \in Users : /\ pool1[v] \in Pool /\ pool2[v] \in Pool
                          /\ pool1[v].free \in Nat /\ pool2[v].free \in Nat
      /\ \A m \in Miners : mdep[m].user \in Users /\ mdep[m].deposit \in Nat /\ mdep[m].dep_total \in Nat
  BY DEF DepositInv, DepositTypeOK, Pool, Deposit
<1>p. ASSUME NEW p \in Pool, NEW n \in Nat
      PROVE  [p EXCEPT !.free = n] \in Pool /\ [p EXCEPT !.free = n].total = p.total
  BY DEF Pool
<1>1. ASSUME NEW u \in Users, NEW m \in Miners, NEW q \in Nat, paydeposit(u, m, q)
      PROVE  Kept
  <2>1. q \in Nat /\ pool2[u].free - q \in Nat
    BY <1>0, <1>1 DEF paydeposit
  <2>2. pool2' = [pool2 EXCEPT ![u] = [pool2[u] EXCEPT !.free = pool2[u].free - q]]
    BY <1>1 DEF paydeposit
  <2>3. [type |-> "new", user |-> u, deposit |-> q, dep_total |-> q] \in Deposit
    BY <2>1 DEF Deposit
  <2>4. mdep' \in [Miners -> Deposit]
    BY <1>0, <1>1, <2>3 DEF paydeposit
  <2>5. pool2' \in [Users -> Pool] /\ \A v \in Users : pool2'[v].total = pool2[v].total
    BY <1>0, <1>p, <2>1, <2>2
  <2> QED
    BY <1>0, <1>1, <2>4, <2>5 DEF paydeposit
<1>2. ASSUME NEW m \in Miners, NEW q \in Nat, incdeposit(m, q)
      PROVE  Kept
  <2> DEFINE d == mdep[m]
  <2>1. q \in Nat /\ charged(m, q) \in Nat /\ pool2[d.user].free - charged(m, q) \in Nat
    BY <1>0, <1>2 DEF incdeposit, charged
  <2>2. pool2' = [pool2 EXCEPT ![d.user] = [pool2[d.user] EXCEPT !.free = pool2[d.user].free - charged(m, q)]]
    BY <1>2 DEF incdeposit
  <2>3. pool2' \in [Users -> Pool] /\ \A v \in Users : pool2'[v].total = pool2[v].total
    BY <1>0, <1>p, <2>1, <2>2
  <2>4. pool1' \in [Users -> Pool] /\ \A v \in Users : pool1'[v].total = pool1[v].total
    <3>1. freed(pool1[d.user], d.deposit) \in Pool
          /\ freed(pool1[d.user], d.deposit).total = pool1[d.user].total
      BY <1>0, PoolRows
    <3> QED
      BY <1>0, <1>2, <3>1 DEF incdeposit
  <2>5. increased(d, q) \in Deposit
    BY <1>0, <2>1, IncreasedRow
  <2>6. mdep' \in [Miners -> Deposit]
    BY <1>0, <1>2, <2>5 DEF incdeposit
  <2> QED
    BY <1>2, <2>3, <2>4, <2>6 DEF incdeposit
<1>3. ASSUME NEW m \in Miners, deposit_delminer(m)
      PROVE  Kept
  <2> DEFINE d == mdep[m]
  <2>1. \A p \in Pool : freed(p, d.deposit) \in Pool /\ freed(p, d.deposit).total = p.total
    BY <1>0, PoolRows
  <2>2. /\ pool1' \in [Users -> Pool] /\ \A v \in Users : pool1'[v].total = pool1[v].total
    BY <1>0, <1>3, <2>1 DEF deposit_delminer
  <2>3. /\ pool2' \in [Users -> Pool] /\ \A v \in Users : pool2'[v].total = pool2[v].total
    BY <1>0, <1>3, <2>1 DEF deposit_delminer
  <2>4. mdep' \in [Miners -> Deposit]
    BY <1>0, <1>3 DEF deposit_delminer, NoDeposit, Deposit
  <2> QED
    BY <1>3, <2>2, <2>3, <2>4 DEF deposit_delminer
<1>4. ASSUME NEW m \in Miners, NEW u \in Users, mchgdepacc(m, u)
      PROVE  Kept
  <2> DEFINE d == mdep[m]
             back == IF d.type = "new" THEN [pool2 EXCEPT ![d.user].free = @ + d.deposit] ELSE pool2
  <2>0. d.user # u /\ pool2[u].free >= d.dep_total
    BY <1>4 DEF mchgdepacc
  <2>1. pool1' \in [Users -> Pool] /\ \A v \in Users : pool1'[v].total = pool1[v].total
    <3>1. pool1' = IF d.type = "old"
                   THEN [pool1 EXCEPT ![d.user] = [pool1[d.user] EXCEPT !.free = pool1[d.user].free + d.deposit]]
                   ELSE pool1
      BY <1>4 DEF mchgdepacc
    <3>2. pool1[d.user].free + d.deposit \in Nat
      BY <1>0
    <3> QED
      BY <1>0, <1>p, <3>1, <3>2
  <2>2. /\ back \in [Users -> Pool] /\ \A v \in Users : back[v].total = pool2[v].total
        /\ back[u] = pool2[u]
    <3>1. back = IF d.type = "new"
                 THEN [pool2 EXCEPT ![d.user] = [pool2[d.user] EXCEPT !.free = pool2[d.user].free + d.deposit]]
                 ELSE pool2
      OBVIOUS
    <3>2. pool2[d.user].free + d.deposit \in Nat /\ d.user # u
      BY <1>0, <2>0
    <3> QED
      BY <1>0, <1>p, <3>1, <3>2
  <2>3. pool2' = [back EXCEPT ![u] = [pool2[u] EXCEPT !.free = pool2[u].free - d.dep_total]]
    BY <1>4, <2>2 DEF mchgdepacc
  <2>4. pool2[u].free - d.dep_total \in Nat
    BY <1>0, <2>0
  <2>5. pool2' \in [Users -> Pool] /\ \A v \in Users : pool2'[v].total = pool2[v].total
    <3> DEFINE row == [pool2[u] EXCEPT !.free = pool2[u].free - d.dep_total]
    <3>1. row \in Pool /\ row.total = pool2[u].total
      BY <1>0, <1>p, <2>4
    <3>2. pool2' = [back EXCEPT ![u] = row]
      BY <2>3
    <3> HIDE DEF row, back
    <3> QED
      BY <2>2, <3>1, <3>2
  <2>6. mdep' \in [Miners -> Deposit]
    <3>1. [type |-> "new", user |-> u, deposit |-> d.dep_total, dep_total |-> d.dep_total] \in Deposit
      BY <1>0 DEF Deposit
    <3> QED
      BY <1>0, <1>4, <3>1 DEF mchgdepacc
  <2> QED
    BY <1>4, <2>1, <2>5, <2>6 DEF mchgdepacc
<1>5. Kept
  BY <1>1, <1>2, <1>3, <1>4
<1>6. DepositTypeOK'
  BY <1>0, <1>5 DEF DepositTypeOK, tokenVars, accountVars
<1>7. DepositBacked'
  BY <1>0, <1>5 DEF DepositInv, DepositBacked, get_deposit, tokenVars, accountVars
<1> QED
  BY <1>6, <1>7 DEF DepositInv

\* A fine takes the same amount out of the pool and out of the balance.
LEMMA ForfeitStep ==
    ASSUME DepositInv, NEW m \in Miners, NEW q \in Fines, mforfeit(m, q)
    PROVE  DepositInv'
<1> USE DepositAssumption, UsersAreAccounts
<1> DEFINE d    == mdep[m]
           real == IF d.deposit < q THEN d.deposit ELSE q
           to   == IF d.type = "old" THEN "yottaforfeit" ELSE "forfeit.sys"
<1>0. /\ DepositTypeOK /\ balance \in [Accounts -> Nat]
      /\ pool1 \in [Users -> Pool] /\ pool2 \in [Users -> Pool]
      /\ d \in Deposit /\ d.user \in Users /\ d.deposit \in Nat
      /\ real \in Nat /\ real <= d.deposit
  BY DEF DepositInv, DepositTypeOK, Deposit
<1>1. /\ \A v \in Users : /\ balance[v] \in Nat /\ pool1[v].total \in Nat /\ pool2[v].total \in Nat
                          /\ pool1[v].free \in Nat /\ pool2[v].free \in Nat
                          /\ pool1[v] \in Pool /\ pool2[v] \in Pool
      /\ \A v \in Users \ givers : balance[v] >= pool1[v].total + pool2[v].total
      /\ givers' = givers
  BY DEF DepositInv, DepositTypeOK, Pool, DepositBacked, get_deposit, mforfeit, accountVars
<1>2. to \in Accounts /\ to \notin Users /\ d.user # to
  BY <1>0 DEF SystemAccounts, Forfeits
<1>3. balance[d.user] >= real /\ balance' = moved(d.user, to, real)
  BY DEF mforfeit, can_transfer, can_transfer_with
<1>4. /\ balance' \in [Accounts -> Nat] /\ balance'[d.user] = balance[d.user] - real
      /\ \A v \in Users \ {d.user} : balance'[v] = balance[v]
  BY <1>0, <1>2, <1>3, MovedBalances
<1>5. ASSUME d.type = "old"
      PROVE  /\ pool1' \in [Users -> Pool] /\ pool2' \in [Users -> Pool]
             /\ \A v \in Users \ givers : balance'[v] >= pool1'[v].total + pool2'[v].total
  <2>1. pool1' = [pool1 EXCEPT ![d.user] = forfeited_pool(pool1[d.user], real)] /\ pool2' = pool2
    BY <1>5 DEF mforfeit
  <2>2. real <= pool1[d.user].total
    <3>1. pool1[d.user].total - pool1[d.user].free >= real
      BY <1>5 DEF mforfeit
    <3> QED
      BY <1>0, <1>1, <3>1
  <2>3. /\ forfeited_pool(pool1[d.user], real) \in Pool
        /\ forfeited_pool(pool1[d.user], real).total = pool1[d.user].total - real
    BY <1>0, <1>1, <2>2, PoolRows
  <2>4. pool1' \in [Users -> Pool] /\ pool2' \in [Users -> Pool]
    BY <1>0, <2>1, <2>3
  <2>5. \A v \in Users \ givers : balance'[v] >= pool1'[v].total + pool2'[v].total
    BY <1>0, <1>1, <1>4, <2>1, <2>2, <2>3
  <2> QED
    BY <2>4, <2>5
<1>6. ASSUME d.type # "old"
      PROVE  /\ pool1' \in [Users -> Pool] /\ pool2' \in [Users -> Pool]
             /\ \A v \in Users \ givers : balance'[v] >= pool1'[v].total + pool2'[v].total
  <2>1. pool2' = [pool2 EXCEPT ![d.user] = forfeited_pool(pool2[d.user], real)] /\ pool1' = pool1
    BY <1>6 DEF mforfeit
  <2>2. real <= pool2[d.user].total
    <3>1. pool2[d.user].total - pool2[d.user].free >= real
      BY <1>6 DEF mforfeit
    <3> QED
      BY <1>0, <1>1, <3>1
  <2>3. /\ forfeited_pool(pool2[d.user], real) \in Pool
        /\ forfeited_pool(pool2[d.user], real).total = pool2[d.user].total - real
    BY <1>0, <1>1, <2>2, PoolRows
  <2>4. pool1' \in [Users -> Pool] /\ pool2' \in [Users -> Pool]
    BY <1>0, <2>1, <2>3
  <2>5. \A v \in Users \ givers : balance'[v] >= pool1'[v].total + pool2'[v].total
    BY <1>0, <1>1, <1>4, <2>1, <2>2, <2>3
  <2> QED
    BY <2>4, <2>5
<1>7. /\ pool1' \in [Users -> Pool] /\ pool2' \in [Users -> Pool]
      /\ \A v \in Users \ givers : balance'[v] >= pool1'[v].total + pool2'[v].total
  BY <1>5, <1>6
<1>8. mdep' \in [Miners -> Deposit]
  <2>1. d.deposit - real \in Nat
    BY <1>0
  <2>2. [d EXCEPT !.deposit = d.deposit - real] \in Deposit
    BY <1>0, <2>1 DEF Deposit
  <2>3. mdep' = [mdep EXCEPT ![m] = [d EXCEPT !.deposit = d.deposit - real]]
    BY DEF mforfeit
  <2> QED
    BY <1>0, <2>2, <2>3 DEF DepositTypeOK
<1>9. DepositTypeOK'
  BY <1>0, <1>4, <1>7, <1>8 DEF DepositTypeOK, mforfeit, accountVars
<1>10. DepositBacked'
  BY <1>1, <1>7 DEF DepositBacked, get_deposit
<1> QED
  BY <1>9, <1>10 DEF DepositInv

\* A claim on the channel that is set to an amount.
LEMMA ClaimSet ==
    ASSUME NEW c \in [1..2 -> [Holders -> Nat]], NEW k \in 1..2, NEW h \in Holders, NEW n \in Nat
    PROVE  [c EXCEPT ![k][h] = n] \in [1..2 -> [Holders -> Nat]]
OBVIOUS

\* The channel's own steps: claims move with the tokens that back them.
LEMMA ChannelSteps ==
    ASSUME DepositInv,
           \/ \E u \in Users, q \in Nat : channel_fee(u, q) \/ feetoc(u, q) \/ rewardnode(u, q)
           \/ \E u \in Users, q, g \in Nat : mapc(u, q, g) \/ channellog(u, q, g)
           \/ \E x \in SplitRates : splitgas(x)
    PROVE  DepositInv'
<1> USE DepositAssumption, UsersAreAccounts
<1>0. /\ DepositTypeOK /\ DepositBacked /\ channel \in [1..2 -> [Holders -> Nat]]
      /\ channel[1] \in [Holders -> Nat] /\ channel[2] \in [Holders -> Nat]
      /\ balance \in [Accounts -> Nat]
  BY DEF DepositInv, DepositTypeOK
<1>1. /\ Users \subseteq Holders /\ {"gas.sys", "node.sys", "null.sys"} \subseteq Holders
  BY DEF Holders
<1>2. ASSUME balance' = balance \/ \E f \in {"ytapro.map", "fund.sys", "channel.sys"},
                                      t \in {"ytapro.map", "channel.sys"}, q \in Nat :
                                         can_transfer(f, t, q) /\ balance' = moved(f, t, q),
             supply' = supply, SamePools, SameRest, channel' \in [1..2 -> [Holders -> Nat]]
      PROVE  DepositInv'
  <2>1. balance' \in [Accounts -> Nat] /\ DepositBacked'
    <3>1. CASE balance' = balance
      BY <1>0, <1>2, <3>1 DEF DepositBacked, get_deposit, SamePools, SameRest
    <3>2. CASE \E f \in {"ytapro.map", "fund.sys", "channel.sys"},
                  t \in {"ytapro.map", "channel.sys"}, q \in Nat :
                    can_transfer(f, t, q) /\ balance' = moved(f, t, q)
      <4>1. PICK f \in {"ytapro.map", "fund.sys", "channel.sys"},
                 t \in {"ytapro.map", "channel.sys"}, q \in Nat :
                   can_transfer(f, t, q) /\ balance' = moved(f, t, q)
        BY <3>2
      <4>2. f \in Accounts /\ t \in Accounts /\ t \notin Forfeits
        BY DEF SystemAccounts, Forfeits
      <4> QED
        BY <1>2, <4>1, <4>2, TransferKeeps DEF SameRest
    <3> QED
      BY <1>2, <3>1, <3>2
  <2> QED
    BY <1>0, <1>2, <2>1 DEF DepositInv, DepositTypeOK, SamePools, SameRest
<1>3. ASSUME NEW u \in Users, NEW q \in Nat, channel_fee(u, q)
      PROVE  DepositInv'
  <2>1. channel' \in [1..2 -> [Holders -> Nat]]
    BY <1>0, <1>1, <1>3 DEF channel_fee
  <2> QED
    BY <1>2, <1>3, <2>1 DEF channel_fee, depositVars, accountVars, SamePools, SameRest
<1>4. ASSUME NEW u \in Users, NEW q \in Nat, feetoc(u, q)
      PROVE  DepositInv'
  <2>1. channel' \in [1..2 -> [Holders -> Nat]]
    BY <1>0, <1>1, <1>4 DEF feetoc
  <2> QED
    BY <1>2, <1>4, <2>1 DEF feetoc, tokenVars, depositVars, accountVars, SamePools, SameRest
<1>5. ASSUME NEW u \in Users, NEW q \in Nat, rewardnode(u, q)
      PROVE  DepositInv'
  <2>1. channel' \in [1..2 -> [Holders -> Nat]]
    BY <1>0, <1>1, <1>5 DEF rewardnode
  <2> QED
    BY <1>2, <1>5, <2>1 DEF rewardnode, tokenVars, depositVars, accountVars, SamePools, SameRest
<1>6. ASSUME NEW u \in Users, NEW q \in Nat, NEW g \in Nat, mapc(u, q, g)
      PROVE  DepositInv'
  <2>1. channel' \in [1..2 -> [Holders -> Nat]]
    BY <1>0, <1>1, <1>6 DEF mapc
  <2>2. q + g \in Nat
    OBVIOUS
  <2> QED
    BY <1>2, <1>6, <2>1, <2>2 DEF mapc, depositVars, accountVars, SamePools, SameRest
<1>7. ASSUME NEW u \in Users, NEW q \in Nat, NEW g \in Nat, channellog(u, q, g)
      PROVE  DepositInv'
  <2> DEFINE c1 == [channel EXCEPT ![2][u] = channel[2][u] - g]
             c2 == [c1 EXCEPT ![1]["gas.sys"] = c1[1]["gas.sys"] + g]
             c3 == [c2 EXCEPT ![1][u] = c2[1][u] + q]
  <2>0. channel' = c3 /\ channel[2][u] - g \in Nat
    <3>1. u # "gas.sys" /\ u \in Holders /\ "gas.sys" \in Holders
      BY <1>1
    <3> HIDE DepositAssumption, UsersAreAccounts
    <3>2. channel' = c3
      BY <1>0, <1>7, <3>1 DEF channellog
    <3>3. channel[2][u] - g \in Nat
      BY <1>0, <1>7, <3>1 DEF channellog
    <3> QED
      BY <3>2, <3>3
  <2>1. channel' \in [1..2 -> [Holders -> Nat]]
    <3>1. c1 \in [1..2 -> [Holders -> Nat]]
      BY <1>0, <1>1, <2>0, ClaimSet
    <3> HIDE DEF c1
    <3>2. c2 \in [1..2 -> [Holders -> Nat]]
      <4>1. c1[1]["gas.sys"] + g \in Nat
        BY <1>1, <3>1
      <4> QED
        BY <1>1, <3>1, <4>1, ClaimSet
    <3> HIDE DEF c2
    <3>3. c3 \in [1..2 -> [Holders -> Nat]]
      <4>1. c2[1][u] + q \in Nat
        BY <1>1, <3>2
      <4> QED
        BY <1>1, <3>2, <4>1, ClaimSet
    <3> QED
      BY <2>0, <3>3
  <2> QED
    BY <1>2, <1>7, <2>1 DEF channellog, depositVars, accountVars, SamePools, SameRest
<1>8. ASSUME NEW x \in SplitRates, splitgas(x)
      PROVE  DepositInv'
  <2> DEFINE amount == channel[1]["gas.sys"]
             node   == (amount * x) \div 100
  <2>1. amount \in Nat /\ node \in 0..amount
    BY <1>0, <1>1, ShareBounds
  <2> DEFINE c1 == [channel EXCEPT ![1]["gas.sys"] = 0]
             c2 == [c1 EXCEPT ![1]["node.sys"] = channel[1]["node.sys"] + node]
             c3 == [c2 EXCEPT ![1]["null.sys"] = channel[1]["null.sys"] + (amount - node)]
  <2>2. channel' = c3
    BY <1>8 DEF splitgas, null_share
  <2>3. channel' \in [1..2 -> [Holders -> Nat]]
    <3> HIDE DEF node, amount
    <3>1. c1 \in [1..2 -> [Holders -> Nat]]
      BY <1>0, <1>1, ClaimSet
    <3> HIDE DEF c1
    <3>2. c2 \in [1..2 -> [Holders -> Nat]]
      <4>1. channel[1]["node.sys"] + node \in Nat
        BY <1>0, <1>1, <2>1
      <4> QED
        BY <1>1, <3>1, <4>1, ClaimSet
    <3> HIDE DEF c2
    <3>3. c3 \in [1..2 -> [Holders -> Nat]]
      <4>1. channel[1]["null.sys"] + (amount - node) \in Nat
        BY <1>0, <1>1, <2>1
      <4> QED
        BY <1>1, <3>2, <4>1, ClaimSet
    <3> QED
      BY <2>2, <3>3
  <2> QED
    BY <1>2, <1>8, <2>3 DEF splitgas, tokenVars, depositVars, accountVars, SamePools, SameRest
<1> QED
  BY <1>3, <1>4, <1>5, <1>6, <1>7, <1>8

\* The fee of a store pool leaves the deposits of its owner backed.
LEMMA FeeStep ==
    ASSUME DepositInv, NEW u \in Users, NEW q \in Nat, transfer(u, "hddpoolexchg", q)
    PROVE  DepositInv'
<1>0. DepositTypeOK /\ DepositBacked
  BY DEF DepositInv
<1>1. u \in Accounts /\ "hddpoolexchg" \in Accounts /\ "hddpoolexchg" \notin Forfeits
  BY UsersAreAccounts DEF SystemAccounts, Forfeits
<1>2. balance' \in [Accounts -> Nat] /\ DepositBacked'
  BY <1>0, <1>1, TransferKeeps DEF transfer, SamePools, depositVars
<1> QED
  BY <1>0, <1>1, <1>2 DEF transfer, depositVars, DepositInv, DepositTypeOK

-----------------------------------------------------------------------------
\* Every action of every contract preserves the invariant.
LEMMA StepPreserves == DepositInv /\ [AnyStep]_allDeposit => DepositInv'
<1>1. Amounts \subseteq Nat
  BY DepositAssumption
<1>2. DepositInv /\ AccountNext => DepositInv'
  BY <1>1, TokenSteps, PoolSteps, QuietSteps, MinerSteps, ForfeitStep, ChannelSteps DEF AccountNext
<1>3. DepositInv /\ AnyCalls => DepositInv'
  BY MinerSteps, ChannelSteps, FeeStep DEF AnyCalls
<1> QED
  BY <1>2, <1>3, QuietSteps DEF AnyStep

\* The inductive invariant: amounts are natural numbers and deposits are backed.
THEOREM DepositInvariant == DepositSpec => []DepositInv
<1>1. DepositInit => DepositInv
  BY InitEstablishes
<1>2. DepositInv /\ [DepositNext]_allDeposit => DepositInv'
  BY StepPreserves, NextIsAnyStep
<1> QED
  BY <1>1, <1>2, PTL DEF DepositSpec

\* No amount is ever negative: assets are signed numbers, and every action of
\* eosio.token, hdddeposit and channel.sys that decreases one checks enough first.
THEOREM AmountsNeverNegative == DepositSpec => []DepositTypeOK
<1>1. DepositInv => DepositTypeOK
  BY DEF DepositInv
<1> QED
  BY <1>1, DepositInvariant, PTL

\* Deposits are never spent, for all users, miners, amounts, lock rules and rates.
THEOREM DepositsBacked == DepositSpec => []DepositBacked
<1>1. DepositInv => DepositBacked
  BY DEF DepositInv
<1> QED
  BY <1>1, DepositInvariant, PTL

-----------------------------------------------------------------------------
(* Frozen accounts. *)

\* A transfer that is no fine takes nothing from a frozen account.
LEMMA FrozenTransfer ==
    ASSUME DepositTypeOK, NEW from \in Accounts, NEW to \in Accounts, NEW q \in Nat,
           NEW deposit \in Int, to \notin Forfeits,
           can_transfer_with(from, to, q, deposit),
           NEW u \in Users, is_frozen(u)
    PROVE  moved(from, to, q)[u] >= balance[u]
<1>1. /\ from # to /\ q > 0 /\ balance[from] >= q
      /\ from \in Users => ~is_frozen(from)
  BY TransferGuard
<1>2. from # u /\ balance \in [Accounts -> Nat] /\ u \in Accounts
  BY <1>1, UsersAreAccounts DEF DepositTypeOK
<1> QED
  BY <1>1, <1>2, MovedBalances

\* The same with the deposit that the account has.
LEMMA FrozenCanTransfer ==
    ASSUME DepositTypeOK, NEW from \in Accounts, NEW to \in Accounts, NEW q \in Nat,
           to \notin Forfeits, can_transfer(from, to, q),
           NEW u \in Users, is_frozen(u)
    PROVE  moved(from, to, q)[u] >= balance[u]
<1>1. get_deposit(from) \in Int
  BY DEF get_deposit, DepositTypeOK, Pool
<1> QED
  BY <1>1, FrozenTransfer DEF can_transfer

\* What a frozen account loses in a step, a forfeit account gains.
LEMMA FrozenStep ==
    ASSUME DepositTypeOK, AnyStep, NEW u \in Users, is_frozen(u), balance'[u] < balance[u]
    PROVE  \E f \in Forfeits : balance'[f] - balance[f] = balance[u] - balance'[u]
<1> USE DepositAssumption, UsersAreAccounts
<1>0. /\ balance \in [Accounts -> Nat] /\ u \in Accounts /\ balance[u] \in Nat
      /\ u \notin Forfeits
      /\ {"eosio.stake", "pool.sys", "channel.sys", "store.sys", "ytapro.map", "fund.sys",
          "hddpoolexchg"} \subseteq Accounts \ Forfeits
      /\ \A v \in Users : v \notin {"yottaforfeit", "forfeit.sys", "ytapro.map", "fund.sys"}
      /\ Forfeits \subseteq Accounts /\ \A v \in Users : v \notin Forfeits
  BY DEF DepositTypeOK, SystemAccounts, Forfeits
<1>1. ~ balance' = balance
  BY <1>0
<1>2. ASSUME NEW f \in Accounts, NEW t \in Accounts, NEW q \in Nat,
             t \notin Forfeits,
             can_transfer(f, t, q), balance' = moved(f, t, q)
      PROVE  FALSE
  <2>1. moved(f, t, q)[u] >= balance[u]
    BY <1>2, FrozenCanTransfer
  <2>2. moved(f, t, q) \in [Accounts -> Nat]
    BY <1>0, <1>2, MovedBalances DEF can_transfer, can_transfer_with
  <2> QED
    BY <1>0, <1>2, <2>1, <2>2
<1>g. ASSUME NEW v \in Accounts, NEW t \in Forfeits, NEW q \in Nat,
             v # t, balance[v] >= q, balance' = moved(v, t, q)
      PROVE  \E f \in Forfeits : balance'[f] - balance[f] = balance[u] - balance'[u]
  <2>1. /\ balance'[v] = balance[v] - q /\ balance'[t] = balance[t] + q
        /\ \A a \in Accounts \ {v, t} : balance'[a] = balance[a]
    <3>1. balance \in [Accounts -> Nat] /\ t \in Accounts
      BY <1>0
    <3> HIDE DepositAssumption, UsersAreAccounts
    <3> QED
      BY <1>g, <3>1, MovedBalances
  <2>2. u = v
    BY <1>0, <2>1
  <2>3. balance'[t] - balance[t] = balance[u] - balance'[u]
    BY <1>0, <2>1, <2>2
  <2> QED
    BY <2>3
<1>3. ASSUME NEW m \in Miners, NEW q \in Fines, mforfeit(m, q)
      PROVE  \E f \in Forfeits : balance'[f] - balance[f] = balance[u] - balance'[u]
  <2> DEFINE d    == mdep[m]
             real == IF d.deposit < q THEN d.deposit ELSE q
             to   == IF d.type = "old" THEN "yottaforfeit" ELSE "forfeit.sys"
  <2>1. balance[d.user] >= real /\ balance' = moved(d.user, to, real)
    BY <1>3 DEF mforfeit, can_transfer, can_transfer_with
  <2>2. d \in Deposit /\ d.user \in Users /\ d.deposit \in Nat /\ real \in Nat
    BY DEF DepositTypeOK, Deposit
  <2>3. to \in Forfeits
    BY DEF Forfeits
  <2>4. d.user \in Accounts /\ d.user # to
    BY <1>0, <2>2, <2>3
  <2> HIDE DEF d, real, to
  <2> QED
    BY <1>g, <2>1, <2>2, <2>3, <2>4
<1>4. ASSUME NEW v \in Users, NEW q \in Amounts, undeppool2(v, q)
      PROVE  FALSE
  <2>1. ~is_frozen(v) /\ balance[v] >= q /\ balance' = moved(v, "channel.sys", q)
    BY <1>4 DEF undeppool2, can_transfer_with
  <2>2. v # u /\ v # "channel.sys" /\ "channel.sys" # u
    BY <2>1 DEF SystemAccounts, Forfeits
  <2> QED
    BY <1>0, <2>1, <2>2, MovedBalances
<1>5. ASSUME NEW v \in Users, NEW q \in Amounts, paydeppool2(v, q)
      PROVE  FALSE
  <2>1. balance["ytapro.map"] >= q /\ balance' = moved("ytapro.map", v, q)
    BY <1>5 DEF paydeppool2, can_transfer, can_transfer_with
  <2>2. v \in Accounts /\ v # "ytapro.map" /\ u # "ytapro.map" /\ q \in Nat /\ "ytapro.map" \in Accounts
    BY <1>0
  <2>3. /\ balance'[v] = balance[v] + q
        /\ \A a \in Accounts \ {"ytapro.map", v} : balance'[a] = balance[a]
    <3>1. balance \in [Accounts -> Nat]
      BY <1>0
    <3> HIDE DepositAssumption, UsersAreAccounts
    <3> QED
      BY <2>1, <2>2, <3>1, MovedBalances
  <2>4. balance'[u] = balance[u] \/ balance'[u] = balance[u] + q
    BY <1>0, <2>2, <2>3
  <2> QED
    BY <1>0, <2>2, <2>4
<1>6. ASSUME NEW q \in Amounts, issue(q)
      PROVE  FALSE
  BY <1>0, <1>6 DEF issue
<1>7. ASSUME NEW r \in Rules, NEW f \in Users, NEW t \in Users, NEW q \in Amounts,
             NEW a \in Amounts \cup {0}, locktransfer(r, f, t, q, a)
      PROVE  FALSE
  BY <1>0, <1>1, <1>2, <1>7 DEF locktransfer
<1>8. ASSUME NEW v \in Users, depstore(v) \/ undepstore(v)
      PROVE  FALSE
  BY <1>0, <1>2, <1>8 DEF depstore, undepstore
<1>9. ASSUME NEW v \in Users, NEW q \in Nat, NEW g \in Nat,
             channel_fee(v, q) \/ mapc(v, q, g) \/ channellog(v, q, g)
      PROVE  FALSE
  <2>1. q + g \in Nat
    <3> HIDE DepositAssumption, UsersAreAccounts
    <3> QED
      OBVIOUS
  <2> QED
    BY <1>0, <1>2, <1>9, <2>1 DEF channel_fee, mapc, channellog
<1>10. ASSUME NEW v \in Users \cup {"eosio.stake"}, NEW t \in Users \cup {"eosio.stake", "forfeit.sys"},
              NEW q \in Amounts, transfer(v, t, q)
       PROVE  \E f \in Forfeits : balance'[f] - balance[f] = balance[u] - balance'[u]
  <2>1. v \in Accounts /\ t \in Accounts /\ q \in Nat
    BY DEF SystemAccounts
  <2>2. can_transfer(v, t, q) /\ balance' = moved(v, t, q) /\ balance[v] >= q /\ v # t
    BY <1>10 DEF transfer, can_transfer, can_transfer_with
  <2> QED
    BY <1>2, <1>g, <2>1, <2>2
<1>11. ASSUME \/ \E v \in Users, t \in Deadlines : frozenuser(v, t)
              \/ \E v \in Users, q \in Amounts : paydeppool(v, q) \/ unpaydeppool(v, q)
              \/ \E m \in Miners, v \in Users : mchgdepacc(m, v)
              \/ \E r \in Rates \ {rate} : setrate(r)
              \/ \E v \in Users, q \in Amounts : feetoc(v, q) \/ rewardnode(v, q)
              \/ \E x \in SplitRates : splitgas(x)
              \/ Tick
              \/ \E v \in Users, m \in Miners, q \in Nat : paydeposit(v, m, q)
              \/ \E m \in Miners, q \in Nat : incdeposit(m, q)
              \/ \E m \in Miners : deposit_delminer(m)
       PROVE  FALSE
  BY <1>1, <1>11 DEF frozenuser, paydeppool, unpaydeppool, mchgdepacc, setrate, feetoc, rewardnode,
     splitgas, Tick, paydeposit, incdeposit, deposit_delminer, tokenVars
<1>f. ASSUME NEW v \in Users, NEW q \in Nat, transfer(v, "hddpoolexchg", q)
      PROVE  FALSE
  BY <1>0, <1>2, <1>f DEF transfer
<1>12. Amounts \subseteq Nat /\ 0 \in Nat
  OBVIOUS
<1> HIDE DepositAssumption, UsersAreAccounts
<1>13. CASE AccountNext
  BY <1>3, <1>4, <1>5, <1>6, <1>7, <1>8, <1>9, <1>10, <1>11, <1>12, <1>13 DEF AccountNext
<1>14. CASE AnyCalls
  BY <1>9, <1>11, <1>f, <1>14 DEF AnyCalls
<1> QED
  BY <1>13, <1>14 DEF AnyStep

\* Freezing holds: what a frozen account loses goes to a forfeit account, whichever
\* contract moves it.
THEOREM FrozenAccountsKeep == DepositSpec => FrozenStays
<1>1. DepositTypeOK /\ [DepositNext]_allDeposit =>
        [\A u \in Users : is_frozen(u) /\ balance'[u] < balance[u] =>
           \E f \in Forfeits : balance'[f] - balance[f] = balance[u] - balance'[u]]_allDeposit
  BY FrozenStep, NextIsAnyStep
<1> QED
  BY <1>1, AmountsNeverNegative, PTL DEF DepositSpec, FrozenStays

-----------------------------------------------------------------------------
(* What is not free in the pools is what miners have deposited.  A step that *)
(* changes one row of miner2dep changes one term of the sums; the pool must   *)
(* change by as much.                                                         *)

Held(p) == p.total - p.free

\* The tables of deposits have their types.
DepositTables ==
    pool1 \in [Users -> Pool] /\ pool2 \in [Users -> Pool] /\ mdep \in [Miners -> Deposit]

\* Deposits add up to a number that covers each of them.
LEMMA DepositsTyped ==
    ASSUME mdep \in [Miners -> Deposit], NEW u, NEW type
    PROVE  /\ DepositsOf(u, type) \in Nat
           /\ \A m \in Miners : share(mdep[m], u, type) \in Nat
                                /\ share(mdep[m], u, type) <= DepositsOf(u, type)
<1> DEFINE f == [m \in Miners |-> share(mdep[m], u, type)]
<1>1. \A m \in Miners : f[m] \in Nat
  BY DEF share, Deposit
<1>2. DepositsOf(u, type) = SumFunctionOnSet(f, Miners)
  BY DEF DepositsOf, SumFunction
<1> HIDE DEF f
<1>3. SumFunctionOnSet(f, Miners) \in Nat /\ \A m \in Miners : f[m] <= SumFunctionOnSet(f, Miners)
  BY <1>1, SumAtLeast, DepositAssumption
<1> QED
  BY <1>1, <1>2, <1>3 DEF f

\* One row of miner2dep changes.
LEMMA RowChanged ==
    ASSUME mdep \in [Miners -> Deposit], NEW m \in Miners, NEW row \in Deposit,
           mdep' = [mdep EXCEPT ![m] = row], NEW u, NEW type
    PROVE  DepositsOf(u, type)'
             = DepositsOf(u, type) + (share(row, u, type) - share(mdep[m], u, type))
<1> DEFINE f == [x \in Miners |-> share(mdep[x], u, type)]
           g == [x \in Miners |-> share(mdep'[x], u, type)]
<1>1. DepositsOf(u, type) = SumFunctionOnSet(f, Miners)
  BY DEF DepositsOf, SumFunction
<1>2. DepositsOf(u, type)' = SumFunctionOnSet(g, Miners)
  BY DEF DepositsOf, SumFunction, share
<1>3. IntOn(f, Miners) /\ IntOn(g, Miners)
  BY DEF IntOn, share, Deposit
<1>4. /\ \A x \in Miners : x # m => g[x] = f[x]
      /\ f[m] = share(mdep[m], u, type) /\ g[m] = share(row, u, type)
  OBVIOUS
<1> HIDE DEF f, g
<1>5. SumFunctionOnSet(g, Miners) = SumFunctionOnSet(f, Miners) + (g[m] - f[m])
  BY <1>3, <1>4, SumUpdate, DepositAssumption
<1> QED
  BY <1>1, <1>2, <1>4, <1>5

\* A step that moves the same amount in the pools and in miner2dep.
LEMMA AccountedByRow ==
    ASSUME DepositTables, DepositsAccounted, NEW m \in Miners, NEW row \in Deposit,
           mdep' = [mdep EXCEPT ![m] = row],
           \A u \in Users :
              /\ Held(pool1'[u]) = Held(pool1[u]) + (share(row, u, "old") - share(mdep[m], u, "old"))
              /\ Held(pool2'[u]) = Held(pool2[u]) + (share(row, u, "new") - share(mdep[m], u, "new"))
    PROVE  DepositsAccounted'
<1> SUFFICES ASSUME NEW u \in Users
             PROVE  /\ Held(pool1'[u]) = DepositsOf(u, "old")'
                    /\ Held(pool2'[u]) = DepositsOf(u, "new")'
  BY DEF DepositsAccounted, Held
<1>1. \A type : DepositsOf(u, type)'
                  = DepositsOf(u, type) + (share(row, u, type) - share(mdep[m], u, type))
  BY RowChanged DEF DepositTables
<1>2. Held(pool1[u]) = DepositsOf(u, "old") /\ Held(pool2[u]) = DepositsOf(u, "new")
  BY DEF DepositsAccounted, Held
<1> QED
  BY <1>1, <1>2

\* A step that leaves miner2dep and the parts of the pools that are not free alone.
LEMMA AccountedSame ==
    ASSUME DepositsAccounted, mdep' = mdep,
           \A u \in Users : Held(pool1'[u]) = Held(pool1[u]) /\ Held(pool2'[u]) = Held(pool2[u])
    PROVE  DepositsAccounted'
<1>1. \A u, type : DepositsOf(u, type)' = DepositsOf(u, type)
  BY DEF DepositsOf, share
<1> QED
  BY <1>1 DEF DepositsAccounted, Held

\* The rows of the pools as the operations leave them.
LEMMA HeldRows ==
    ASSUME NEW p \in Pool, NEW q \in Nat
    PROVE  /\ Held(p) \in Int /\ p.free \in Nat /\ p.total \in Nat
           /\ Held(added(p, q)) = Held(p) /\ Held(removed(p, q)) = Held(p)
           /\ Held([p EXCEPT !.free = @ - q]) = Held(p) + q
           /\ Held([p EXCEPT !.free = @ + q]) = Held(p) - q
           /\ Held(forfeited_pool(p, q)) = Held(p) - q
           /\ q <= Held(p) => Held(freed(p, q)) = Held(p) - q
<1>1. p.free \in Nat /\ p.total \in Nat
  BY DEF Pool
<1>2. Held(added(p, q)) = Held(p) /\ Held(removed(p, q)) = Held(p)
  BY <1>1 DEF Held, added, removed
<1>3. /\ Held([p EXCEPT !.free = @ - q]) = Held(p) + q
      /\ Held([p EXCEPT !.free = @ + q]) = Held(p) - q
      /\ Held(forfeited_pool(p, q)) = Held(p) - q
  BY <1>1 DEF Held, Pool, forfeited_pool
<1>4. ASSUME q <= Held(p)
      PROVE  Held(freed(p, q)) = Held(p) - q
  <2> DEFINE n == IF p.free + q >= p.total THEN p.total ELSE p.free + q
  <2>1. freed(p, q) = [p EXCEPT !.free = n]
    BY DEF freed
  <2>2. n = p.free + q
    BY <1>1, <1>4 DEF Held
  <2> HIDE DEF n
  <2>3. freed(p, q).free = n /\ freed(p, q).total = p.total
    BY <2>1 DEF Pool
  <2> QED
    BY <1>1, <2>2, <2>3 DEF Held
<1> QED
  BY <1>1, <1>2, <1>3, <1>4 DEF Held

\* A new deposit comes out of the free part of its owner's second pool.
LEMMA PaydepositAccounted ==
    ASSUME DepositTables, DepositsAccounted, NEW u \in Users, NEW m \in Miners, NEW q \in Nat,
           paydeposit(u, m, q)
    PROVE  DepositsAccounted'
<1> DEFINE row == [type |-> "new", user |-> u, deposit |-> q, dep_total |-> q]
<1>1. /\ mdep' = [mdep EXCEPT ![m] = row] /\ mdep[m].type = "none" /\ pool1' = pool1
      /\ pool2' = [pool2 EXCEPT ![u] = [pool2[u] EXCEPT !.free = @ - q]]
  BY DEF paydeposit
<1>2. row \in Deposit
  BY DEF Deposit
<1>3. \A v : /\ share(row, v, "old") = 0 /\ share(row, v, "new") = IF v = u THEN q ELSE 0
             /\ share(mdep[m], v, "old") = 0 /\ share(mdep[m], v, "new") = 0
  BY <1>1 DEF share
<1>4. ASSUME NEW v \in Users
      PROVE  /\ Held(pool1[v]) \in Int /\ Held(pool2[v]) \in Int
             /\ Held(pool1'[v]) = Held(pool1[v])
             /\ Held(pool2'[v]) = Held(pool2[v]) + (IF v = u THEN q ELSE 0)
  <2>1. pool2[u] \in Pool /\ pool2[v] \in Pool /\ pool1[v] \in Pool
    BY DEF DepositTables
  <2>2. Held([pool2[u] EXCEPT !.free = @ - q]) = Held(pool2[u]) + q
    BY <2>1, HeldRows
  <2>3. Held(pool1[v]) \in Int /\ Held(pool2[v]) \in Int
    BY <2>1, HeldRows
  <2>4. pool2'[v] = IF v = u THEN [pool2[u] EXCEPT !.free = @ - q] ELSE pool2[v]
    BY <1>1 DEF DepositTables
  <2> QED
    BY <1>1, <2>2, <2>3, <2>4
<1> HIDE DEF row
<1>5. \A v \in Users :
        /\ Held(pool1'[v]) = Held(pool1[v]) + (share(row, v, "old") - share(mdep[m], v, "old"))
        /\ Held(pool2'[v]) = Held(pool2[v]) + (share(row, v, "new") - share(mdep[m], v, "new"))
  BY <1>3, <1>4
<1> QED
  BY <1>1, <1>2, <1>5, AccountedByRow

\* What a deposit covers is not free in its owner's pool.
LEMMA DepositHeld ==
    ASSUME DepositTables, DepositsAccounted, NEW m \in Miners
    PROVE  /\ mdep[m] \in Deposit /\ mdep[m].user \in Users
           /\ mdep[m].deposit \in Nat /\ mdep[m].dep_total \in Nat
           /\ mdep[m].type = "old" => mdep[m].deposit <= Held(pool1[mdep[m].user])
           /\ mdep[m].type = "new" => mdep[m].deposit <= Held(pool2[mdep[m].user])
<1>1. /\ mdep[m] \in Deposit /\ mdep[m].user \in Users
      /\ mdep[m].deposit \in Nat /\ mdep[m].dep_total \in Nat
  BY DEF DepositTables, Deposit
<1> DEFINE u == mdep[m].user
<1>2. /\ Held(pool1[u]) = DepositsOf(u, "old") /\ Held(pool2[u]) = DepositsOf(u, "new")
  BY <1>1 DEF DepositsAccounted, Held
<1>3. /\ share(mdep[m], u, "old") <= DepositsOf(u, "old")
      /\ share(mdep[m], u, "new") <= DepositsOf(u, "new")
  BY DepositsTyped DEF DepositTables
<1>4. /\ mdep[m].type = "old" => share(mdep[m], u, "old") = mdep[m].deposit
      /\ mdep[m].type = "new" => share(mdep[m], u, "new") = mdep[m].deposit
  BY DEF share
<1> QED
  BY <1>1, <1>2, <1>3, <1>4

\* The rows of the two pools after a step that gives one row of each a new value.
LEMMA PoolRowChanged ==
    ASSUME NEW pool \in [Users -> Pool], NEW u \in Users, NEW row, NEW v \in Users
    PROVE  Held([pool EXCEPT ![u] = row][v]) = IF v = u THEN Held(row) ELSE Held(pool[v])
OBVIOUS

\* More for a miner: an old deposit goes back to the first pool and the whole is
\* taken out of the second.
LEMMA IncdepositAccounted ==
    ASSUME DepositTables, DepositsAccounted, NEW m \in Miners, NEW q \in Nat, incdeposit(m, q)
    PROVE  DepositsAccounted'
<1> DEFINE d == mdep[m]
           row == increased(d, q)
           c == charged(m, q)
<1>1. /\ d \in Deposit /\ d.user \in Users /\ d.deposit \in Nat /\ d.dep_total \in Nat
      /\ d.type = "old" => d.deposit <= Held(pool1[d.user])
  BY DepositHeld
<1>2. /\ mdep' = [mdep EXCEPT ![m] = row] /\ d.type # "none"
      /\ pool1' = IF d.type = "old" THEN [pool1 EXCEPT ![d.user] = freed(pool1[d.user], d.deposit)]
                                    ELSE pool1
      /\ pool2' = [pool2 EXCEPT ![d.user] = [pool2[d.user] EXCEPT !.free = @ - c]]
  BY DEF incdeposit
<1>3. /\ row \in Deposit /\ row.type = "new" /\ row.user = d.user /\ row.deposit = d.deposit + q
  <2> DEFINE t == IF d.deposit + q > d.dep_total THEN d.deposit + q ELSE d.dep_total
  <2>1. t \in Nat
    BY <1>1
  <2>2. row = [d EXCEPT !.type = "new", !.deposit = d.deposit + q, !.dep_total = t]
    BY DEF increased
  <2>3. d = [type |-> d.type, user |-> d.user, deposit |-> d.deposit, dep_total |-> d.dep_total]
    BY <1>1 DEF Deposit
  <2> HIDE DEF d, row, t
  <2>4. row = [type |-> "new", user |-> d.user, deposit |-> d.deposit + q, dep_total |-> t]
    BY <2>2, <2>3
  <2> QED
    BY <1>1, <2>1, <2>4 DEF Deposit
<1>4. /\ d.type \in {"old", "new"} /\ c \in Nat
      /\ d.type = "old" => c = d.deposit + q
      /\ d.type = "new" => c = q
  BY <1>1, <1>2 DEF charged, Deposit
<1>5. \A v : /\ share(row, v, "old") = 0
             /\ share(row, v, "new") = IF v = d.user THEN d.deposit + q ELSE 0
             /\ share(d, v, "old") = IF d.type = "old" /\ v = d.user THEN d.deposit ELSE 0
             /\ share(d, v, "new") = IF d.type = "new" /\ v = d.user THEN d.deposit ELSE 0
  BY <1>3 DEF share
<1>6. pool1 \in [Users -> Pool] /\ pool2 \in [Users -> Pool]
  BY DEF DepositTables
<1> HIDE DEF d, row, c
<1>7. /\ Held([pool2[d.user] EXCEPT !.free = @ - c]) = Held(pool2[d.user]) + c
      /\ d.type = "old" => Held(freed(pool1[d.user], d.deposit)) = Held(pool1[d.user]) - d.deposit
      /\ \A v \in Users : Held(pool1[v]) \in Int /\ Held(pool2[v]) \in Int
  BY <1>1, <1>4, <1>6, HeldRows
<1>8. ASSUME NEW v \in Users
      PROVE  /\ Held(pool1'[v]) = Held(pool1[v]) + (share(row, v, "old") - share(d, v, "old"))
             /\ Held(pool2'[v]) = Held(pool2[v]) + (share(row, v, "new") - share(d, v, "new"))
  <2>1. Held(pool2'[v]) = IF v = d.user THEN Held(pool2[d.user]) + c ELSE Held(pool2[v])
    BY <1>1, <1>2, <1>6, <1>7, PoolRowChanged
  <2>2. Held(pool1'[v]) = IF d.type = "old" /\ v = d.user THEN Held(pool1[v]) - d.deposit ELSE Held(pool1[v])
    BY <1>1, <1>2, <1>6, <1>7, PoolRowChanged
  <2>3. CASE d.type = "old"
    BY <1>1, <1>4, <1>5, <1>7, <2>1, <2>2, <2>3
  <2>4. CASE d.type = "new"
    BY <1>1, <1>4, <1>5, <1>7, <2>1, <2>2, <2>4
  <2> QED
    BY <1>4, <2>3, <2>4
<1> QED
  BY <1>2, <1>3, <1>8, AccountedByRow DEF d

\* A miner that is deleted gives its deposit back to the pool it came from.
LEMMA DelminerAccounted ==
    ASSUME DepositTables, DepositsAccounted, NEW m \in Miners, deposit_delminer(m)
    PROVE  DepositsAccounted'
<1> DEFINE d == mdep[m]
<1>1. /\ d \in Deposit /\ d.user \in Users /\ d.deposit \in Nat
      /\ d.type = "old" => d.deposit <= Held(pool1[d.user])
      /\ d.type = "new" => d.deposit <= Held(pool2[d.user])
  BY DepositHeld
<1>2. /\ mdep' = [mdep EXCEPT ![m] = NoDeposit]
      /\ pool1' = IF d.type = "old" THEN [pool1 EXCEPT ![d.user] = freed(pool1[d.user], d.deposit)]
                                    ELSE pool1
      /\ pool2' = IF d.type = "new" THEN [pool2 EXCEPT ![d.user] = freed(pool2[d.user], d.deposit)]
                                    ELSE pool2
  BY DEF deposit_delminer
<1>3. NoDeposit \in Deposit
  BY DepositAssumption DEF NoDeposit, Deposit
<1>4. \A v : /\ share(NoDeposit, v, "old") = 0 /\ share(NoDeposit, v, "new") = 0
             /\ share(d, v, "old") = IF d.type = "old" /\ v = d.user THEN d.deposit ELSE 0
             /\ share(d, v, "new") = IF d.type = "new" /\ v = d.user THEN d.deposit ELSE 0
  BY DEF share, NoDeposit
<1>5. pool1 \in [Users -> Pool] /\ pool2 \in [Users -> Pool]
  BY DEF DepositTables
<1> HIDE DEF d
<1>6. /\ d.type = "old" => Held(freed(pool1[d.user], d.deposit)) = Held(pool1[d.user]) - d.deposit
      /\ d.type = "new" => Held(freed(pool2[d.user], d.deposit)) = Held(pool2[d.user]) - d.deposit
      /\ \A v \in Users : Held(pool1[v]) \in Int /\ Held(pool2[v]) \in Int
  BY <1>1, <1>5, HeldRows
<1>7. ASSUME NEW v \in Users
      PROVE  /\ Held(pool1'[v]) = Held(pool1[v]) + (share(NoDeposit, v, "old") - share(d, v, "old"))
             /\ Held(pool2'[v]) = Held(pool2[v]) + (share(NoDeposit, v, "new") - share(d, v, "new"))
  <2>1. Held(pool1'[v]) = IF d.type = "old" /\ v = d.user THEN Held(pool1[v]) - d.deposit ELSE Held(pool1[v])
    BY <1>1, <1>2, <1>5, <1>6, PoolRowChanged
  <2>2. Held(pool2'[v]) = IF d.type = "new" /\ v = d.user THEN Held(pool2[v]) - d.deposit ELSE Held(pool2[v])
    BY <1>1, <1>2, <1>5, <1>6, PoolRowChanged
  <2> QED
    BY <1>1, <1>4, <1>6, <2>1, <2>2
<1> QED
  BY <1>2, <1>3, <1>7, AccountedByRow DEF d

\* A fine comes out of the deposit and out of the pool that holds it.
LEMMA MforfeitAccounted ==
    ASSUME DepositTables, DepositsAccounted, NEW m \in Miners, NEW q \in Nat, mforfeit(m, q)
    PROVE  DepositsAccounted'
<1> DEFINE d == mdep[m]
           real == IF d.deposit < q THEN d.deposit ELSE q
           row == [d EXCEPT !.deposit = @ - real]
<1>1. d \in Deposit /\ d.user \in Users /\ d.deposit \in Nat /\ real \in Nat /\ real <= d.deposit
  BY DepositHeld
<1>2. /\ mdep' = [mdep EXCEPT ![m] = row] /\ d.type # "none"
      /\ pool1' = IF d.type = "old" THEN [pool1 EXCEPT ![d.user] = forfeited_pool(pool1[d.user], real)]
                                    ELSE pool1
      /\ pool2' = IF d.type = "old" THEN pool2
                                    ELSE [pool2 EXCEPT ![d.user] = forfeited_pool(pool2[d.user], real)]
  BY DEF mforfeit
<1>3. d.type \in {"old", "new"}
  BY <1>1, <1>2 DEF Deposit
<1>4. pool1 \in [Users -> Pool] /\ pool2 \in [Users -> Pool]
  BY DEF DepositTables
<1> HIDE DEF d, real
<1>5. row \in Deposit /\ row.type = d.type /\ row.user = d.user /\ row.deposit = d.deposit - real
  BY <1>1 DEF Deposit
<1> HIDE DEF row
<1>6. \A v, type : /\ share(row, v, type) = IF d.type = type /\ v = d.user THEN d.deposit - real ELSE 0
                   /\ share(d, v, type) = IF d.type = type /\ v = d.user THEN d.deposit ELSE 0
  BY <1>5 DEF share
<1>7. /\ Held(forfeited_pool(pool1[d.user], real)) = Held(pool1[d.user]) - real
      /\ Held(forfeited_pool(pool2[d.user], real)) = Held(pool2[d.user]) - real
      /\ \A v \in Users : Held(pool1[v]) \in Int /\ Held(pool2[v]) \in Int
  BY <1>1, <1>4, HeldRows
<1>8. ASSUME NEW v \in Users
      PROVE  /\ Held(pool1'[v]) = Held(pool1[v]) + (share(row, v, "old") - share(d, v, "old"))
             /\ Held(pool2'[v]) = Held(pool2[v]) + (share(row, v, "new") - share(d, v, "new"))
  <2>1. Held(pool1'[v]) = IF d.type = "old" /\ v = d.user THEN Held(pool1[v]) - real ELSE Held(pool1[v])
    BY <1>1, <1>2, <1>4, <1>7, PoolRowChanged
  <2>2. Held(pool2'[v]) = IF d.type = "new" /\ v = d.user THEN Held(pool2[v]) - real ELSE Held(pool2[v])
    BY <1>1, <1>2, <1>3, <1>4, <1>7, PoolRowChanged
  <2> QED
    BY <1>1, <1>3, <1>6, <1>7, <2>1, <2>2
<1> QED
  BY <1>2, <1>5, <1>8, AccountedByRow DEF d, row

\* The old depositor gets back what is left, the new one pays for the whole.
LEMMA MchgdepaccAccounted ==
    ASSUME DepositTables, DepositsAccounted, NEW m \in Miners, NEW new \in Users, mchgdepacc(m, new)
    PROVE  DepositsAccounted'
<1> DEFINE d == mdep[m]
           row == [type |-> "new", user |-> new, deposit |-> d.dep_total, dep_total |-> d.dep_total]
           back == IF d.type = "new"
                   THEN [pool2 EXCEPT ![d.user] = [pool2[d.user] EXCEPT !.free = @ + d.deposit]]
                   ELSE pool2
<1>1. d \in Deposit /\ d.user \in Users /\ d.deposit \in Nat /\ d.dep_total \in Nat
  BY DepositHeld
<1>2. /\ mdep' = [mdep EXCEPT ![m] = row] /\ d.type # "none" /\ d.user # new
      /\ pool1' = IF d.type = "old"
                  THEN [pool1 EXCEPT ![d.user] = [pool1[d.user] EXCEPT !.free = @ + d.deposit]]
                  ELSE pool1
      /\ pool2' = [back EXCEPT ![new] = [back[new] EXCEPT !.free = @ - d.dep_total]]
  BY DEF mchgdepacc
<1>3. d.type \in {"old", "new"}
  BY <1>1, <1>2 DEF Deposit
<1>4. pool1 \in [Users -> Pool] /\ pool2 \in [Users -> Pool]
  BY DEF DepositTables
<1> HIDE DEF d
<1>5. row \in Deposit
  BY <1>1 DEF Deposit
<1>6. \A v : /\ share(row, v, "old") = 0 /\ share(row, v, "new") = IF v = new THEN d.dep_total ELSE 0
             /\ share(d, v, "old") = IF d.type = "old" /\ v = d.user THEN d.deposit ELSE 0
             /\ share(d, v, "new") = IF d.type = "new" /\ v = d.user THEN d.deposit ELSE 0
  BY DEF share
<1>7. /\ Held([pool1[d.user] EXCEPT !.free = @ + d.deposit]) = Held(pool1[d.user]) - d.deposit
      /\ Held([pool2[d.user] EXCEPT !.free = @ + d.deposit]) = Held(pool2[d.user]) - d.deposit
      /\ Held([pool2[new] EXCEPT !.free = @ - d.dep_total]) = Held(pool2[new]) + d.dep_total
      /\ \A v \in Users : Held(pool1[v]) \in Int /\ Held(pool2[v]) \in Int
  BY <1>1, <1>4, HeldRows
<1>8. /\ back \in [Users -> Pool] /\ back[new] = pool2[new]
      /\ \A v \in Users : Held(back[v]) = IF d.type = "new" /\ v = d.user THEN Held(pool2[v]) - d.deposit
                                                                        ELSE Held(pool2[v])
  <2>1. [pool2[d.user] EXCEPT !.free = @ + d.deposit] \in Pool
    BY <1>1, <1>4 DEF Pool
  <2>2. back \in [Users -> Pool] /\ back[new] = pool2[new]
    BY <1>1, <1>2, <1>4, <2>1
  <2> QED
    BY <1>1, <1>4, <1>7, <2>2, PoolRowChanged
<1> HIDE DEF back, row
<1>9. ASSUME NEW v \in Users
      PROVE  /\ Held(pool1'[v]) = Held(pool1[v]) + (share(row, v, "old") - share(d, v, "old"))
             /\ Held(pool2'[v]) = Held(pool2[v]) + (share(row, v, "new") - share(d, v, "new"))
  <2>1. Held(pool1'[v]) = IF d.type = "old" /\ v = d.user THEN Held(pool1[v]) - d.deposit ELSE Held(pool1[v])
    BY <1>1, <1>2, <1>4, <1>7, PoolRowChanged
  <2>2. Held(pool2'[v]) = IF v = new THEN Held(pool2[new]) + d.dep_total ELSE Held(back[v])
    BY <1>1, <1>2, <1>4, <1>7, <1>8, PoolRowChanged
  <2> QED
    BY <1>1, <1>2, <1>3, <1>6, <1>7, <1>8, <2>1, <2>2
<1> QED
  BY <1>2, <1>5, <1>9, AccountedByRow DEF d

\* The old deposit of DepositInit is the only one, and is not free.
LEMMA InitAccounted == DepositInit => DepositsAccounted
<1> SUFFICES ASSUME DepositInit PROVE DepositsAccounted
  OBVIOUS
<1>1. DepositTables
  BY InitEstablishes DEF DepositInv, DepositTypeOK, DepositTables
<1> SUFFICES ASSUME NEW u \in Users
             PROVE  /\ pool1[u].total - pool1[u].free = DepositsOf(u, "old")
                    /\ pool2[u].total - pool2[u].free = DepositsOf(u, "new")
  BY DEF DepositsAccounted
<1>2. /\ pool1[u].total - pool1[u].free = IF u = OldUser THEN OldDeposit ELSE 0
      /\ pool2[u].total - pool2[u].free = 0
  BY DepositAssumption DEF DepositInit, EmptyPool, added
<1> DEFINE f(type) == [m \in Miners |-> share(mdep[m], u, type)]
           zero == [m \in Miners |-> 0]
<1>3. /\ DepositsOf(u, "old") = SumFunctionOnSet(f("old"), Miners)
      /\ DepositsOf(u, "new") = SumFunctionOnSet(f("new"), Miners)
  BY DEF DepositsOf, SumFunction
<1>4. /\ \A m \in Miners : f("new")[m] = 0
      /\ \A m \in Miners : m # OldMiner => f("old")[m] = 0
      /\ f("old")[OldMiner] = IF u = OldUser THEN OldDeposit ELSE 0
  BY DepositAssumption DEF DepositInit, NoDeposit, share
<1>5. /\ IntOn(f("old"), Miners) /\ IntOn(zero, Miners) /\ \A m \in Miners : zero[m] = 0
  BY DepositAssumption, <1>4 DEF IntOn
<1> HIDE DEF f, zero
<1>6. SumFunctionOnSet(f("new"), Miners) = 0 /\ SumFunctionOnSet(zero, Miners) = 0
  BY <1>4, <1>5, SumZero, DepositAssumption
<1>7. SumFunctionOnSet(f("old"), Miners)
        = SumFunctionOnSet(zero, Miners) + (f("old")[OldMiner] - zero[OldMiner])
  BY <1>4, <1>5, SumUpdate, DepositAssumption
<1>8. OldDeposit \in Nat /\ OldMiner \in Miners
  BY DepositAssumption
<1> QED
  BY <1>2, <1>3, <1>4, <1>5, <1>6, <1>7, <1>8

\* Paying into a pool and taking out of it moves its total and its free part alike.
LEMMA PoolsAccounted ==
    ASSUME DepositTables, DepositsAccounted, NEW u \in Users, NEW q \in Nat,
           paydeppool(u, q) \/ unpaydeppool(u, q) \/ paydeppool2(u, q) \/ undeppool2(u, q)
    PROVE  DepositsAccounted'
<1>1. /\ mdep' = mdep
      /\ \/ pool1' = pool1
         \/ pool1' = [pool1 EXCEPT ![u] = added(pool1[u], q)]
         \/ pool1' = [pool1 EXCEPT ![u] = removed(pool1[u], q)]
      /\ \/ pool2' = pool2
         \/ pool2' = [pool2 EXCEPT ![u] = added(pool2[u], q)]
         \/ pool2' = [pool2 EXCEPT ![u] = removed(pool2[u], q)]
  BY DEF paydeppool, unpaydeppool, paydeppool2, undeppool2
<1>2. \A pool \in {pool1, pool2} : /\ pool \in [Users -> Pool]
                                   /\ Held(added(pool[u], q)) = Held(pool[u])
                                   /\ Held(removed(pool[u], q)) = Held(pool[u])
  BY HeldRows DEF DepositTables
<1>3. ASSUME NEW v \in Users
      PROVE  Held(pool1'[v]) = Held(pool1[v]) /\ Held(pool2'[v]) = Held(pool2[v])
  BY <1>1, <1>2, PoolRowChanged
<1> QED
  BY <1>1, <1>3, AccountedSame

\* Every step keeps the pools and the deposits in step.
LEMMA StepAccounted ==
    ASSUME DepositTables, DepositsAccounted, AnyStep
    PROVE  DepositsAccounted'
<1>1. Amounts \subseteq Nat /\ Fines \subseteq Nat
  BY DepositAssumption
<1>2. ASSUME mdep' = mdep, pool1' = pool1, pool2' = pool2
      PROVE  DepositsAccounted'
  BY <1>2, AccountedSame
<1>3. ASSUME AccountNext
      PROVE  DepositsAccounted'
  <2>1. ASSUME NEW u \in Users, NEW q \in Amounts,
               paydeppool(u, q) \/ unpaydeppool(u, q) \/ paydeppool2(u, q) \/ undeppool2(u, q)
        PROVE  DepositsAccounted'
    BY <1>1, <2>1, PoolsAccounted
  <2>2. ASSUME NEW m \in Miners, NEW q \in Fines, mforfeit(m, q)
        PROVE  DepositsAccounted'
    BY <1>1, <2>2, MforfeitAccounted
  <2>3. ASSUME NEW m \in Miners, NEW u \in Users, mchgdepacc(m, u)
        PROVE  DepositsAccounted'
    BY <2>3, MchgdepaccAccounted
  <2>4. ASSUME \/ \E f, t, q : transfer(f, t, q) \/ depstore(f) \/ undepstore(f) \/ issue(q)
               \/ \E r, f, t, q, a : locktransfer(r, f, t, q, a)
               \/ \E u, t : frozenuser(u, t) \/ setrate(u)
               \/ \E u, q, g : channel_fee(u, q) \/ feetoc(u, q) \/ rewardnode(u, q) \/ mapc(u, q, g)
               \/ \E s : splitgas(s)
               \/ Tick
        PROVE  mdep' = mdep /\ pool1' = pool1 /\ pool2' = pool2
    BY <2>4 DEF transfer, depstore, undepstore, issue, locktransfer, frozenuser, setrate, channel_fee,
       feetoc, rewardnode, mapc, splitgas, Tick, depositVars
  <2> QED
    BY <1>2, <1>3, <2>1, <2>2, <2>3, <2>4 DEF AccountNext
<1>4. ASSUME AnyCalls
      PROVE  DepositsAccounted'
  <2>1. ASSUME NEW u \in Users, NEW q \in Nat, NEW g \in Nat, channellog(u, q, g)
        PROVE  DepositsAccounted'
    BY <1>2, <2>1 DEF channellog, depositVars
  <2>2. ASSUME NEW u \in Users, NEW q \in Nat, transfer(u, "hddpoolexchg", q)
        PROVE  DepositsAccounted'
    BY <1>2, <2>2 DEF transfer, depositVars
  <2> QED
    BY <1>4, <2>1, <2>2, PaydepositAccounted, IncdepositAccounted, DelminerAccounted DEF AnyCalls
<1> QED
  BY <1>3, <1>4 DEF AnyStep

\* For every set of users and miners: what is not free in a pool is exactly what
\* its owner's miners have deposited in it.
THEOREM DepositsAlwaysAccounted == DepositSpec => []DepositsAccounted
<1> DEFINE Inv == DepositInv /\ DepositsAccounted
<1>1. DepositInit => Inv
  BY InitEstablishes, InitAccounted
<1>2. Inv /\ [DepositNext]_allDeposit => Inv'
  <2> SUFFICES ASSUME Inv, [DepositNext]_allDeposit PROVE Inv'
    OBVIOUS
  <2>1. DepositInv'
    BY StepPreserves, NextIsAnyStep
  <2>2. DepositTables
    BY DEF DepositInv, DepositTypeOK, DepositTables
  <2>3. CASE DepositNext
    BY <2>1, <2>2, <2>3, StepAccounted, NextIsAnyStep
  <2>4. CASE UNCHANGED allDeposit
    BY <2>1, <2>4, AccountedSame DEF allDeposit
  <2> QED
    BY <2>3, <2>4
<1>3. Inv => DepositsAccounted
  OBVIOUS
<1> QED
  BY <1>1, <1>2, <1>3, PTL DEF DepositSpec

-----------------------------------------------------------------------------
(* The balances of the channel add up to its tokens: each operation is a     *)
(* sequence of changes to single balances, and each change is one term of a  *)
(* sum.                                                                      *)

Claims(c)  == SumFunction(c[1]) + SumFunction(c[2])
ClaimTable == [1..2 -> [Holders -> Int]]

\* There are finitely many balances.
LEMMA HoldersFinite == IsFiniteSet(Holders) /\ Users \subseteq Holders
<1>1. IsFiniteSet({"gas.sys"} \cup {"node.sys"} \cup {"null.sys"})
  BY FS_Singleton, FS_Union
<1>2. Holders = Users \cup ({"gas.sys"} \cup {"node.sys"} \cup {"null.sys"})
  BY DEF Holders
<1> QED
  BY <1>1, <1>2, FS_Union, DepositAssumption

\* Claims add up to a number, and no claims to none.
LEMMA ClaimsTyped ==
    ASSUME NEW c \in ClaimTable
    PROVE  /\ Claims(c) \in Int
           /\ (\A i \in 1..2, h \in Holders : c[i][h] = 0) => Claims(c) = 0
<1>1. ASSUME NEW i \in 1..2
      PROVE  /\ SumFunction(c[i]) \in Int
             /\ (\A h \in Holders : c[i][h] = 0) => SumFunction(c[i]) = 0
  <2> DEFINE r == c[i]
  <2>1. r \in [Holders -> Int] /\ DOMAIN r = Holders
    BY DEF ClaimTable
  <2> HIDE DEF r
  <2>2. SumFunction(r) = SumFunctionOnSet(r, Holders)
    BY <2>1 DEF SumFunction
  <2>3. SumFunctionOnSet(r, Holders) \in Int
    BY <2>1, SumSame, HoldersFinite DEF IntOn
  <2>4. (\A h \in Holders : r[h] = 0) => SumFunctionOnSet(r, Holders) = 0
    BY SumZero, HoldersFinite
  <2> QED
    BY <2>2, <2>3, <2>4 DEF r
<1> QED
  BY <1>1 DEF Claims

\* One balance changes.
LEMMA ClaimChanged ==
    ASSUME NEW c \in ClaimTable, NEW i \in 1..2, NEW h \in Holders, NEW v \in Int
    PROVE  /\ [c EXCEPT ![i][h] = v] \in ClaimTable
           /\ Claims([c EXCEPT ![i][h] = v]) = Claims(c) + (v - c[i][h])
<1> DEFINE r == c[i]
           s == [r EXCEPT ![h] = v]
           k == [c EXCEPT ![i][h] = v]
           j == 3 - i
<1>1. /\ r \in [Holders -> Int] /\ s \in [Holders -> Int]
      /\ DOMAIN r = Holders /\ DOMAIN s = Holders
      /\ \A x \in Holders : x # h => s[x] = r[x]
      /\ s[h] = v
  BY DEF ClaimTable
<1>2. k \in ClaimTable /\ k[i] = s /\ j \in 1..2 /\ k[j] = c[j] /\ {i, j} = {1, 2}
  BY <1>1 DEF ClaimTable
<1>3. /\ SumFunctionOnSet(s, Holders) = SumFunctionOnSet(r, Holders) + (s[h] - r[h])
      /\ SumFunctionOnSet(r, Holders) \in Int
  <2> HIDE DEF r, s
  <2>1. IntOn(r, Holders) /\ IntOn(s, Holders)
    BY <1>1 DEF IntOn
  <2> QED
    BY <1>1, <2>1, SumUpdate, SumSame, HoldersFinite
<1>4. SumFunction(k[i]) = SumFunction(c[i]) + (v - c[i][h]) /\ SumFunction(c[i]) \in Int
  BY <1>1, <1>2, <1>3 DEF SumFunction
<1>5. SumFunction(k[j]) = SumFunction(c[j]) /\ SumFunction(c[j]) \in Int
  <2>1. c[j] \in [Holders -> Int] /\ DOMAIN c[j] = Holders
    BY <1>2 DEF ClaimTable
  <2>2. IntOn(c[j], Holders)
    BY <2>1 DEF IntOn
  <2>3. SumFunctionOnSet(c[j], Holders) \in Int
    BY <2>2, SumSame, HoldersFinite
  <2> QED
    BY <1>2, <2>1, <2>3 DEF SumFunction
<1>6. c[i][h] \in Int
  BY DEF ClaimTable
<1> HIDE DEF k, r, s, j
<1>7. Claims(k) = SumFunction(k[i]) + SumFunction(k[j]) /\ Claims(c) = SumFunction(c[i]) + SumFunction(c[j])
  <2>1. SumFunction(k[i]) \in Int /\ SumFunction(k[j]) \in Int
    BY <1>4, <1>5, <1>6
  <2>2. CASE i = 1
    BY <1>2, <2>2 DEF Claims, j
  <2>3. CASE i = 2
    BY <1>2, <1>4, <1>5, <2>1, <2>3 DEF Claims, j
  <2> QED
    BY <2>2, <2>3
<1>8. Claims(k) = Claims(c) + (v - c[i][h])
  BY <1>4, <1>5, <1>6, <1>7
<1> QED
  BY <1>2, <1>8 DEF k

\* A step that changes the tokens of channel.sys by as much as the claims on them.
LEMMA BackedByChange ==
    ASSUME DepositTypeOK, ChannelBacked, NEW n \in Int,
           balance'["channel.sys"] = balance["channel.sys"] + n,
           Claims(channel') = Claims(channel) + n
    PROVE  ChannelBacked'
<1>1. balance["channel.sys"] = Claims(channel)
  BY DEF ChannelBacked, Claims
<1>2. balance'["channel.sys"] = Claims(channel')
  BY <1>1
<1> QED
  BY <1>2 DEF ChannelBacked, Claims

\* The tokens of channel.sys in a transfer.
LEMMA ChannelTokens ==
    ASSUME DepositTypeOK, NEW from \in Accounts, NEW to \in Accounts, NEW q \in Nat, from # to,
           balance' = moved(from, to, q)
    PROVE  LET n == IF from = "channel.sys" THEN 0 - q ELSE IF to = "channel.sys" THEN q ELSE 0
           IN  n \in Int /\ balance'["channel.sys"] = balance["channel.sys"] + n
<1>1. balance \in [Accounts -> Nat] /\ "channel.sys" \in Accounts
  BY UsersAreAccounts DEF DepositTypeOK, SystemAccounts
<1>2. balance'["channel.sys"] = IF from = "channel.sys" THEN balance["channel.sys"] - q
                                ELSE IF to = "channel.sys" THEN balance["channel.sys"] + q
                                ELSE balance["channel.sys"]
  BY <1>1 DEF moved
<1>3. balance["channel.sys"] \in Nat
  BY <1>1
<1> QED
  BY <1>2, <1>3

\* Claims that come with tokens, and claims that go with them.
LEMMA ChannelMoves ==
    ASSUME DepositTypeOK, ChannelBacked, NEW u \in Users, NEW q \in Nat, NEW g \in Nat,
           undeppool2(u, q) \/ channel_fee(u, q) \/ channellog(u, q, g) \/ mapc(u, q, g)
    PROVE  ChannelBacked'
<1>0. /\ channel \in ClaimTable /\ u \in Holders /\ "gas.sys" \in Holders /\ u # "gas.sys"
      /\ {u, "ytapro.map", "fund.sys", "channel.sys"} \subseteq Accounts /\ u # "channel.sys"
      /\ \A i \in 1..2, h \in Holders : channel[i][h] \in Int
      /\ 1 \in 1..2 /\ 2 \in 1..2
  BY UsersAreAccounts, HoldersFinite, DepositAssumption
     DEF DepositTypeOK, ClaimTable, SystemAccounts, Holders
<1>1. Claims(channel) \in Int
  BY <1>0, ClaimsTyped
<1>2. CASE undeppool2(u, q)
  <2>1. balance'["channel.sys"] = balance["channel.sys"] + q
    BY <1>0, <1>2, ChannelTokens DEF undeppool2
  <2>2. PICK v \in Int : v = channel[1][u] + q
    BY <1>0
  <2>3. channel' = [channel EXCEPT ![1][u] = v]
    BY <1>2, <2>2 DEF undeppool2
  <2>4. Claims(channel') = Claims(channel) + (v - channel[1][u])
    BY <1>0, <2>3, ClaimChanged
  <2>5. Claims(channel') = Claims(channel) + q
    BY <1>0, <1>1, <2>2, <2>4
  <2> QED
    BY <2>1, <2>5, BackedByChange
<1>3. CASE channel_fee(u, q)
  <2>1. balance'["channel.sys"] = balance["channel.sys"] + q
    BY <1>0, <1>3, ChannelTokens DEF channel_fee
  <2>2. PICK v \in Int : v = channel[2][u] + q
    BY <1>0
  <2>3. channel' = [channel EXCEPT ![2][u] = v]
    BY <1>3, <2>2 DEF channel_fee
  <2>4. Claims(channel') = Claims(channel) + (v - channel[2][u])
    BY <1>0, <2>3, ClaimChanged
  <2>5. Claims(channel') = Claims(channel) + q
    BY <1>0, <1>1, <2>2, <2>4
  <2> QED
    BY <2>1, <2>5, BackedByChange
<1>4. CASE mapc(u, q, g)
  <2>1. PICK n \in Nat : n = q + g
    OBVIOUS
  <2>2. balance'["channel.sys"] = balance["channel.sys"] + (0 - n)
    BY <1>0, <1>4, <2>1, ChannelTokens DEF mapc
  <2>3. PICK v \in Int : v = channel[1][u] - n
    BY <1>0
  <2>4. channel' = [channel EXCEPT ![1][u] = v]
    BY <1>4, <2>1, <2>3 DEF mapc
  <2>5. Claims(channel') = Claims(channel) + (v - channel[1][u])
    BY <1>0, <2>4, ClaimChanged
  <2>6. Claims(channel') = Claims(channel) + (0 - n) /\ 0 - n \in Int
    BY <1>0, <1>1, <2>3, <2>5
  <2> QED
    BY <2>2, <2>6, BackedByChange
<1>5. CASE channellog(u, q, g)
  <2>1. balance'["channel.sys"] = balance["channel.sys"] + q
    BY <1>0, <1>5, ChannelTokens DEF channellog
  <2> DEFINE c1 == [channel EXCEPT ![2][u] = channel[2][u] - g]
             c2 == [c1 EXCEPT ![1]["gas.sys"] = c1[1]["gas.sys"] + g]
             c3 == [c2 EXCEPT ![1][u] = c2[1][u] + q]
  <2>2. channel' = c3
    BY <1>0, <1>5 DEF channellog, ClaimTable
  <2>3. c1 \in ClaimTable /\ Claims(c1) = Claims(channel) + ((channel[2][u] - g) - channel[2][u])
    <3>1. channel[2][u] - g \in Int
      BY <1>0
    <3> QED
      BY <1>0, <3>1, ClaimChanged
  <2> HIDE DEF c1
  <2>4. c1[1]["gas.sys"] \in Int /\ c1[1]["gas.sys"] + g \in Int
    BY <1>0, <2>3 DEF ClaimTable
  <2>5. c2 \in ClaimTable /\ Claims(c2) = Claims(c1) + ((c1[1]["gas.sys"] + g) - c1[1]["gas.sys"])
    BY <1>0, <2>3, <2>4, ClaimChanged
  <2> HIDE DEF c2
  <2>6. c2[1][u] \in Int /\ c2[1][u] + q \in Int
    BY <1>0, <2>5 DEF ClaimTable
  <2>7. Claims(c3) = Claims(c2) + ((c2[1][u] + q) - c2[1][u])
    BY <1>0, <2>5, <2>6, ClaimChanged
  <2> HIDE DEF c3
  <2>8. Claims(channel') = Claims(channel) + q
    <3>1. channel[2][u] \in Int
      BY <1>0
    <3>2. Claims(c1) = Claims(channel) - g
      BY <1>1, <2>3, <3>1
    <3>3. Claims(c2) = Claims(c1) + g
      BY <1>1, <2>4, <2>5, <3>2
    <3>4. Claims(c3) = Claims(c2) + q
      BY <1>1, <2>6, <2>7, <3>2, <3>3
    <3> QED
      BY <1>1, <2>2, <3>2, <3>3, <3>4
  <2> QED
    BY <2>1, <2>8, BackedByChange
<1> QED
  BY <1>2, <1>3, <1>4, <1>5

\* Claims that change hands.
LEMMA ClaimsMove ==
    ASSUME DepositTypeOK, ChannelBacked,
           \/ \E u \in Users, q \in Nat : feetoc(u, q) \/ rewardnode(u, q)
           \/ \E x \in SplitRates : splitgas(x)
    PROVE  ChannelBacked'
<1>0. /\ channel \in ClaimTable /\ Users \subseteq Holders
      /\ {"gas.sys", "node.sys", "null.sys"} \subseteq Holders
      /\ \A i \in 1..2, h \in Holders : channel[i][h] \in Nat
      /\ 1 \in 1..2 /\ 2 \in 1..2 /\ balance["channel.sys"] \in Nat
  BY UsersAreAccounts, HoldersFinite DEF DepositTypeOK, ClaimTable, Holders, SystemAccounts
<1>u. \A u \in Users : u # "node.sys"
  BY DepositAssumption
<1>1. Claims(channel) \in Int
  BY <1>0, ClaimsTyped
<1>2. balance'["channel.sys"] = balance["channel.sys"] + 0
  <2>1. balance' = balance
    BY DEF feetoc, rewardnode, splitgas, tokenVars
  <2> QED
    BY <1>0, <2>1
<1>3. ASSUME NEW i \in 1..2, NEW h \in Holders, NEW k \in Holders, NEW q \in Nat,
             i = 2 \/ h # k, channel' = [channel EXCEPT ![i][h] = @ - q, ![1][k] = @ + q]
      PROVE  ChannelBacked'
  <2> DEFINE c1 == [channel EXCEPT ![i][h] = channel[i][h] - q]
             c2 == [c1 EXCEPT ![1][k] = channel[1][k] + q]
  <2>1. channel' = c2 /\ c1[1][k] = channel[1][k]
    <3>1. channel' = c2
      BY <1>3
    <3>2. c1[1][k] = channel[1][k]
      BY <1>0, <1>3 DEF ClaimTable
    <3> QED
      BY <3>1, <3>2
  <2>2. channel[i][h] \in Int /\ channel[i][h] - q \in Int
    BY <1>0
  <2>3. c1 \in ClaimTable /\ Claims(c1) = Claims(channel) + ((channel[i][h] - q) - channel[i][h])
    BY <1>0, <2>2, ClaimChanged
  <2> HIDE DEF c1
  <2>4. channel[1][k] \in Int /\ channel[1][k] + q \in Int
    BY <1>0
  <2>5. Claims(c2) = Claims(c1) + ((channel[1][k] + q) - channel[1][k])
    <3>1. PICK v \in Int : v = channel[1][k] + q
      BY <2>4
    <3>2. [c1 EXCEPT ![1][k] = v] = c2
      BY <3>1
    <3>3. Claims([c1 EXCEPT ![1][k] = v]) = Claims(c1) + (v - c1[1][k])
      BY <1>0, <2>3, ClaimChanged
    <3> QED
      BY <2>1, <3>1, <3>2, <3>3
  <2> HIDE DEF c2
  <2>6. Claims(c1) = Claims(channel) - q
    BY <1>1, <2>2, <2>3
  <2>7. Claims(c2) = Claims(c1) + q
    BY <1>1, <2>4, <2>5, <2>6
  <2>8. Claims(channel') = Claims(channel) + 0
    BY <1>1, <2>1, <2>6, <2>7
  <2> QED
    BY <1>2, <2>8, BackedByChange
<1>4. ASSUME NEW u \in Users, NEW q \in Nat, feetoc(u, q)
      PROVE  ChannelBacked'
  BY <1>0, <1>3, <1>4 DEF feetoc
<1>5. ASSUME NEW u \in Users, NEW q \in Nat, rewardnode(u, q)
      PROVE  ChannelBacked'
  <2>1. channel' = [channel EXCEPT ![1]["node.sys"] = @ - q, ![1][u] = @ + q]
    BY <1>5 DEF rewardnode
  <2>2. "node.sys" \in Holders /\ u \in Holders /\ "node.sys" # u /\ 1 \in 1..2
    BY <1>0, <1>u
  <2> QED
    BY <1>3, <2>1, <2>2
<1>6. ASSUME NEW x \in SplitRates, splitgas(x)
      PROVE  ChannelBacked'
  <2> DEFINE a == channel[1]["gas.sys"]
             n == (a * x) \div 100
             c1 == [channel EXCEPT ![1]["gas.sys"] = 0]
             c2 == [c1 EXCEPT ![1]["node.sys"] = channel[1]["node.sys"] + n]
             c3 == [c2 EXCEPT ![1]["null.sys"] = channel[1]["null.sys"] + (a - n)]
  <2>1. channel' = c3
    BY <1>6 DEF splitgas, null_share
  <2>c. c1[1]["node.sys"] = channel[1]["node.sys"] /\ c2[1]["null.sys"] = channel[1]["null.sys"]
    BY <1>0 DEF ClaimTable
  <2>2. a \in Nat /\ n \in Int
    <3>1. a \in Nat
      BY <1>0
    <3>2. x \in 0..100
      BY DepositAssumption
    <3> QED
      BY <3>1, <3>2, ShareBounds
  <2>3. c1 \in ClaimTable /\ Claims(c1) = Claims(channel) + (0 - a)
    <3>1. channel \in ClaimTable /\ 1 \in 1..2 /\ "gas.sys" \in Holders /\ 0 \in Int
      BY <1>0
    <3> QED
      BY <3>1, ClaimChanged
  <2> HIDE DEF a, n, c1
  <2>4. channel[1]["node.sys"] \in Int /\ channel[1]["node.sys"] + n \in Int
    BY <1>0, <2>2
  <2>5. c2 \in ClaimTable /\ Claims(c2) = Claims(c1) + ((channel[1]["node.sys"] + n) - channel[1]["node.sys"])
    BY <1>0, <2>3, <2>4, <2>c, ClaimChanged
  <2> HIDE DEF c2
  <2>6. channel[1]["null.sys"] \in Int /\ channel[1]["null.sys"] + (a - n) \in Int
    BY <1>0, <2>2
  <2>7. Claims(c3) = Claims(c2) + ((channel[1]["null.sys"] + (a - n)) - channel[1]["null.sys"])
    BY <1>0, <2>5, <2>6, <2>c, ClaimChanged
  <2> HIDE DEF c3
  <2>8. Claims(c1) = Claims(channel) - a /\ Claims(c2) = (Claims(channel) - a) + n
    BY <1>1, <2>2, <2>3, <2>4, <2>5
  <2>9. Claims(c3) = Claims(c2) + (a - n)
    BY <1>1, <2>2, <2>6, <2>7, <2>8
  <2>10. Claims(channel') = Claims(channel) + 0
    BY <1>1, <2>1, <2>2, <2>8, <2>9
  <2> QED
    BY <1>2, <2>10, BackedByChange
<1> QED
  BY <1>4, <1>5, <1>6

\* Other steps leave the channel and its tokens alone.
LEMMA ChannelQuiet ==
    ASSUME DepositTypeOK, ChannelBacked, channel' = channel,
           \/ balance' = balance
           \/ \E f \in Accounts, t \in Accounts, q \in Nat :
                f # t /\ f # "channel.sys" /\ t # "channel.sys" /\ balance' = moved(f, t, q)
    PROVE  ChannelBacked'
<1>1. balance'["channel.sys"] = balance["channel.sys"]
  <2>1. balance["channel.sys"] \in Nat
    BY UsersAreAccounts DEF DepositTypeOK, SystemAccounts
  <2>2. ASSUME NEW f \in Accounts, NEW t \in Accounts, NEW q \in Nat,
               f # t, f # "channel.sys", t # "channel.sys", balance' = moved(f, t, q)
        PROVE  balance'["channel.sys"] = balance["channel.sys"]
    BY <2>1, <2>2, ChannelTokens
  <2> QED
    BY <2>2
<1> QED
  BY <1>1 DEF ChannelBacked

\* Every step keeps the balances and the tokens of the channel in step.
LEMMA StepChannel ==
    ASSUME DepositTypeOK, ChannelBacked, AnyStep
    PROVE  ChannelBacked'
<1>1. /\ Amounts \subseteq Nat /\ Fines \subseteq Nat /\ StoreFee \in Nat
      /\ \A u \in Users : u \in Accounts /\ u # "channel.sys"
      /\ {"eosio.stake", "forfeit.sys", "yottaforfeit", "pool.sys", "ytapro.map", "channel.sys",
          "fund.sys", "hddpoolexchg"} \subseteq Accounts
  BY DepositAssumption, UsersAreAccounts DEF SystemAccounts
<1>2. ASSUME \/ \E u \in Users, q \in Amounts :
                  undeppool2(u, q) \/ channel_fee(u, q) \/ feetoc(u, q) \/ rewardnode(u, q)
             \/ \E u \in Users, q, g \in Nat : mapc(u, q, g) \/ channellog(u, q, g)
             \/ \E s \in SplitRates : splitgas(s)
      PROVE  ChannelBacked'
  <2>1. ASSUME NEW u \in Users, NEW q \in Amounts, undeppool2(u, q) \/ channel_fee(u, q)
        PROVE  ChannelBacked'
    BY <1>1, <2>1, ChannelMoves
  <2>2. ASSUME NEW u \in Users, NEW q \in Nat, NEW g \in Nat, mapc(u, q, g) \/ channellog(u, q, g)
        PROVE  ChannelBacked'
    BY <1>1, <2>2, ChannelMoves
  <2>3. ASSUME NEW u \in Users, NEW q \in Amounts, feetoc(u, q) \/ rewardnode(u, q)
        PROVE  ChannelBacked'
    BY <1>1, <2>3, ClaimsMove
  <2>4. ASSUME NEW s \in SplitRates, splitgas(s)
        PROVE  ChannelBacked'
    BY <2>4, ClaimsMove
  <2> QED
    BY <1>2, <2>1, <2>2, <2>3, <2>4
<1>3. ASSUME \/ \E r \in Rates \ {rate} : setrate(r)
             \/ \E u \in Users, t \in Deadlines : frozenuser(u, t)
             \/ \E u \in Users, q \in Amounts : paydeppool(u, q) \/ unpaydeppool(u, q)
             \/ \E m \in Miners, u \in Users : mchgdepacc(m, u)
             \/ Tick
             \/ \E u \in Users, m \in Miners, q \in Nat : paydeposit(u, m, q)
             \/ \E m \in Miners, q \in Nat : incdeposit(m, q)
             \/ \E m \in Miners : deposit_delminer(m)
      PROVE  ChannelBacked'
  <2>1. channel' = channel /\ balance' = balance
    BY <1>3 DEF setrate, frozenuser, paydeppool, unpaydeppool, mchgdepacc, Tick, paydeposit, incdeposit,
       deposit_delminer, tokenVars
  <2> QED
    BY <2>1, ChannelQuiet
<1>4. ASSUME NEW f \in Users \cup {"eosio.stake"}, NEW t \in Users \cup {"eosio.stake", "forfeit.sys"},
             NEW q \in Amounts, transfer(f, t, q)
      PROVE  ChannelBacked'
  <2>1. channel' = channel /\ balance' = moved(f, t, q) /\ f # t
    BY <1>4 DEF transfer, can_transfer, can_transfer_with
  <2> QED
    BY <1>1, <2>1, ChannelQuiet
<1>5. ASSUME NEW q \in Amounts, issue(q)
      PROVE  ChannelBacked'
  <2>1. balance'["channel.sys"] = balance["channel.sys"] /\ channel' = channel
    BY <1>1, <1>5 DEF issue, DepositTypeOK
  <2> QED
    BY <2>1 DEF ChannelBacked
<1>6. ASSUME NEW r \in Rules, NEW f \in Users, NEW t \in Users, NEW q \in Amounts,
             NEW a \in Amounts \cup {0}, locktransfer(r, f, t, q, a)
      PROVE  ChannelBacked'
  <2>1. channel' = channel /\ (balance' = balance \/ (balance' = moved(f, t, a) /\ f # t))
    BY <1>6 DEF locktransfer, can_transfer, can_transfer_with
  <2>2. a \in Nat
    BY <1>1
  <2> QED
    BY <1>1, <2>1, <2>2, ChannelQuiet
<1>7. ASSUME NEW u \in Users, depstore(u) \/ undepstore(u)
      PROVE  ChannelBacked'
  <2>1. /\ channel' = channel /\ u # "pool.sys"
        /\ balance' = moved(u, "pool.sys", StoreFee) \/ balance' = moved("pool.sys", u, StoreFee)
    BY <1>7 DEF depstore, undepstore, can_transfer, can_transfer_with
  <2> QED
    BY <1>1, <2>1, ChannelQuiet
<1>8. ASSUME NEW u \in Users, NEW q \in Amounts, paydeppool2(u, q)
      PROVE  ChannelBacked'
  <2>1. channel' = channel /\ balance' = moved("ytapro.map", u, q)
    BY <1>8 DEF paydeppool2
  <2>2. u # "ytapro.map"
    BY UsersAreAccounts DEF SystemAccounts
  <2> QED
    BY <1>1, <2>1, <2>2, ChannelQuiet
<1>9. ASSUME NEW m \in Miners, NEW q \in Fines, mforfeit(m, q)
      PROVE  ChannelBacked'
  <2> DEFINE d    == mdep[m]
             real == IF d.deposit < q THEN d.deposit ELSE q
             to   == IF d.type = "old" THEN "yottaforfeit" ELSE "forfeit.sys"
  <2>1. channel' = channel /\ balance' = moved(d.user, to, real) /\ d.user # to
    BY <1>9 DEF mforfeit, can_transfer, can_transfer_with
  <2>2. d.user \in Users /\ real \in Nat
    BY <1>1 DEF DepositTypeOK, Deposit
  <2>3. to \in Accounts /\ to # "channel.sys"
    BY <1>1
  <2> HIDE DEF d, real, to
  <2> QED
    BY <1>1, <2>1, <2>2, <2>3, ChannelQuiet
<1>10. ASSUME AccountNext
       PROVE  ChannelBacked'
  BY <1>1, <1>2, <1>3, <1>4, <1>5, <1>6, <1>7, <1>8, <1>9, <1>10 DEF AccountNext
<1>f. ASSUME NEW u \in Users, NEW q \in Nat, transfer(u, "hddpoolexchg", q)
      PROVE  ChannelBacked'
  <2>1. channel' = channel /\ balance' = moved(u, "hddpoolexchg", q) /\ u # "hddpoolexchg"
    BY <1>f DEF transfer, can_transfer, can_transfer_with
  <2> QED
    BY <1>1, <2>1, ChannelQuiet
<1>11. ASSUME AnyCalls
       PROVE  ChannelBacked'
  BY <1>2, <1>3, <1>f, <1>11 DEF AnyCalls
<1> QED
  BY <1>10, <1>11 DEF AnyStep

\* At the start nobody has a claim and channel.sys no tokens.
LEMMA InitChannel == DepositInit => ChannelBacked
<1> SUFFICES ASSUME DepositInit PROVE ChannelBacked
  OBVIOUS
<1>1. channel \in ClaimTable /\ \A i \in 1..2, h \in Holders : channel[i][h] = 0
  BY DEF DepositInit, ClaimTable
<1>2. Claims(channel) = 0
  BY <1>1, ClaimsTyped
<1>3. balance["channel.sys"] = 0
  BY UsersAreAccounts DEF DepositInit, SystemAccounts
<1> QED
  BY <1>2, <1>3 DEF ChannelBacked, Claims

\* The channel can honour all claims, for every set of users and every sequence
\* of transfers, fees, splits and rewards: no rounding loses or creates a token.
THEOREM ChannelAlwaysBacked == DepositSpec => []ChannelBacked
<1> DEFINE Inv == DepositInv /\ ChannelBacked
<1>1. DepositInit => Inv
  BY InitEstablishes, InitChannel
<1>2. Inv /\ [DepositNext]_allDeposit => Inv'
  <2> SUFFICES ASSUME Inv, [DepositNext]_allDeposit PROVE Inv'
    OBVIOUS
  <2>1. DepositInv'
    BY StepPreserves, NextIsAnyStep
  <2>2. DepositTypeOK
    BY DEF DepositInv
  <2>3. CASE DepositNext
    BY <2>1, <2>2, <2>3, StepChannel, NextIsAnyStep
  <2>4. CASE UNCHANGED allDeposit
    BY <2>1, <2>4 DEF allDeposit, ChannelBacked
  <2> QED
    BY <2>3, <2>4
<1>3. Inv => ChannelBacked
  OBVIOUS
<1> QED
  BY <1>1, <1>2, <1>3, PTL DEF DepositSpec
=============================================================================
