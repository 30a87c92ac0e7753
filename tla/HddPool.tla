------------------------------ MODULE HddPool ------------------------------
(***************************************************************************)
(* The storage contract hddpool: store pools with a quota, miners that     *)
(* take space from a pool, the accounts that earn for them, and the        *)
(* compact table of internal ids.  Composed with HddDeposit, whose actions *)
(* hddpool sends inline.                                                   *)
(*                                                                         *)
(* The contract keeps every miner twice: in minerinfo and maccount of the  *)
(* old model and in the table miner of the new one.  Space is counted in   *)
(* GB, of which every call must name a multiple.  The old model's balances *)
(* in HDD stop growing at hddm_latest_stop_time and are left out; a profit *)
(* is represented by the space it is computed from.                        *)
(***************************************************************************)
EXTENDS HddDeposit, Sequences

CONSTANTS
    Pools,
    PoolFee,         \* what registering a store pool costs
    Owners,          \* accounts that earn for miners
    Spaces,          \* the amounts of space that are registered or added
    ProfitSpaces,    \* the changes of production space
    RealSpaces,      \* the results of measuring a miner's space
    Levels, DefaultLevel,
    MaxMinerSpace, MaxPoolSpace, MaxProfitSpace,
    OldPool, OldSpace, OldUsed,  \* where and how the old miner is registered
    NoRow            \* a row that is not in its table

Eco == "ecologyfound"

ASSUME PoolAssumption ==
    /\ PoolFee \in Nat \ {0}
    /\ OldUser \in Owners /\ Spaces \subseteq Nat /\ ProfitSpaces \subseteq Nat /\ RealSpaces \subseteq Nat
    /\ Levels \subseteq Nat /\ DefaultLevel \in Nat
    /\ MaxMinerSpace \in Nat /\ MaxPoolSpace \in Nat /\ MaxProfitSpace \in Nat
    /\ OldPool \in Pools /\ OldSpace \in MinMinerSpace..MaxPoolSpace /\ OldUsed \in 0..OldSpace

Quota     == [max : Nat, left : Nat]
MinerInfo == [owner : Owners, pool : Pools, max : Nat, left : Nat]
MAccount  == [space : Nat, profit : Nat]
Miner     == [owner : Owners, pool : Pools, max : Nat, space : Nat, real : Nat,
              level : Levels \cup {DefaultLevel}, status : 0..2, id : Nat]

ASSUME NoRowAssumption == NoRow \notin Quota \cup MinerInfo \cup MAccount \cup Miner \cup Miners

VARIABLES
    storepool,    \* pool -> quota and what is left of it
    minerinfo,    \* miner -> owner, pool, space (old model)
    maccount,     \* owner -> miner -> production space and profit (old model)
    owner_space,  \* userhdd.hdd_space_profit
    miner,        \* miner -> row of the new model
    ids,          \* miner2 and its metadata miner2ex
    total_space   \* counterstat.total_space

poolVars == <<storepool, minerinfo, maccount, owner_space, miner, ids, total_space>>
allPool  == <<poolVars, allDeposit>>

\* The production space of an account is 0 until a miner reports some.
PoolInit ==
    /\ DepositInit
    /\ storepool = [p \in Pools |-> IF p = OldPool
                                    THEN [max |-> MaxPoolSpace, left |-> MaxPoolSpace - OldSpace]
                                    ELSE NoRow]
    /\ minerinfo = [m \in Miners |-> IF m = OldMiner
                                     THEN [owner |-> OldUser, pool |-> OldPool,
                                           max |-> OldSpace, left |-> OldSpace - OldUsed]
                                     ELSE NoRow]
    /\ \E profit \in {0, OldUsed} :
         /\ maccount = [o \in Owners |-> [m \in Miners |->
                          IF o = OldUser /\ m = OldMiner
                          THEN [space |-> OldUsed, profit |-> profit] ELSE NoRow]]
         /\ owner_space = [o \in Owners |-> IF o = OldUser THEN profit ELSE 0]
    /\ miner = [m \in Miners |-> NoRow]
    /\ ids = [next |-> 1, miners |-> 0, table |-> <<>>]
    /\ total_space = OldSpace

-----------------------------------------------------------------------------
(* The compact table: a freed id is the head of a list that runs through the
   table and ends one past its last row. *)

\* Mutation of insert_miner2: the list is left at the id that is handed out.
insert_keeps_head(m) ==
    IF ids.next = Len(ids.table) + 1
    THEN [next |-> ids.next + 1, miners |-> ids.miners + 1,
          table |-> Append(ids.table, [minerid |-> m, next_id |-> 0])]
    ELSE [ids EXCEPT !.miners = @ + 1, !.table[ids.next] = [minerid |-> m, next_id |-> 0]]

insert_miner2(m) ==
    IF ids.next = Len(ids.table) + 1
    THEN [next |-> ids.next + 1, miners |-> ids.miners + 1,
          table |-> Append(ids.table, [minerid |-> m, next_id |-> 0])]
    ELSE [next |-> ids.table[ids.next].next_id, miners |-> ids.miners + 1,
          table |-> [ids.table EXCEPT ![ids.next] = [minerid |-> m, next_id |-> 0]]]

del_miner2(id) ==
    [next |-> id, miners |-> ids.miners - 1,
     table |-> [ids.table EXCEPT ![id] = [minerid |-> NoRow, next_id |-> ids.next]]]

chg_owner_space(space, owner, delta, is_increase) ==
    IF owner = Eco THEN space
    ELSE [space EXCEPT ![owner] = IF is_increase THEN @ + delta
                                  ELSE IF @ > delta THEN @ - delta ELSE 0]

chg_total_space(delta, is_increase) ==
    IF is_increase THEN total_space + delta
    ELSE IF total_space > delta THEN total_space - delta ELSE 0

account(m) == maccount[minerinfo[m].owner][m]

\* Mutation of deactive: the profit is not looked at.
never_deactive(a) == FALSE

\* The old model's notion of a miner that does not earn.
deactive(a) == a.space > 0 /\ a.profit = 0

-----------------------------------------------------------------------------
(* Store pools. *)

regstrpool(p, owner) ==
    /\ storepool[p] = NoRow
    /\ transfer(owner, "hddpoolexchg", PoolFee)
    /\ storepool' = [storepool EXCEPT ![p] = [max |-> MaxPoolSpace, left |-> MaxPoolSpace]]
    /\ UNCHANGED <<minerinfo, maccount, owner_space, miner, ids, total_space>>

delstrpool(p) ==
    /\ storepool[p] # NoRow
    /\ storepool[p].max - storepool[p].left = 0
    /\ storepool' = [storepool EXCEPT ![p] = NoRow]
    /\ UNCHANGED <<allDeposit, minerinfo, maccount, owner_space, miner, ids, total_space>>

fits(p, max_space) == storepool[p].left > 0 /\ storepool[p].left >= max_space

quota(row, max_space) == [max |-> max_space, left |-> max_space - (row.max - row.left)]

chgpoolspace(p, max_space) ==
    /\ storepool[p] # NoRow
    /\ max_space <= MaxPoolSpace
    /\ storepool[p].max - storepool[p].left <= max_space
    /\ storepool' = [storepool EXCEPT ![p] = quota(@, max_space)]
    /\ UNCHANGED <<allDeposit, minerinfo, maccount, owner_space, miner, ids, total_space>>

-----------------------------------------------------------------------------
(* Registration.  The deposit is paid inline: when it cannot be paid the miner
   is not registered. *)

regminer(m, dep_acc, p, owner, max_space, quant) ==
    /\ storepool[p] # NoRow /\ minerinfo[m] = NoRow
    /\ max_space \in MinMinerSpace..MaxMinerSpace
    /\ fits(p, max_space)
    /\ maccount[owner][m] = NoRow /\ miner[m] = NoRow
    /\ is_deposit_enough(quant, max_space)
    /\ storepool' = [storepool EXCEPT ![p].left = @ - max_space]
    /\ maccount' = [maccount EXCEPT ![owner][m] = [space |-> 0, profit |-> 0]]
    /\ minerinfo' = [minerinfo EXCEPT ![m] = [owner |-> owner, pool |-> p,
                                              max |-> max_space, left |-> max_space]]
    /\ total_space' = chg_total_space(max_space, TRUE)
    /\ ids' = insert_miner2(m)
    /\ miner' = [miner EXCEPT ![m] = [owner |-> owner, pool |-> p, max |-> max_space, space |-> 0,
                                      real |-> 0, level |-> DefaultLevel, status |-> 2, id |-> ids.next]]
    /\ paydeposit(dep_acc, m, quant)
    /\ UNCHANGED owner_space

\* A row for a miner that was registered before the new model, with space: newminer,
\* which made rows without, is disabled.
oldsync(m) ==
    LET i == minerinfo[m] IN
    /\ miner[m] = NoRow /\ i # NoRow
    /\ ids' = insert_miner2(m)
    /\ miner' = [miner EXCEPT ![m] =
                   [owner |-> i.owner, pool |-> i.pool, max |-> i.max,
                    space |-> IF i.max >= i.left THEN i.max - i.left ELSE 0, real |-> 0,
                    level |-> DefaultLevel, status |-> IF deactive(account(m)) THEN 1 ELSE 0,
                    id |-> ids.next]]
    /\ UNCHANGED <<allDeposit, storepool, minerinfo, maccount, owner_space, total_space>>

delminer(m) ==
    LET i == minerinfo[m] IN
    /\ i # NoRow
    /\ deposit_delminer(m)
    /\ owner_space' = IF account(m).profit > 0
                      THEN chg_owner_space(owner_space, i.owner, account(m).space, FALSE) ELSE owner_space
    /\ maccount' = [maccount EXCEPT ![i.owner][m] = NoRow]
    /\ storepool' = IF storepool[i.pool] = NoRow THEN storepool
                    ELSE [storepool EXCEPT ![i.pool].left = @ + i.max]
    /\ minerinfo' = [minerinfo EXCEPT ![m] = NoRow]
    /\ total_space' = chg_total_space(i.max, FALSE)
    /\ ids' = IF miner[m] = NoRow THEN ids ELSE del_miner2(miner[m].id)
    /\ miner' = [miner EXCEPT ![m] = NoRow]

enlarged(row, space) == [row EXCEPT !.max = @ + space, !.left = @ + space]

\* More space against more deposit, which also makes up for fines.
mincdeposit(m, space, quant) ==
    /\ miner[m] # NoRow
    /\ miner[m].max + space \in MinMinerSpace..MaxMinerSpace
    /\ storepool[miner[m].pool].left >= space
    /\ quant >= get_miner_forfeit(m) + calc_deposit(space)
    /\ storepool' = [storepool EXCEPT ![miner[m].pool].left = @ - space]
    /\ miner' = [miner EXCEPT ![m].max = @ + space,
                              ![m].real = IF @ > 0 THEN @ + space ELSE @]
    /\ total_space' = chg_total_space(space, TRUE)
    /\ incdeposit(m, quant)
    /\ minerinfo' = [minerinfo EXCEPT ![m] = enlarged(@, space)]
    /\ UNCHANGED <<maccount, owner_space, ids>>

-----------------------------------------------------------------------------
(* Production space and profit. *)

addmprofit(m, space) ==
    /\ minerinfo[m] # NoRow /\ ~deactive(account(m))
    /\ minerinfo[m].left >= space
    /\ LET o == minerinfo[m].owner  new == account(m).space + space IN
       /\ minerinfo' = [minerinfo EXCEPT ![m].left = @ - space]
       /\ maccount' = [maccount EXCEPT ![o][m] = [space |-> new, profit |-> new]]
       /\ owner_space' = chg_owner_space(owner_space, o, space, TRUE)
       /\ owner_space'[o] <= MaxProfitSpace
    /\ miner' = IF miner[m] = NoRow THEN miner
                ELSE [miner EXCEPT ![m].space = @ + space, ![m].status = IF @ = 2 THEN 0 ELSE @]
    /\ UNCHANGED <<allDeposit, storepool, ids, total_space>>

\* A deactivated miner loses production space without touching its owner's.
submprofit(m, space) ==
    /\ minerinfo[m] # NoRow
    /\ minerinfo[m].left + space <= minerinfo[m].max
    /\ account(m).space >= space
    /\ LET o == minerinfo[m].owner  new == account(m).space - space IN
       /\ minerinfo' = [minerinfo EXCEPT ![m].left = @ + space]
       /\ maccount' = [maccount EXCEPT ![o][m] =
                         [space |-> new, profit |-> IF deactive(@) THEN 0 ELSE new]]
       /\ owner_space' = IF deactive(account(m)) THEN owner_space
                         ELSE chg_owner_space(owner_space, o, space, FALSE)
    /\ miner' = IF miner[m] = NoRow THEN miner ELSE [miner EXCEPT ![m].space = @ - space]
    /\ UNCHANGED <<allDeposit, storepool, ids, total_space>>

mdeactive(m) ==
    /\ minerinfo[m] # NoRow /\ ~deactive(account(m))
    /\ maccount' = [maccount EXCEPT ![minerinfo[m].owner][m].profit = 0]
    /\ owner_space' = chg_owner_space(owner_space, minerinfo[m].owner, account(m).space, FALSE)
    /\ miner' = IF miner[m] = NoRow THEN miner ELSE [miner EXCEPT ![m].status = 1]
    /\ UNCHANGED <<allDeposit, storepool, minerinfo, ids, total_space>>

mactive(m) ==
    /\ minerinfo[m] # NoRow /\ account(m).profit = 0
    /\ maccount' = [maccount EXCEPT ![minerinfo[m].owner][m].profit = account(m).space]
    /\ owner_space' = chg_owner_space(owner_space, minerinfo[m].owner, account(m).space, TRUE)
    /\ owner_space'[minerinfo[m].owner] <= MaxProfitSpace
    /\ miner' = IF miner[m] = NoRow THEN miner ELSE [miner EXCEPT ![m].status = 0]
    /\ UNCHANGED <<allDeposit, storepool, minerinfo, ids, total_space>>

-----------------------------------------------------------------------------
(* Moving a miner. *)

mchgstrpool(m, p) ==
    LET i    == minerinfo[m]
        old  == storepool[i.pool]
        left == old.left + i.max
        back == [storepool EXCEPT ![i.pool].left = IF left > old.max THEN old.max ELSE left]
    IN
    /\ i # NoRow /\ storepool[p] # NoRow /\ old # NoRow
    /\ back[p].left >= i.max
    /\ storepool' = [back EXCEPT ![p].left = @ - i.max]
    /\ minerinfo' = [minerinfo EXCEPT ![m].pool = p]
    /\ miner' = IF miner[m] = NoRow THEN miner ELSE [miner EXCEPT ![m].pool = p]
    /\ UNCHANGED <<allDeposit, maccount, owner_space, ids, total_space>>

mchgowneracc(m, new) ==
    LET old == minerinfo[m].owner
        a   == account(m)
    IN
    /\ minerinfo[m] # NoRow /\ maccount[new][m] = NoRow
    /\ owner_space' = IF a.profit > 0
                      THEN chg_owner_space(chg_owner_space(owner_space, old, a.space, FALSE),
                                           new, a.space, TRUE)
                      ELSE owner_space
    /\ owner_space'[new] <= MaxProfitSpace
    /\ maccount' = [maccount EXCEPT ![new][m] = a, ![old][m] = NoRow]
    /\ minerinfo' = [minerinfo EXCEPT ![m].owner = new]
    /\ miner' = IF miner[m] = NoRow THEN miner ELSE [miner EXCEPT ![m].owner = new]
    /\ UNCHANGED <<allDeposit, storepool, ids, total_space>>

mlevel(m, level) ==
    /\ miner[m] # NoRow /\ miner[m].level # level
    /\ miner' = [miner EXCEPT ![m].level = level]
    /\ UNCHANGED <<allDeposit, storepool, minerinfo, maccount, owner_space, ids, total_space>>

mrspace(m, real_space) ==
    /\ miner[m] # NoRow /\ real_space > 0
    /\ real_space # miner[m].real /\ miner[m].max >= real_space
    /\ miner' = [miner EXCEPT ![m].real = real_space]
    /\ UNCHANGED <<allDeposit, storepool, minerinfo, maccount, owner_space, ids, total_space>>

-----------------------------------------------------------------------------
HddPoolActions ==
    \/ \E p \in Pools, u \in Users : regstrpool(p, u)
    \/ \E p \in Pools : delstrpool(p) \/ \E s \in Spaces : chgpoolspace(p, s)
    \/ \E m \in Miners, u \in Users, p \in Pools, o \in Owners, s \in Spaces :
         \E q \in Amounts \cup {calc_deposit(s)} : regminer(m, u, p, o, s, q)
    \/ \E m \in Miners, s \in Spaces \cup {0} :
         \E q \in Amounts \cup {get_miner_forfeit(m) + calc_deposit(s)} : mincdeposit(m, s, q)
    \/ \E m \in Miners : oldsync(m) \/ delminer(m) \/ mdeactive(m) \/ mactive(m)
    \/ \E m \in Miners, s \in ProfitSpaces : addmprofit(m, s) \/ submprofit(m, s)
    \/ \E m \in Miners, s \in RealSpaces : mrspace(m, s)
    \/ \E m \in Miners, p \in Pools : mchgstrpool(m, p)
    \/ \E m \in Miners, o \in Owners : mchgowneracc(m, o)
    \/ \E m \in Miners, l \in Levels : mlevel(m, l)

PoolNext == HddPoolActions \/ (AccountNext /\ UNCHANGED poolVars)

PoolSpec == PoolInit /\ [][PoolNext]_allPool

-----------------------------------------------------------------------------
\* The type invariant.
PoolTypeOK ==
    /\ storepool \in [Pools -> Quota \cup {NoRow}]
    /\ minerinfo \in [Miners -> MinerInfo \cup {NoRow}]
    /\ maccount \in [Owners -> [Miners -> MAccount \cup {NoRow}]]
    /\ owner_space \in [Owners -> Nat]
    /\ miner \in [Miners -> Miner \cup {NoRow}]
    /\ ids \in [next : Nat, miners : Nat,
                table : Seq([minerid : Miners \cup {NoRow}, next_id : Nat])]
    /\ total_space \in Nat

Registered == {m \in Miners : minerinfo[m] # NoRow}

\* What a row of minerinfo takes from all pools and from pool p, and what a row of
\* maccount earns its owner.
size(row)     == IF row # NoRow THEN row.max ELSE 0
taken(row, p) == IF row # NoRow /\ row.pool = p THEN row.max ELSE 0
earned(a)     == IF a # NoRow /\ a.profit > 0 THEN a.space ELSE 0

\* The used part of a pool's quota is what its miners have registered, after any
\* sequence of registrations, moves, enlargements and deletions; no quota is lost
\* and no pool is deleted while a miner is in it.
QuotaIsUsed ==
    /\ \A p \in Pools : storepool[p] # NoRow =>
         storepool[p].max - storepool[p].left = SumFunction([m \in Miners |-> taken(minerinfo[m], p)])
    /\ \A m \in Registered : storepool[minerinfo[m].pool] # NoRow
    /\ total_space = SumFunction([m \in Miners |-> size(minerinfo[m])])

\* An owner is paid for the production space of exactly those of its miners that
\* earn, across deactivation, change of owner and deletion.
OwnerSpaceIsEarned ==
    \A o \in Owners \ {Eco} : owner_space[o] = SumFunction([m \in Miners |-> earned(maccount[o][m])])

\* The tables of the two models agree, and a miner has one account, under its owner.
TablesAgree ==
    \A m \in Miners :
        /\ \A o \in Owners : maccount[o][m] # NoRow <=> m \in Registered /\ minerinfo[m].owner = o
        /\ m \in Registered => minerinfo[m].max - minerinfo[m].left = account(m).space
        /\ miner[m] # NoRow =>
             /\ m \in Registered
             /\ [owner |-> miner[m].owner, pool |-> miner[m].pool, max |-> miner[m].max,
                 left |-> miner[m].max - miner[m].space] = minerinfo[m]
             /\ miner[m].real <= miner[m].max

\* All running sums and redundant copies of registered and produced space agree.
SpaceAccounted == PoolTypeOK /\ QuotaIsUsed /\ OwnerSpaceIsEarned /\ TablesAgree

FreeList == {i \in DOMAIN ids.table : ids.table[i].minerid = NoRow}

\* Every internal id belongs to the one miner that has it, or it is on the list of
\* free ids, which visits each of them once and ends one past the table.
IdsPartition ==
    /\ \A i \in DOMAIN ids.table \ FreeList :
         miner[ids.table[i].minerid] # NoRow /\ miner[ids.table[i].minerid].id = i
    /\ \A m \in Miners : miner[m] # NoRow => ids.table[miner[m].id].minerid = m
    /\ ids.miners = Cardinality({m \in Miners : miner[m] # NoRow})
    /\ \E walk \in [1..Cardinality(FreeList) + 1 -> FreeList \cup {Len(ids.table) + 1}] :
         /\ walk[1] = ids.next /\ Range(walk) = FreeList \cup {Len(ids.table) + 1}
         /\ \A k \in 1..Cardinality(FreeList) :
              walk[k] \in FreeList /\ walk[k + 1] = ids.table[walk[k]].next_id

\* While the rate stays, the deposit a new miner owes covers its space, however
\* often it was fined, enlarged or moved: the deposit, together with the fines it
\* has not made up for, is what max_space costs.  Every step that adds space may
\* cut off a unit, so what is missing is at most one unit for each GB.
SpaceCovered ==
    \A m \in Registered : mdep[m].type = "new" =>
        /\ mdep[m].dep_total + minerinfo[m].max >= calc_deposit(minerinfo[m].max)
        /\ mdep[m].deposit <= mdep[m].dep_total

\* What was paid step by step passes is_deposit_enough for the whole space.  Not
\* true of the code, which cuts off a unit in each step.
DepositSuffices ==
    \A m \in Registered : mdep[m].type = "new" =>
        is_deposit_enough(mdep[m].dep_total, minerinfo[m].max)

\* A miner that is deactivated earns nothing: status 1 in the new table means no
\* profit in the old one.
DeactiveEarnsNothing ==
    \A m \in Registered : miner[m] # NoRow /\ miner[m].status = 1 => account(m).profit = 0
=============================================================================
